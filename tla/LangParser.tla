----------------------------- MODULE LangParser -----------------------------
(***************************************************************************)
(* The scanner of parameter lists in the embedded language: lang_parser    *)
(* with its subclasses cpp_parser and java_parser.                         *)
(*                                                                         *)
(* The text comes from an istream.  Its characters are chosen one by one,  *)
(* as they are read, so that every text of a kind is parsed.  A            *)
(* scanning action is one turn of the loop that reads characters; a        *)
(* parsing action is what is done with the token that was read.            *)
(***************************************************************************)
EXTENDS Integers, SequencesExt

CONSTANT
    Texts             \* kinds of texts: records with the fields
                      \*   language  "c++" or "java",
                      \*   chars     the characters it is made of; one that belongs to no class
                      \*             below is a character that the scanner does not know,
                      \*   inParens  it begins with a parenthesis, as the compiler's lexer
                      \*             delivers it,
                      \*   length    bound

VARIABLES
    given,            \* the kind of the text, the characters that is_ has delivered, and
                      \*   whether it has delivered EOF
    is_,              \* a character that was put back or only looked at
    parens_,          \* the stack of opening characters
    started_with_lparen_,
    mode,             \* the function that reads characters, or what became of the call
    lexeme,           \* the token that is being read, or was
    charset,          \* the digits of the number that is being read
    want,             \* what the caller of get_token_() does with the token
    param,            \* the local variables of parse_param_()
    param_list

vars == <<given, is_, parens_, started_with_lparen_, mode, lexeme, charset, want, param,
          param_list>>

Language == given.kind.language
Chars    == given.kind.chars
text     == given.text

NUL     == "NUL"      \* '\0', which get_char_() also returns at the end of the text
Letters == {"a", "b", "x", "_"}
Decimal == {"0", "1", "2", "7", "8", "9"}
Blank   == {" ", "newline"}
Opening == {"(", "<", "["}
Closing == {")", ">", "]"}
Punct   == {"&", ":", ",", ".", "=", "*"} \cup Opening \cup Closing

opening_char == [c \in Closing |-> CASE c = ")" -> "(" [] c = ">" -> "<" [] c = "]" -> "["]

\* A token: its type and its characters.
Token(type, str) == [type |-> type, str |-> str]
NONE             == Token("NONE", <<>>)

NoParam == [decl |-> <<>>, name_index |-> 0, found_rparen |-> FALSE]

-----------------------------------------------------------------------------
(* Characters. *)

\* The opening characters that are not closed, in a sequence of characters.
Open(chars) ==
    FoldLeft(LAMBDA acc, c : IF c \in Opening THEN Append(acc, c)
                             ELSE IF c \in Closing /\ acc # <<>> THEN Front(acc) ELSE acc,
             <<>>, chars)

\* The text ends at the parenthesis that matches the one it began with.
Complete == text # <<>> /\ text[1] = "(" /\ Open(text) = <<>>

\* The next character of the istream, before get_char_() looks at it.
Delivers(c) ==
    \/ is_ # <<>> /\ c = is_[1] /\ given' = given
    \/ is_ = <<>> /\ c = NUL /\ given' = [given EXCEPT !.ended = TRUE]
    \/ /\ is_ = <<>> /\ ~given.ended /\ ~Complete
       /\ c \in Chars /\ Len(text) < given.kind.length
       /\ given.kind.inParens /\ text = <<>> => c = "("
       /\ given' = [given EXCEPT !.text = Append(@, c)]

\* get_char_(): the character, the parentheses after it, and whether they match.
get_char_(c) ==
    LET match == parens_ # <<>> /\ Last(parens_) = opening_char[c]
        last  == c = ")" /\ Len(parens_) = 1 /\ started_with_lparen_
    IN  CASE c \in Opening -> [c |-> c, parens |-> Append(parens_, c), ok |-> TRUE]
          [] c \in Closing /\ match ->
                [c |-> IF last THEN NUL ELSE c, parens |-> Front(parens_), ok |-> TRUE]
          [] c \in Closing /\ ~match -> [c |-> c, parens |-> parens_, ok |-> FALSE]
          [] OTHER -> [c |-> c, parens |-> parens_, ok |-> TRUE]

\* What unget_char_() does to the parentheses.
unget_char_(c, parens) ==
    CASE c \in Opening -> Front(parens)
      [] c \in Closing -> Append(parens, opening_char[c])
      [] OTHER -> parens

Stop(outcome) ==
    /\ mode' = outcome
    /\ UNCHANGED <<started_with_lparen_, lexeme, charset, want, param, param_list>>

\* A function that reads characters reads one more, which it keeps ("use") or ungets ("unget"):
\* what it then does is the action A.
Turn(m, A(_)) ==
    /\ mode = m
    /\ \E raw \in Chars \cup {NUL} :
          /\ Delivers(raw)
          /\ LET got == get_char_(raw)
             IN  IF got.ok
                 THEN A(got)
                 ELSE is_' = <<>> /\ parens_' = parens_ /\ Stop("exception")

Use(got) == is_' = <<>> /\ parens_' = got.parens

Unget(got) == is_' = <<got.c>> /\ parens_' = unget_char_(got.c, got.parens)

Goto(m) ==
    /\ mode' = m
    /\ UNCHANGED <<started_with_lparen_, lexeme, charset, want, param, param_list>>

\* Reads on in mode m, with the token so far.
Collect(m, token, set) ==
    /\ mode' = m /\ lexeme' = token /\ charset' = set
    /\ UNCHANGED <<started_with_lparen_, want, param, param_list>>

Longer(c) == [lexeme EXCEPT !.str = Append(@, c)]

\* get_token_() returns.
Return(token) ==
    /\ mode' = "parse" /\ lexeme' = token
    /\ UNCHANGED <<started_with_lparen_, charset, want, param, param_list>>

-----------------------------------------------------------------------------
(* Tokens. *)

get_token_ ==
    LET next(got) ==
            /\ Use(got)
            /\ CASE got.c \in Letters -> Collect("identifier", Token("IDENTIFIER", <<got.c>>), {})
                 [] got.c \in Decimal -> Collect(IF got.c = "0" THEN "zero" ELSE "number",
                                                 Token("NUMBER", <<got.c>>), Decimal)
                 [] got.c = "/"       -> Goto("slash")
                 [] got.c \in Punct   -> Return(Token(got.c, <<got.c>>))
                 [] got.c = NUL       -> Return(NONE)
                 [] OTHER             -> Goto("token")      \* white space, unknown characters
    IN  Turn("token", next)

parse_identifier_ ==
    LET next(got) ==
            CASE got.c \in Letters \cup Decimal ->
                    Use(got) /\ Collect("identifier", Longer(got.c), {})
              [] got.c = NUL -> Use(got) /\ Return(lexeme)
              [] OTHER       -> Unget(got) /\ Return(lexeme)
    IN  Turn("identifier", next)

\* The character after a leading 0 says which digits follow.
parse_number_zero ==
    LET digits(c) == CASE c = "b" -> {"0", "1"}
                       [] c \in {"0", "1", "2", "7"} -> {"0", "1", "2", "7"}
                       [] c = "x" -> Decimal \cup {"a", "b"}
                       [] OTHER -> {}
        next(got) ==
            /\ Use(got)
            /\ CASE got.c = NUL -> Return(lexeme)
                 [] digits(got.c) # {} ->
                       Collect("number", Longer(got.c), digits(got.c))
                 [] OTHER -> Stop("exception")
    IN  Turn("zero", next)

parse_number_ ==
    LET next(got) ==
            CASE got.c \in charset -> Use(got) /\ Collect("number", Longer(got.c), charset)
              [] got.c = NUL       -> Use(got) /\ Return(lexeme)
              [] OTHER             -> Unget(got) /\ Return(lexeme)
    IN  Turn("number", next)

\* After a slash: parse_comment() of the next character, if there is one.
slash ==
    LET next(got) ==
            CASE got.c = NUL -> Use(got) /\ Return(Token("/", <<"/">>))
              [] got.c = "/" -> Use(got) /\ Goto("line_comment")
              [] got.c = "*" -> Use(got) /\ Goto("block_comment")
              [] OTHER       -> Unget(got) /\ Goto("token")
    IN  Turn("slash", next)

line_comment_to_newline ==
    LET next(got) == Use(got) /\ Goto(IF got.c = "newline" THEN "token" ELSE "line_comment")
    IN  Turn("line_comment", next)

line_comment ==
    LET next(got) == Use(got) /\ Goto(IF got.c \in {NUL, "newline"} THEN "token"
                                      ELSE "line_comment")
    IN  Turn("line_comment", next)

block_comment ==
    LET next(got) == Use(got) /\ Goto(CASE got.c = NUL -> "token"
                                        [] got.c = "*" -> "star"
                                        [] OTHER -> "block_comment")
    IN  Turn("block_comment", next)

\* peek_char_() after a star: the slash is read, and the loop goes on.
star ==
    /\ mode = "star"
    /\ \E raw \in Chars \cup {NUL} :
          Delivers(raw) /\ is_' = IF raw \in {"/", NUL} THEN <<>> ELSE <<raw>>
    /\ parens_' = parens_
    /\ Goto("block_comment")

-----------------------------------------------------------------------------
(* Parameters. *)

\* Calls get_token_().
Get(next) ==
    /\ want' = next /\ mode' = "token" /\ lexeme' = NONE
    /\ UNCHANGED <<given, is_, parens_, charset>>

Fail(outcome) == Stop(outcome) /\ UNCHANGED <<given, is_, parens_>>

\* get_token_if_type_( LPAREN ): unget_token_() asserts that there is a token, and makes it
\* the peeked_token_ that the next get_token_() returns and clears.
begin_param_list ==
    /\ mode = "parse" /\ want = "lparen"
    /\ CASE lexeme = NONE -> Fail("assertion")
         [] lexeme.type = "(" ->
               /\ started_with_lparen_' = TRUE
               /\ Get("first")
               /\ UNCHANGED <<param, param_list>>
         [] OTHER ->
               /\ want' = "first"
               /\ UNCHANGED <<given, is_, parens_, started_with_lparen_, mode, lexeme, charset,
                              param, param_list>>

\* The end of parse_param_list(), when parse_param_() returns false.
Finish == Fail(IF parens_ = <<>> THEN "done" ELSE "exception")

\* within_parens_(): the subtraction is one of unsigned numbers.
within_parens_ == Len(parens_) # (IF started_with_lparen_ THEN 1 ELSE 0)

is_param_end_(t) == t = NONE \/ (t.type = "," /\ ~within_parens_)

DeclareRightmost(p, t) ==
    [decl         |-> Append(p.decl, t),
     name_index   |-> IF t.type = "IDENTIFIER" THEN Len(p.decl) + 1 ELSE p.name_index,
     found_rparen |-> p.found_rparen \/ t.type = ")"]

\* One turn of the loop of cpp_parser::parse_param_() and of java_parser::parse_param_().
Declare(p, t) ==
    [decl         |-> Append(p.decl, t),
     name_index   |-> IF t.type = "IDENTIFIER" /\ ~(Language = "c++" /\ p.found_rparen)
                      THEN Len(p.decl) + 1 ELSE p.name_index,
     found_rparen |-> p.found_rparen \/ t.type = ")"]

first_token ==
    /\ mode = "parse" /\ want = "first"
    /\ CASE lexeme = NONE -> Finish
         [] lexeme.type = "IDENTIFIER" ->
               /\ param' = [NoParam EXCEPT !.decl = <<lexeme>>]
               /\ Get("second")
               /\ UNCHANGED <<started_with_lparen_, param_list>>
         [] OTHER -> Fail("exception")

next_token ==
    /\ mode = "parse" /\ want \in {"second", "rest"}
    /\ CASE want = "second" /\ lexeme = NONE -> Fail("exception")
         [] (want = "rest" \/ lexeme # NONE) /\ ~is_param_end_(lexeme) ->
               /\ param' = Declare(param, lexeme)
               /\ Get("rest")
               /\ UNCHANGED <<started_with_lparen_, param_list>>
         [] OTHER ->
               IF param.name_index = 0 THEN Finish
               ELSE /\ param_list' = Append(param_list, param.decl[param.name_index].str)
                    /\ Get("first")
                    /\ UNCHANGED <<started_with_lparen_, param>>

-----------------------------------------------------------------------------
Init ==
    /\ \E t \in Texts : given = [kind |-> t, text |-> <<>>, ended |-> FALSE]
    /\ is_ = <<>>
    /\ parens_ = <<>> /\ started_with_lparen_ = FALSE
    /\ mode = "token" /\ lexeme = NONE /\ charset = {} /\ want = "lparen"
    /\ param = NoParam /\ param_list = <<>>

Finished == mode \in {"done", "exception", "assertion"} /\ UNCHANGED vars

Next ==
    \/ get_token_ \/ parse_identifier_ \/ parse_number_zero \/ parse_number_
    \/ slash \/ line_comment \/ block_comment \/ star
    \/ begin_param_list \/ first_token \/ next_token
    \/ Finished

Spec == Init /\ [][Next]_vars

FairSpec == Spec /\ WF_vars(Next)

-----------------------------------------------------------------------------
(* What the text says. *)

\* Positions in a sequence of characters that lie in no comment, read as C++ and Java do:
\* "in" is the kind of comment, "from" where it began.
Visible(chars) ==
    LET step(acc, i) ==
            LET two == i < Len(chars)
                is(a, b) == two /\ chars[i] = a /\ chars[i + 1] = b
            IN  CASE acc.in = "none" /\ is("/", "*") -> [acc EXCEPT !.in = "block", !.from = i]
                  [] acc.in = "none" /\ is("/", "/") -> [acc EXCEPT !.in = "line"]
                  [] acc.in = "line" /\ chars[i] = "newline" -> [acc EXCEPT !.in = "none"]
                  [] acc.in = "block" /\ i > acc.from + 2 /\ chars[i] = "/" /\ chars[i - 1] = "*"
                       -> [acc EXCEPT !.in = "none"]
                  [] acc.in = "none" -> [acc EXCEPT !.at = @ \cup {i}]
                  [] OTHER -> acc
    IN  FoldLeft(step, [in |-> "none", from |-> 0, at |-> {}], [i \in 1 .. Len(chars) |-> i]).at

\* A text with its comments replaced by blanks.
Bare(chars) == [i \in 1 .. Len(chars) |-> IF i \in Visible(chars) THEN chars[i] ELSE " "]

\* A list in parentheses, from which the comments were taken away, is split at its own commas.
Commas(chars) == {i \in DOMAIN chars : chars[i] = "," /\ Open(SubSeq(chars, 1, i)) = <<"(">>}

Begins(chars) == {1} \cup Commas(chars)

EndOf(chars, b) == CHOOSE e \in Commas(chars) \cup {Len(chars)} :
                      e > b /\ \A c \in Commas(chars) : c > b => e <= c

\* The parameter that begins at b, and where identifiers begin in it.
Part(chars, b) == b + 1 .. EndOf(chars, b) - 1

IdentifiersAt(chars, b) ==
    {i \in Part(chars, b) : chars[i] \in Letters /\ chars[i - 1] \notin Letters \cup Decimal}

\* Those that may be its name: all but the first, and in C++ only up to the left-most closing
\* parenthesis.
Names(chars, b) ==
    LET ids  == IdentifiersAt(chars, b)
        stop == {i \in Part(chars, b) : chars[i] = ")"}
    IN  {i \in ids : /\ \E j \in ids : j < i
                     /\ Language = "c++" => \A j \in stop : i < j}

\* It begins with an identifier and has a name.
WellFormedPart(chars, b) ==
    /\ Names(chars, b) # {}
    /\ \A i \in Part(chars, b) : \/ chars[i] \in Blank
                                 \/ \E j \in IdentifiersAt(chars, b) : j <= i

\* The brackets match, there are no numbers, and every parameter has a name.
WellFormed(chars) ==
    /\ chars # <<>> /\ chars[1] = "("
    /\ \A i \in DOMAIN chars : chars[i] \in Decimal => chars[i - 1] \in Letters \cup Decimal
    /\ \A i \in DOMAIN chars : chars[i] \in Closing =>
          LET before == Open(SubSeq(chars, 1, i - 1))
          IN  before # <<>> /\ Last(before) = opening_char[chars[i]]
    /\ Open(chars) = <<>>
    /\ \/ \A i \in 2 .. Len(chars) - 1 : chars[i] \in Blank
       \/ \A b \in Begins(chars) : WellFormedPart(chars, b)

\* The right-most of these identifiers.
NameAt(chars, b) ==
    LET from == CHOOSE i \in Names(chars, b) : \A j \in Names(chars, b) : j <= i
        to   == CHOOSE t \in from .. Len(chars) - 1 :
                   /\ \A i \in from .. t : chars[i] \in Letters \cup Decimal
                   /\ chars[t + 1] \notin Letters \cup Decimal
    IN  SubSeq(chars, from, to)

NamesOf(chars) ==
    IF \A i \in 2 .. Len(chars) - 1 : chars[i] \in Blank THEN <<>>
    ELSE LET begins == SetToSortSeq(Begins(chars), <)
         IN  [k \in DOMAIN begins |-> NameAt(chars, begins[k])]

-----------------------------------------------------------------------------
(* Properties. *)

\* parens_ holds the brackets that are open in what was read and not put back, although a
\* bracket is often read ahead and put back by unget_char_().
ParensTracked ==
    mode \notin {"done", "exception"} => parens_ = Open(SubSeq(text, 1, Len(text) - Len(is_)))

\* A list in parentheses without numbers, whose brackets match and whose parameters are all
\* named, is accepted, and the result is the names of its parameters in their order: nested
\* lists, templates, blanks and comments in it do not matter, and brackets are counted.
ListsParsed ==
    /\ ParensTracked
    /\ Complete /\ mode \in {"done", "exception"} =>
          LET bare == Bare(text)
          IN  WellFormed(bare) => mode = "done" /\ param_list = NamesOf(bare)

\* Every text is read to an end: no loop waits for a character that never comes.
Terminates == <>(mode \in {"done", "exception", "assertion"})
=============================================================================
