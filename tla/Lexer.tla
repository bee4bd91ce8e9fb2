------------------------------- MODULE Lexer -------------------------------
(***************************************************************************)
(* The lexical analyzer of chsmc between the two `%%' (lexer.h, lexer.lpp)  *)
(* and the places where the grammar (parser.ypp) steers it.                 *)
(*                                                                         *)
(* The same brackets enclose CHSM lists, which the parser reads, and C++ or *)
(* Java text, which is collected unread.  Which of them a bracket opens     *)
(* depends on the tokenization state that the parser's actions push and     *)
(* pop, and Bison performs some of these actions only after it has read one *)
(* more token.  The grammar is therefore a set of steps, each of one token  *)
(* and of what the parser does before it reads the next one: what follows   *)
(* by default, and what needs the token as look-ahead.                      *)
(*                                                                         *)
(* Embedded text, names and the symbol table are left out (see Parser).     *)
(***************************************************************************)
EXTENDS Naturals, Sequences, SequencesExt

CONSTANT Errors      \* TRUE: descriptions with the errors the grammar recovers from in place

ASSUME LexerAssumption == Errors \in BOOLEAN

VARIABLES
    pc,              \* where in the grammar the parser is
    outer,           \* ... where it is to go on after an embedded construct
    lexer,           \* state_ and stack_
    cond, sconds,    \* start condition of flex, and those to resume
    just_did_ident

vars == <<pc, outer, lexer, cond, sconds, just_did_ident>>

\* lexer::stack_
StackSize == 5

-----------------------------------------------------------------------------
(***************************************************************************)
(* Tokenization states.                                                     *)
(***************************************************************************)
push_state(lx, s) == [state |-> s, stack |-> Append(lx.stack, lx.state)]

pop_state(lx) == [state |-> Last(lx.stack), stack |-> Front(lx.stack)]

\* What the parser's actions do to the analyzer: "pop", or push a state.
Perform(lx, does) ==
    FoldLeft(LAMBDA l, d : IF d = "pop" THEN pop_state(l) ELSE push_state(l, d), lx, does)

-----------------------------------------------------------------------------
(***************************************************************************)
(* Start conditions: MAIN; ANGLE, PAREN, CEXPR and CCODE, in which all text *)
(* up to the matching bracket is collected; and EMBED, after a `$'.         *)
(***************************************************************************)
\* Mutant: `[' is special only where a transition is expected.
square_of_transition(state) == IF state = "CEXPR" THEN "CEXPR" ELSE "MAIN"

\* `[': parameters may be followed by a precondition, or left out.
square(state) == IF state \in {"CPARAMS", "CEXPR"} THEN "CEXPR" ELSE "MAIN"

\* `(' and `<'.
round_or_angle(state) ==
    CASE state = "CCLASS"  -> "ANGLE"
      [] state = "CPARAMS" -> "PAREN"
      [] OTHER             -> "MAIN"

\* The start condition after a token of MAIN.
Opened(token) ==
    CASE token \in {"(", "<"} -> round_or_angle(lexer.state)
      [] token = "["          -> square(lexer.state)
      [] token = "%{"         -> "CCODE"
      [] OTHER                -> "MAIN"

\* The bracket that ends the text of a start condition.
Closing == [ANGLE |-> ">", PAREN |-> ")", CEXPR |-> "]", CCODE |-> "%}"]

Collecting == DOMAIN Closing

\* Whether the text `token' is the token of that name, here.  There is no rule for
\* "::": each colon is a Y_ERROR.
Returns(token) ==
    IF cond \in Collecting
      THEN token = Closing[cond] \/ (token = "$" /\ cond \in {"CEXPR", "CCODE"})
      ELSE token \notin {"]", "%}", "$", "::"}

\* The flag when yylex() is called.
remembered == IF just_did_ident = 1 THEN 2 ELSE 0

\* Whether ".x" is what qualifies the state named before it, or one dot.
DottedAs == IF remembered # 0 THEN "substates" ELSE "dots"

yylex(token) ==
    /\ Returns(token)
    /\ token \in {"substates", "dots"} => token = DottedAs
    /\ just_did_ident' = IF token = "identifier" THEN 1 ELSE remembered
    /\ CASE cond = "MAIN" -> cond' = Opened(token) /\ UNCHANGED sconds
         [] cond \in Collecting /\ token = "$" ->
                cond' = "EMBED" /\ sconds' = Append(sconds, cond)
         [] cond \in Collecting /\ token # "$" -> cond' = "MAIN" /\ UNCHANGED sconds
         [] cond = "EMBED" /\ token \in {")", "}"} ->
                cond' = Last(sconds) /\ sconds' = Front(sconds)
         [] OTHER -> UNCHANGED <<cond, sconds>>

-----------------------------------------------------------------------------
(***************************************************************************)
(* The grammar.                                                             *)
(***************************************************************************)
Read(at, token, does, next) == [at |-> at, token |-> token, does |-> does, next |-> next]

None == <<>>

\* derived_class_spec_opt and the name after it: the state pushed for the `<' is
\* popped when the name has been read, if there is no class.
Name(of, does, next) ==
    { Read(of \o ".name", "<", None, of \o ".class"),
      Read(of \o ".class", ">", <<"pop">>, of \o ".identifier"),
      Read(of \o ".identifier", "identifier", does, next),
      Read(of \o ".name", "identifier", <<"pop">> \o does, next) }

chsm_description ==
    { Read("begin", "chsm", <<"CCLASS">>, "chsm.name"),
      Read("chsm.parameters", "(", None, "chsm.list"),
      Read("chsm.list", ")", <<"pop">>, "chsm.is"),
      Read("chsm.is", "{", None, "body"),
      Read("chsm.parameters", "{", <<"pop">>, "body") }
    \cup Name("chsm", <<"CPARAMS">>, "chsm.parameters")

state_description ==
    { Read("body", "state", <<"CCLASS">>, "state.name"),
      Read("state.named", ";", None, "body"),
      Read("state.named", "{", None, "transitions") }
    \cup Name("state", None, "state.named")

\* Clusters and sets; the token after the children is look-ahead.
parent_description ==
    { Read("body", "cluster", <<"CCLASS">>, "parent.name"),
      Read("parent.named", "(", None, "child"),
      Read("child", "identifier", None, "children"),
      Read("children", ",", None, "child"),
      Read("children", ")", None, "parent.history"),
      Read("parent.history", "{", None, "transitions"),
      Read("parent.history", "is", None, "parent.body"),
      Read("parent.body", "{", None, "body") }
    \cup Name("parent", None, "parent.named")

\* Mutant: the state is popped where there are no parameters only.
event_description_unbalanced ==
    { Read("body", "event", None, "event.base"),
      Read("event.base", "<", None, "event.basename"),
      Read("event.basename", "identifier", None, "event.base.close"),
      Read("event.base.close", ">", None, "event.identifier"),
      Read("event.base", "identifier", <<"CPARAMS">>, "event.parameters"),
      Read("event.identifier", "identifier", <<"CPARAMS">>, "event.parameters"),
      Read("event.parameters", "(", None, "event.list"),
      Read("event.list", ")", None, "event.precondition"),
      Read("event.parameters", ";", <<"pop">>, "body"),
      Read("event.precondition", ";", None, "body") }

event_description ==
    { Read("body", "event", None, "event.base"),
      Read("event.base", "<", None, "event.basename"),
      Read("event.basename", "identifier", None, "event.base.close"),
      Read("event.base.close", ">", None, "event.identifier"),
      Read("event.base", "identifier", <<"CPARAMS">>, "event.parameters"),
      Read("event.identifier", "identifier", <<"CPARAMS">>, "event.parameters"),
      Read("event.parameters", "(", None, "event.list"),
      Read("event.list", ")", None, "event.precondition"),
      Read("event.expression", "]", None, "event.end"),
      Read("event.code", "%}", None, "event.end"),
      Read("event.end", ";", <<"pop">>, "body") }
    \cup UNION { { Read(at, "[", None, "event.expression"),
                   Read(at, "%{", None, "event.code"),
                   Read(at, ";", <<"pop">>, "body") } :
                 at \in {"event.parameters", "event.precondition"} }

\* The name of an event, at the head of a transition or after a comma; the names
\* of states in enter(s) and exit(s) are in plain brackets.
event_name ==
    UNION { { Read(at, "identifier", <<"CEXPR">>, "condition"),
              Read(at, "enter", None, "enex") } : at \in {"transitions", "event"} }
    \cup { Read("enex", "(", None, "enex.state"),
           Read("enex.state", "dots", None, "enex.dotted"),
           Read("enex.state", "::", None, "enex.dotted"),
           Read("enex.state", "identifier", None, "enex.named"),
           Read("enex.dotted", "identifier", None, "enex.named"),
           Read("enex.named", "substates", None, "enex.close"),
           Read("enex.named", ")", <<"CEXPR">>, "condition"),
           Read("enex.close", ")", <<"CEXPR">>, "condition") }

\* event_condition_spec: the token that shows that there is no condition has been
\* read when the state is popped.
event_condition_spec ==
    { Read("condition", "[", None, "condition.expression"),
      Read("condition.expression", "]", <<"pop">>, "conditioned"),
      Read("condition", ",", <<"pop">>, "event"),
      Read("conditioned", ",", None, "event") }

\* transition_type and transition_target.
transition_type ==
    { Read("condition", "->", <<"pop", "CEXPR">>, "target"),
      Read("conditioned", "->", <<"CEXPR">>, "target"),
      Read("condition", "%{", <<"pop">>, "action"),
      Read("conditioned", "%{", None, "action"),
      Read("target", "[", None, "target.expression"),
      Read("target.expression", "]", <<"pop">>, "target.end"),
      Read("target.end", "%{", None, "action"),
      Read("target.end", ";", None, "transitions"),
      Read("target", "dots", None, "target.dotted"),
      Read("target", "::", None, "target.dotted"),
      Read("target", "identifier", None, "target.named"),
      Read("target.dotted", "identifier", None, "target.named"),
      Read("target.named", "substates", None, "target.qualified") }
    \cup UNION { { Read(at, ";", <<"pop">>, "transitions"),
                   Read(at, "%{", <<"pop">>, "action") } :
                 at \in {"target.named", "target.qualified"} }

\* Blocks of code, and the braces around transitions.
action_block ==
    { Read("action", "%}", None, "transition.end"),
      Read("transition.end", ";", None, "transitions"),
      Read("transitions", "upon", None, "upon"),
      Read("upon", "enter", None, "upon.kind"),
      Read("upon.kind", "%{", None, "upon.code"),
      Read("upon.code", "%}", None, "transitions"),
      Read("transitions", "}", None, "body"),
      Read("body", "}", None, "body") }

\* The errors that the grammar recovers from without giving up what it has begun:
\* no name, no target, no `;' after an event.
recoveries ==
    IF ~Errors THEN {} ELSE
    { Read("state.name", ";", <<"pop">>, "body"),
      Read("target", ";", <<"pop">>, "transitions") }
    \cup { Read(at, "state", <<"pop", "CCLASS">>, "state.name") :
           at \in {"event.parameters", "event.precondition", "event.end"} }

Grammar ==
    chsm_description \cup state_description \cup parent_description \cup
    event_description \cup event_name \cup event_condition_spec \cup
    transition_type \cup action_block \cup recoveries

-----------------------------------------------------------------------------
Init ==
    /\ pc = "begin" /\ outer = "begin"
    /\ lexer = [state |-> "NORMAL", stack |-> <<>>]
    /\ cond = "MAIN" /\ sconds = <<>>
    /\ just_did_ident = 0

Shift(step) ==
    /\ pc = step.at
    /\ yylex(step.token)
    /\ lexer' = Perform(lexer, step.does)
    /\ pc' = step.next
    /\ UNCHANGED outer

\* `$', in an expression or a block of code.
Embed ==
    /\ cond \in {"CEXPR", "CCODE"}
    /\ yylex("$")
    /\ outer' = pc /\ pc' = "embedded"
    /\ UNCHANGED lexer

\* ... enter(s), exit(s), in(s), param(e,x) or {s}.
Embedded ==
    /\ pc = "embedded"
    /\ \E token \in {"enter", "(", "{", "identifier", "substates", ",", ")", "}"} :
          /\ yylex(token)
          /\ pc' = IF token \in {")", "}"} THEN outer ELSE "embedded"
    /\ UNCHANGED <<outer, lexer>>

Next == (\E step \in Grammar : Shift(step)) \/ Embed \/ Embedded

Spec == Init /\ [][Next]_vars

-----------------------------------------------------------------------------
(***************************************************************************)
(* Properties                                                               *)
(***************************************************************************)
\* The start condition a place in the grammar is written for.
MeantAt ==
    CASE pc \in {"chsm.class", "state.class", "parent.class"} -> "ANGLE"
      [] pc \in {"chsm.list", "event.list"} -> "PAREN"
      [] pc \in {"condition.expression", "target.expression", "event.expression"} -> "CEXPR"
      [] pc \in {"action", "upon.code", "event.code"} -> "CCODE"
      [] pc = "embedded" -> "EMBED"
      [] OTHER -> "MAIN"

\* The tokenization states pushed are popped on every way through the grammar,
\* also when it recovers from an error: between descriptions and between
\* transitions none is left, no pop finds the stack empty, and stack_ is never
\* written beyond its end.
StatesBalanced ==
    /\ pc \in {"begin", "body", "transitions", "event"} =>
          lexer = [state |-> "NORMAL", stack |-> <<>>]
    /\ Len(lexer.stack) =< StackSize
    /\ sconds = IF pc = "embedded" THEN <<Last(sconds)>> ELSE <<>>

\* Whatever token may continue the description, by the grammar, the analyzer has it: no
\* legal description is refused because of the state the analyzer happens to be in.  The
\* one exception is "::", for which lexer.lpp has no rule.
Scannable ==
    \A step \in Grammar :
        pc = step.at /\ step.token # "::" =>
            /\ Returns(step.token)
            /\ step.token \in {"substates", "dots"} => step.token = DottedAs

\* Wherever the parser is, and although it reads one token ahead: a bracket was
\* taken as the grammar means it, text of the other language being collected and
\* lists of CHSM names being read; and ".x" after a name is a part of the name,
\* while before a name it is what leads out of the scope; and whatever may come next
\* can be scanned.
ScannedAsMeant ==
    /\ cond = MeantAt
    /\ pc \in {"target", "enex.state"} => DottedAs = "dots"
    /\ pc \in {"target.named", "enex.named"} => DottedAs = "substates"
    /\ Scannable
=============================================================================
