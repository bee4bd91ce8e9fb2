---------------------------- MODULE MCLangParser ----------------------------
(***************************************************************************)
(* The texts on which the scanner of the embedded languages is run.        *)
(***************************************************************************)
EXTENDS LangParser

Text(language, chars, inParens, length) ==
    [language |-> language, chars |-> chars, inParens |-> inParens, length |-> length]

\* Parameter lists: two parameters, or one that is a pointer to a function.
ListsCpp == Text("c++", {"a", ",", "(", ")", "*"}, TRUE, 9)

\* ... with type parameters.
ListsJava == Text("java", {"a", ",", "(", ")", "<", ">"}, TRUE, 9)

\* Numbers, brackets and comments in any order.
Comments ==
    Text("java", {"a", "0", "7", "b", "newline", ",", "(", ")", "*", "/", "[", "]"}, FALSE, 5)

MCTexts == {ListsCpp, ListsJava, Comments}
=============================================================================
