----------------------------- MODULE MCCompiler -----------------------------
(***************************************************************************)
(* The machine descriptions on which the compiler is run: kinds of texts,  *)
(* each of which uses a part of the language.                              *)
(***************************************************************************)
EXTENDS CppGenerator, JavaGenerator, ParserInvariants

\* Characters below 2 are digits.  No two identifiers begin alike.
MCSpelling ==
    [m |-> <<3>>, root |-> <<4, 4, 4>>, enter |-> <<5>>, exit |-> <<6>>, p |-> <<7>>,
     q |-> <<8>>, s |-> <<9, 1, 0>>, a |-> <<10>>, b |-> <<11>>, c |-> <<12>>, e |-> <<13>>]

Ref(dots, id, substates) == [dots |-> dots, id |-> id, substates |-> substates]

Plain == [idents |-> {"p", "s"}, events |-> {}, histories |-> {"none"},
          parents |-> {"CLUSTER"}, preconditions |-> {"none"}, refs |-> {},
          mistakes |-> {}, descriptions |-> 3, children |-> 2, transitions |-> 0,
          blocks |-> 0, perTransition |-> 1]

\* Nested parents that hide names, with histories, described wrongly too.
Scoping == [Plain EXCEPT !.histories = {"none", "deep"}, !.mistakes = {"semantic"}]

\* Syntax errors, user code, and names that events, states and the machine have in common.
Erroneous == [Plain EXCEPT !.idents = {"m", "s"}, !.events = {"s"},
                           !.histories = {"none", "deep"},
                           !.preconditions = {"none", "expr"},
                           !.refs = {Ref(0, "m", <<>>), Ref(0, "s", <<>>)},
                           !.mistakes = {"semantic", "syntax"}, !.descriptions = 2,
                           !.children = 1, !.transitions = 1, !.blocks = 1]

\* References to states, forward and backward, with and without dots.
Referring == [Plain EXCEPT !.events = {"e"}, !.parents = {"SET"}, !.transitions = 1,
                           !.refs = {Ref(0, "s", <<>>), Ref(0, "p", <<"s">>),
                                     Ref(2, "p", <<"s">>)}]

\* Transitions in sets.
InSets == [Plain EXCEPT !.idents = {"p", "q", "s"}, !.parents = {"SET"},
                        !.refs = {Ref(0, "s", <<>>)}, !.transitions = 1]

\* Several transitions on an event, and several events for a transition.
Ordering == [Plain EXCEPT !.events = {"e"}, !.refs = {Ref(0, "s", <<>>)}, !.descriptions = 2,
                          !.children = 1, !.transitions = 2, !.perTransition = 2]

\* User code of every kind.
Coding == [Plain EXCEPT !.events = {"e"}, !.refs = {Ref(0, "s", <<>>), Ref(2, "p", <<"s">>)},
                        !.descriptions = 2, !.children = 1, !.transitions = 1, !.blocks = 2]

\* Chains of derived events.
Deriving == [Plain EXCEPT !.idents = {}, !.events = {"a", "b", "c"},
                          !.preconditions = {"none", "expr", "func"}, !.blocks = 2]

MCTexts == {Scoping, Erroneous, Referring, InSets, Ordering, Coding, Deriving}

\* Children of a set whose names begin alike.
MCAlike         == {[InSets EXCEPT !.idents = {"p1", "p2", "s"}, !.events = {"e"},
                                   !.refs = {Ref(0, "p2", <<>>)}]}
MCAlikeSpelling == MCSpelling @@ [p1 |-> <<7, 1>>, p2 |-> <<7, 0>>]

\* In both languages a broadcast passes on all parameters of the event and its base events,
\* and evaluates all their preconditions.
EventCalls == CppArguments /\ CppPreconditions /\ JavaArguments /\ JavaPreconditions
=============================================================================
