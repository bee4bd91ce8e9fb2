---------------------------- MODULE CppGenerator ----------------------------
(***************************************************************************)
(* The C++ that is generated (cpp_generator.cpp): the classes and members  *)
(* that cpp_declarer declares, what cpp_definer defines, and what the one  *)
(* calls or points to of the other.                                        *)
(***************************************************************************)
EXTENDS Generator

\* cpp_declarer::emit_actions()
cpp_emit_actions(s) ==
    (IF info(table, s, 0).enterAction THEN {<<"enter", s>>} ELSE {})
        \cup (IF info(table, s, 0).exitAction THEN {<<"exit", s>>} ELSE {})

\* The functions with user code that cpp_declarer declares.
cpp_declared ==
    NumberedUpTo("condition", ids.condition)
        \cup NumberedUpTo("target", ids.target)
        \cup NumberedUpTo("action", ids.action)
        \cup UNION {cpp_emit_actions(s) : s \in AllStates}
        \cup {<<"precondition", e>> : e \in {e \in UserEvents :
                                             info(table, e, 0).precondition # "none"}}
        \cup {<<"function", e>> : e \in {e \in UserEvents :
                                         info(table, e, 0).precondition = "func"}}

\* Their bodies were written to user_code_ while the description was parsed, and are copied
\* to the definition file.
cpp_defined == user_code

\* param_block of an event: what its constructor takes, and what it passes to its base's.
cpp_param_block(e) ==
    [formal |-> IF has_any_parameters(e) THEN param_list(e) ELSE <<>>,
     base   |-> IF has_any_parameters(e) /\ base_has_any_parameters(e)
                THEN param_list(Base(e)) ELSE <<>>,
     data   |-> OwnParams(e)]

\* The library's event::param_block takes no parameters.
cpp_base_formal(e) == IF Base(e) = NIL THEN <<>> ELSE cpp_param_block(Base(e)).formal

\* Whether an event's class has an operator() of its own.
cpp_has_call(e) == has_any_parameters(e) \/ info(table, e, 0).precondition # "none"

\* The class whose operator() a call of an event runs: its own, or the nearest inherited one;
\* NIL is event::operator(), which broadcasts without a param_block.
CppCallTable[e \in UserEvents] ==
    IF cpp_has_call(e) THEN e ELSE IF Base(e) = NIL THEN NIL ELSE CppCallTable[Base(e)]

\* What operator() of that class takes and passes to the constructor of param_block.
cpp_call(e) ==
    LET c == CppCallTable[e]
    IN  [formal |-> IF c = NIL THEN <<>> ELSE param_list(c),
         block  |-> c]

\* cpp_definer::emit(): emit_states() precedes emit_chsm().
cpp_emission == <<"parents", "chsm">>

\* conv_buf: the class in which cpp_definer defines the constructor of a parent, from the name
\* of its symbol.
cpp_class_path(p) == IF p = RootName THEN <<>> ELSE Front(p)

-----------------------------------------------------------------------------
(* Properties. *)

\* Every function with user code is defined once, exactly those that are defined are declared,
\* and the tables and constructors point to none that is not: whatever mixture of
\* conditions, targets, actions and preconditions there is, the generated program links.
CppLinks ==
    emitted => /\ \A i, j \in DOMAIN cpp_defined : i # j => cpp_defined[i] # cpp_defined[j]
               /\ cpp_declared = ToSet(cpp_defined)
               /\ Referenced \subseteq cpp_declared

\* Along a chain of derived events the arguments that are passed are those that are taken, and
\* a call of an event takes the parameters of the event and all its base events.
CppArguments ==
    emitted =>
        \A e \in UserEvents :
            /\ cpp_param_block(e).base = cpp_base_formal(e)
            /\ cpp_param_block(e).base \o cpp_param_block(e).data = param_list(e)
            /\ cpp_call(e).formal = param_list(e)
            /\ cpp_call(e).block # NIL => cpp_param_block(cpp_call(e).block).formal = param_list(e)

\* Calling an event evaluates its own precondition and those of all its base events.
CppPreconditions ==
    emitted =>
        \A e \in UserEvents :
            PreconditionTable[e] = IF cpp_call(e).block = NIL THEN {}
                                   ELSE PreconditionTable[cpp_call(e).block]

\* The dotted name of every state leads through the classes and members that were declared
\* for it: state_[i] = &x.y.z and state_x::state_y::children_ name what was declared.
CppNames ==
    emitted => Declarations = {[state |-> s, in |-> cpp_class_path(s)] : s \in AllStates}

\* The constructors give every state its machine and its parent.
CppWired == emitted => Wired(Initializers(cpp_emission))

\* The C++ classes and functions of states fit together.
CppStates == CppLinks /\ CppNames /\ CppWired
=============================================================================
