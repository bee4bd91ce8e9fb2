--------------------------- MODULE JavaGenerator ---------------------------
(***************************************************************************)
(* The Java that is generated (java_generator.cpp): thunks for user code,  *)
(* classes of states and events, and the order in which the constructor of *)
(* the machine fills the final fields.                                     *)
(***************************************************************************)
EXTENDS Generator

\* The classes Thunk_x, one for every function with user code but the preconditions.
java_thunks_defined == SelectSeq(user_code, LAMBDA f : f[1] \notin {"precondition", "function"})

java_enex_thunks ==
    {<<"enter", s>> : s \in {s \in AllStates : info(table, s, 0).enterAction}}
        \cup {<<"exit", s>> : s \in {s \in AllStates : info(table, s, 0).exitAction}}

\* The objects of such classes that java_declarer and java_initializer create.
java_thunks_created ==
    NumberedUpTo("condition", ids.condition)
        \cup NumberedUpTo("target", ids.target)
        \cup NumberedUpTo("action", ids.action)
        \cup java_enex_thunks

\* ParamBlock of an event: what its constructor takes, and what it passes to super().
java_param_block(e) ==
    [formal |-> param_list(e),
     super  |-> IF has_any_parameters(e) /\ base_has_any_parameters(e)
                THEN param_list(Base(e)) ELSE <<>>]

java_super_formal(e) == IF Base(e) = NIL THEN <<>> ELSE java_param_block(Base(e)).formal

\* Whether an event's class has a broadcast() with the event's parameters.
java_has_broadcast(e) == has_any_parameters(e) \/ info(table, e, 0).precondition # "none"

\* The machine's method for an event: the block that it makes Event.broadcast() be called with.
\* Without parameters it passes null.
java_shorthand(e) == IF has_any_parameters(e) THEN e ELSE NIL

\* A state, and the states that its constructor makes after it.
StateFieldTable[s \in AllStates] ==
    <<s>> \o (IF Encloses(s) /\ s \in Parents
              THEN FlattenSeq([i \in DOMAIN info(table, s, 0).children |->
                                  StateFieldTable[info(table, s, 0).children[i]]])
              ELSE <<>>)

StateFields ==
    StateFieldTable[RootName]
        \o FlattenSeq([i \in DOMAIN info(table, RootName, 0).children |->
                          StateFieldTable[info(table, RootName, 0).children[i]]])

java_fields_states_first == StateFields \o events_

\* The final fields in the order in which the constructor of the machine assigns them.
java_fields == events_ \o StateFields

\* The fields that are read in order to construct the object of a field.
java_reads(f) ==
    (IF f \in ToSet(events_) THEN {Base(f)}
     ELSE {enter_event(f), exit_event(f)}
            \cup (IF info(table, f, 0).parent = RootName THEN {RootName} ELSE {})) \ {NIL}

\* java_declarer::visit( chsm_info ) visits the states before the constructor.
java_emission == <<"parents", "chsm">>

-----------------------------------------------------------------------------
(* Properties. *)

\* Every thunk that is created has exactly one class, and transitions use only those.
JavaLinks ==
    emitted =>
        /\ \A i, j \in DOMAIN java_thunks_defined :
              i # j => java_thunks_defined[i] # java_thunks_defined[j]
        /\ java_thunks_created = ToSet(java_thunks_defined)
        /\ Referenced \subseteq java_thunks_created

\* Along a chain of derived events, super() is given what the base class takes.
JavaArguments ==
    emitted =>
        \A e \in UserEvents :
            /\ java_param_block(e).super = java_super_formal(e)
            /\ java_param_block(e).super \o OwnParams(e) = java_param_block(e).formal

\* The constructor of the machine assigns every final field once and reads none before.
JavaFieldsAssigned ==
    emitted =>
        LET fields == java_fields
        IN  /\ ToSet(fields) = ToSet(events_) \cup AllStates
            /\ \A i, j \in DOMAIN fields : i # j => fields[i] # fields[j]
            /\ \A i \in DOMAIN fields :
                  java_reads(fields[i]) \subseteq {fields[j] : j \in 1 .. i - 1}

\* The constructors give every state its machine and its parent.
JavaWired == emitted => Wired(Initializers(java_emission))

\* The Java classes and objects of states fit together.
JavaStates == JavaLinks /\ JavaFieldsAssigned /\ JavaWired

\* The machine's method for an event calls a broadcast() that the event's class has, which
\* evaluates the event's own precondition and those of all its base events, if any of them has
\* a parameter; the precondition of an event without parameters is a method of a block that is
\* not made.
JavaPreconditions ==
    emitted =>
        \A e \in UserEvents :
            /\ java_shorthand(e) # NIL => java_has_broadcast(java_shorthand(e))
            /\ PreconditionTable[e] # {} /\ has_any_parameters(e) =>
                  /\ java_shorthand(e) # NIL
                  /\ PreconditionTable[java_shorthand(e)] = PreconditionTable[e]
=============================================================================
