----------------------------- MODULE Generator -----------------------------
(***************************************************************************)
(* What both code generators (cpp_generator.cpp, java_generator.cpp) emit  *)
(* for an accepted description: the tables the run-time libraries are      *)
(* constructed with, and the parameter lists of events.  The operators     *)
(* read the state that the parser leaves behind (emitted = TRUE).          *)
(***************************************************************************)
EXTENDS Parser, Mangle

NO_ID == -1           \* ends the tables of C++; "no state" in a transition

UserEvents == {e \in ToSet(events_) : info(table, e, 0).type = "USER_EVENT"}

AllStates == {RootName} \cup ToSet(states_)

Parents == {s \in AllStates : info(table, s, 0).type \in PARENT}

\* The identifiers of a state's name as sequences of characters.
Spelled(s) == [i \in DOMAIN s |-> Spelling[s[i]]]

\* state_base_name()
BaseName(s) == s[Len(s)]

-----------------------------------------------------------------------------
(* The tables. *)

serial_counting_root(sy) == IF sy = NIL THEN NO_ID ELSE info(table, sy, 0).serial

\* serial(): the index of a state in state_[], which does not hold the root.
serial(sy) == IF sy = NIL THEN NO_ID ELSE info(table, sy, 0).serial - 1

\* state_[]: in the order in which the states were described.
state_vector == [i \in 0 .. Len(states_) - 1 |-> states_[i + 1]]

\* children_[] of a parent.
children_vector(p) ==
    [i \in DOMAIN info(table, p, 0).children |-> serial(info(table, p, 0).children[i])]

\* An element of transition_[].
transition_row(i) ==
    LET t == transitions_[i + 1]
    IN  [condition |-> t.condition, from |-> serial(t.from), to |-> serial(t.to),
         target |-> t.target, action |-> t.action]

TransitionIds == 0 .. Len(transitions_) - 1

\* The ids of an event's transitions.
transitions_vector(e) == info(table, e, 0).tids

\* The enter or exit event that a state's constructor is given: it is named after the state.
enter_event(s) == IF info(table, s, 0).hasEnter THEN <<"enter">> \o s ELSE NIL
exit_event(s)  == IF info(table, s, 0).hasExit THEN <<"exit">> \o s ELSE NIL

-----------------------------------------------------------------------------
(* Parameters of events. *)

Base(e) == info(table, e, 0).base

OwnParams(e) == [i \in 1 .. info(table, e, 0).params |-> <<e, i>>]

\* emit_param_list_aux(): those of the base event come first.
ParamListTable[e \in UserEvents] ==
    (IF Base(e) = NIL THEN <<>> ELSE ParamListTable[Base(e)]) \o OwnParams(e)

param_list(e) == ParamListTable[e]

AnyParametersTable[e \in UserEvents] ==
    OwnParams(e) # <<>> \/ (Base(e) # NIL /\ AnyParametersTable[Base(e)])

has_own_parameters(e) == OwnParams(e) # <<>>

has_any_parameters(e) == AnyParametersTable[e]

base_has_any_parameters(e) == Base(e) # NIL /\ has_any_parameters(Base(e))

\* The most derived class whose param_block overrides precondition() calls the one of its
\* base class first: the events whose preconditions are evaluated for a param_block of e.
PreconditionTable[e \in UserEvents] ==
    (IF Base(e) = NIL THEN {} ELSE PreconditionTable[Base(e)])
        \cup (IF info(table, e, 0).precondition = "none" THEN {} ELSE {e})

-----------------------------------------------------------------------------
(* Functions with user code. *)

\* The functions of a kind that were numbered while the description was parsed.
NumberedUpTo(kind, count) == {Numbered(kind, n) : n \in 1 .. count}

\* The functions that the tables and the constructors of states point to.
Referenced ==
    LET of(kind, field(_)) == {Numbered(kind, field(transitions_[i])) :
                                  i \in {j \in DOMAIN transitions_ : field(transitions_[j]) > 0}}
        cond(t)   == t.condition
        target(t) == t.target
        act(t)    == t.action
        enex(kind) == {<<kind, s>> : s \in {s \in AllStates :
                          IF kind = "enter" THEN info(table, s, 0).enterAction
                                            ELSE info(table, s, 0).exitAction}}
    IN  of("condition", cond) \cup of("target", target) \cup of("action", act)
          \cup enex("enter") \cup enex("exit")

-----------------------------------------------------------------------------
(* Classes and constructors. *)

EnclosesAlways(s) == TRUE

\* The root's children are members of the machine, not of the root's class.
Encloses(s) == s # RootName

\* Where the declarers put the states, as they recurse through children_: the members of the
\* machine's class have the path <<>>.
DeclarationTable[n \in 0 .. Len(states_)] ==
    IF n = 0
    THEN {[state |-> s, in |-> <<>>] :
             s \in {RootName} \cup (IF Encloses(RootName) THEN {}
                                     ELSE ToSet(info(table, RootName, 0).children))}
    ELSE UNION {{[state |-> c, in |-> Append(d.in, BaseName(d.state))] :
                    c \in ToSet(info(table, d.state, 0).children)} :
                d \in {d \in DeclarationTable[n - 1] :
                          d.state \in Parents /\ Encloses(d.state)}}

Declarations == UNION {DeclarationTable[n] : n \in 0 .. Len(states_)}

\* What the initializers write for a state in the constructor of the class "in": how it refers
\* to the machine, and to its parent.
Initializer(s, in, emitting_constructor_) ==
    [state  |-> s, in |-> in,
     chsm   |-> IF emitting_constructor_ THEN "*this" ELSE "chsm_machine_",
     parent |-> CASE info(table, s, 0).parent = NIL -> "nullptr"
                  [] info(table, s, 0).parent = RootName -> "&root"
                  [] OTHER -> "this"]

\* The constructors of the parents' classes, and the one of the machine, which leaves
\* emitting_constructor_ set; "order" is the order in which they are emitted.
Initializers(order) ==
    LET after(c) == \E i, j \in DOMAIN order : i < j /\ order[i] = "chsm" /\ order[j] = c
        below(p, flag) == {Initializer(c, p, flag) : c \in ToSet(info(table, p, 0).children)}
    IN  UNION {below(p, after("parents")) : p \in {p \in Parents : Encloses(p)}}
          \cup {Initializer(RootName, <<>>, TRUE)}
          \cup {[i EXCEPT !.in = <<>>] : i \in below(RootName, TRUE)}

\* The objects that such references denote in the constructor of a class: NIL is none.
MachineOf(i) == IF i.chsm = "chsm_machine_" \/ i.in = <<>> THEN "machine" ELSE i.in
ParentOf(i)  == CASE i.parent = "nullptr" -> NIL
                  [] i.parent = "&root" -> RootName
                  [] OTHER -> i.in

\* Every state is constructed once, and is given its machine and its parent.
Wired(initializers) ==
    /\ \A s \in AllStates : Cardinality({i \in initializers : i.state = s}) = 1
    /\ \A i \in initializers :
          MachineOf(i) = "machine" /\ ParentOf(i) = info(table, i.state, 0).parent

-----------------------------------------------------------------------------
(* Properties. *)

\* The enter and exit events that are broadcast by states are those the transitions use: every
\* one is a member of the machine, and none that a transition waits for is left out
\* (backpatch_enter_exit_events).
EnexEventsBroadcast ==
    emitted =>
        ({enter_event(s) : s \in AllStates} \cup {exit_event(s) : s \in AllStates}) \ {NIL}
            = {e \in ToSet(events_) : info(table, e, 0).type = "ENEX_EVENT"}

\* The name of a state is recovered from its mangled name, so that no two states share the
\* name of an event or an action, whatever digits follow the lengths (mangle, demangle).
RoundTrip == emitted => \A s \in AllStates : demangle(mangle(Spelled(s))) = Spelled(s)

\* The class and the object of a base event precede those that are derived from it: C++ needs
\* the complete class, and the constructor of a Java machine passes the object on.
BasesFirst ==
    emitted => \A i \in DOMAIN events_ :
                  LET b == Base(events_[i])
                  IN  b # NIL => \E j \in 1 .. i - 1 : events_[j] = b

\* The tables that are emitted decode to the machine that was described, and are what the
\* run-time library assumes of them: state_[] is indexed by the ids that children_[] and
\* transition_[] use, children_[] and the parents of states are inverse to each other,
\* children are in the order of their descriptions, and no id is mistaken for the end of
\* its table; and so do the events of states, the order of events and mangled names.
TablesDecode ==
    /\ emitted =>
        /\ \A s \in ToSet(states_) : /\ serial(s) \in DOMAIN state_vector
                                     /\ state_vector[serial(s)] = s
        /\ \A p \in Parents :
              LET ids_ == children_vector(p)
              IN  /\ \A i, j \in DOMAIN ids_ : i < j => ids_[i] < ids_[j]
                  /\ {state_vector[ids_[i]] : i \in DOMAIN ids_}
                        = {s \in ToSet(states_) : info(table, s, 0).parent = p}
        /\ \A i \in TransitionIds :
              /\ state_vector[transition_row(i).from] = transitions_[i + 1].from
              /\ transitions_[i + 1].to \notin {NIL, RootName}
                    => state_vector[transition_row(i).to] = transitions_[i + 1].to
        /\ \A e \in ToSet(events_) : ToSet(transitions_vector(e)) \subseteq TransitionIds
        /\ \A i \in TransitionIds :
              \E e \in ToSet(events_) : i \in ToSet(transitions_vector(e))
    /\ EnexEventsBroadcast /\ BasesFirst /\ RoundTrip
=============================================================================
