----------------------------- MODULE ChsmTables -----------------------------
(***************************************************************************)
(* The tables that the CHSM-to-C++ compiler emits for one machine and that *)
(* the run-time library is constructed with: the state hierarchy, the      *)
(* event hierarchy, the transitions and, for every block of user code, the *)
(* events it may broadcast.  Every module of the run-time library extends  *)
(* this one; a model (MC*.tla) gives the tables of one small machine.      *)
(***************************************************************************)
EXTENDS Integers, Sequences, FiniteSets

CONSTANTS
    NIL,            \* nullptr
    States,         \* every state of the machine, the root cluster included
    Root,           \* machine::root_
    Parent,         \* state::parent_
    Kind,           \* the class of a state: "state", "cluster" or "set"
    Children,       \* parent::children_, in declaration order
    History,        \* the clusters declared with history (cluster::history_)
    Events,         \* user events and the enter(s)/exit(s) events
    Base,           \* event::base_event_
    EnterEvent,     \* state::enter_event_
    ExitEvent,      \* state::exit_event_
    Parameterised,  \* events whose operator() builds a parameter block
    Preconditioned, \* events whose parameter block has a precondition
    Transitions,    \* transition identifiers
    TransitionList, \* event::transitions_, in the order the compiler emits
    From,           \* transition::from_id_
    To,             \* transition::to_id_; NIL: none
    TargetFn,       \* results of transition::target_; {}: no such function
    Conditional,    \* transitions with a transition::condition_
    ReadsParams,    \* ... whose condition reads its event's parameters
    EnterEmits,     \* events the enter action of a state may broadcast
    ExitEmits,      \* events the exit action of a state may broadcast
    ActionEmits,    \* events the action of a transition may broadcast
    MaxEmits        \* bound: broadcasts of one run of a block of user code

StateOrNil == States \cup {NIL}
EventOrNil == Events \cup {NIL}

ASSUME HierarchyAssumption ==
    /\ NIL \notin States /\ NIL \notin Events
    /\ Root \in States
    /\ Parent \in [States -> StateOrNil]
    /\ \A s \in States : Parent[s] = NIL <=> s = Root
    /\ Kind \in [States -> {"state", "cluster", "set"}]
    /\ Kind[Root] = "cluster"
    /\ Children \in [States -> Seq(States)]
    /\ \A s \in States : \A i \in 1 .. Len(Children[s]) : Parent[Children[s][i]] = s
    /\ History \subseteq States

ASSUME EventAssumption ==
    /\ IsFiniteSet(Events)
    /\ Base \in [Events -> EventOrNil]
    /\ EnterEvent \in [States -> EventOrNil]
    /\ ExitEvent \in [States -> EventOrNil]
    /\ Parameterised \subseteq Events
    /\ Preconditioned \subseteq Parameterised

ASSUME TransitionAssumption ==
    /\ NIL \notin Transitions
    /\ TransitionList \in [Events -> Seq(Transitions)]
    /\ From \in [Transitions -> States]
    /\ To \in [Transitions -> StateOrNil]
    /\ TargetFn \in [Transitions -> SUBSET StateOrNil]
    /\ Conditional \subseteq Transitions
    /\ ReadsParams \subseteq Conditional

ASSUME UserCodeAssumption ==
    /\ EnterEmits \in [States -> SUBSET Events]
    /\ ExitEmits \in [States -> SUBSET Events]
    /\ ActionEmits \in [Transitions -> SUBSET Events]
    /\ MaxEmits \in Nat

-----------------------------------------------------------------------------
(* The state hierarchy.                                                    *)

\* Every proper ancestor of a state, found by following parent_of().
AncestorTable[s \in States] ==
    IF Parent[s] = NIL THEN {} ELSE {Parent[s]} \cup AncestorTable[Parent[s]]

Ancestors(s) == AncestorTable[s]

Descendants(s) == {d \in States : s \in Ancestors(d)}

IsCluster(s) == Kind[s] = "cluster"

IsSet(s) == Kind[s] = "set"

\* transition::is_legal(): the nearest common ancestor of two states (a state
\* being its own) is not a set.
IsLegal(si, sj) ==
    LET common == (Ancestors(si) \cup {si}) \cap (Ancestors(sj) \cup {sj})
    IN  \A a \in common : (Descendants(a) \cap common = {}) => ~ IsSet(a)

-----------------------------------------------------------------------------
(* The event hierarchy.                                                    *)

\* Sets of events that hold with an event its base event.
BaseClosed == {S \in SUBSET Events : \A b \in S : Base[b] \in S \cup {NIL}}

\* An event with all its base events, found by following base_event().
ChainTable == [e \in Events |-> {b \in Events : \A S \in BaseClosed : e \in S => b \in S}]

Chain(e) == ChainTable[e]

\* Mutant: the parameters are not passed on.
NoParamBlock(e) == NIL

\* The parameter block operator() broadcasts an event with: the one static
\* buffer the compiler reserves for that event, or none.
ParamBlock(e) == IF e \in Parameterised THEN e ELSE NIL

-----------------------------------------------------------------------------
(* Transitions.                                                            *)

\* transition::is_internal(): neither a hard-coded target nor a function.
IsInternal(tr) == To[tr] = NIL /\ TargetFn[tr] = {}

\* The states (or null) that evaluating the target may yield.
PossibleTargets(tr) == IF TargetFn[tr] # {} THEN TargetFn[tr] ELSE {To[tr]}

=============================================================================
