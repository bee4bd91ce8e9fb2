-------------------------- MODULE ParserInvariants --------------------------
(***************************************************************************)
(* What is on the semantic stack at each place in the grammar, and what    *)
(* the symbol table has by then: the invariants from which the properties  *)
(* of Parser and Generator follow for descriptions of any size.            *)
(***************************************************************************)
EXTENDS Generator

NamePtr(item) == item.tag = "ptr" /\ item.val \in Names

\* The places at which the state being described is above the saved parents.
InDescribed == at \in {"is", "actions", "transitions", "event", "type", "action"}

\* Above it lie n events with their conditions.
EventsOnStack(n) ==
    \A i \in 1 .. n : NamePtr(stack[scope + 2 * i]) /\ stack[scope + 2 * i + 1].tag = "int"

\* ... and how many there are ...
CountedEvents(n) ==
    Len(stack) >= scope + 2 + 2 * n /\ EventsOnStack(n) /\ stack[scope + 2 + 2 * n] = Num(n)

\* What the words of the stack are.
StackShape ==
    /\ at = "chsm" => scope = 0 /\ stack = <<>> /\ sy_parent = NIL /\ desc.type = "NONE"
    /\ at \in {"end", "done"} => scope = 1 /\ stack = <<>>
    /\ at \in {"chsm", "end", "done"} => ~ desc.block
    /\ Inside =>
          /\ Len(stack) >= scope
          /\ \A k \in 1 .. scope : stack[k].tag = "ptr" /\ (stack[k].val = NIL <=> k = 1)
          /\ sy_parent = NIL <=> scope = 0
    /\ at = "description" => Len(stack) = scope /\ scope > 0
    /\ at = "children" =>
          /\ Len(stack) = scope + 2 /\ scope > 0
          /\ stack[scope + 1].tag = "ptr" /\ NamePtr(stack[scope + 2])
          /\ desc.type \in PARENT
    /\ InDescribed =>
          /\ Len(stack) > scope /\ NamePtr(stack[scope + 1])
          /\ IF scope = 0 THEN desc.type = "ROOT" ELSE desc.type \in STATES
    /\ at \in {"is", "actions", "transitions"} => Len(stack) = scope + 1
    /\ at = "is" => desc.type # "STATE"
    /\ at = "event" => scope > 0 /\ Len(stack) = scope + 2 /\ stack[scope + 2] = Num(0)
    /\ at = "type" \/ (at = "action" /\ ~ written.targets) =>
          scope > 0 /\ \E n \in 0 .. Len(stack) : Len(stack) = scope + 2 + 2 * n /\ CountedEvents(n)
    /\ at = "action" /\ written.targets =>
          scope > 0 /\ \E n \in 0 .. Len(stack) :
              /\ Len(stack) = scope + 4 + 2 * n /\ CountedEvents(n)
              /\ stack[scope + 3 + 2 * n].tag = "ptr" /\ stack[scope + 4 + 2 * n].tag = "int"
    /\ ~ written.targets => at \in {"action", "undefined"} /\ errors

\* The invariant behind ScopesNested and StackBalanced.
ParserInv == ScopesNested /\ StackShape
-----------------------------------------------------------------------------
(* The names of the parents whose bodies are open, and the infos of symbols. *)

\* The symbol of the state being described.
Current == stack[scope + 1].val

\* The name of a state in its parent.
NameIn(p, id) == IF p = RootName THEN <<id>> ELSE Append(p, id)

\* Every open parent, and the state being described, lies in the one around it.
Lineage ==
    /\ Inside /\ scope > 0 => OpenParents[1] = RootName
    /\ Inside => \A k \in 2 .. scope :
                    \E id \in Identifiers : OpenParents[k] = NameIn(OpenParents[k - 1], id)
    /\ InDescribed => IF scope = 0 THEN Current = RootName
                      ELSE \E id \in Identifiers : Current = NameIn(sy_parent, id)
    /\ at = "children" => \E id \in Identifiers : Header = NameIn(sy_parent, id)

InfoSet(t, n) == ToSet(Infos(t, n))

\* What a symbol is other than a child in an open scope.
Own(t, n) == {si \in InfoSet(t, n) : si.type # "CHILD"}

HasState(t, n) == \E si \in Own(t, n) : si.type \in STATES

HasEvent(t, n) == \E si \in Own(t, n) : si.type \in EVENT

\* What its name tells of a symbol.
NameFits(n, si) ==
    /\ si.type \in {"CHILD", "USER_EVENT"} => Len(n) = 1
    /\ si.type = "USER_EVENT" => si.state = NIL
    /\ si.type = "CHSM" => n = <<Machine>>
    /\ si.type \in STATES \cup {"GLOBAL"} => n \in Seq(Identifiers)
    /\ si.type = "ENEX_EVENT" => /\ si.kind \in {"enter", "exit"}
                                 /\ si.state \in Seq(Identifiers)
                                 /\ n = <<si.kind>> \o si.state

\* A symbol is one thing only, and its name fits.
InfosSound(t) ==
    \A n \in DOMAIN t : /\ \A a, b \in Own(t, n) : a.type = b.type
                        /\ \A si \in InfoSet(t, n) : NameFits(n, si)

\* The ids of an event's transitions are in their order.
IdsSound(t, count) ==
    \A n \in DOMAIN t : \A si \in InfoSet(t, n) :
        si.type \in EVENT =>
            /\ \A i, j \in DOMAIN si.tids : i < j => si.tids[i] < si.tids[j]
            /\ \A i \in DOMAIN si.tids : si.tids[i] < count

-----------------------------------------------------------------------------
(* What holds as long as the description is accepted.                      *)

\* No error was reported, nor will be when the list of children ends: the parent that is
\* declared is not what was defined before, nor one of its own children.
Fine ==
    /\ ~ errors /\ at \notin {"chsm", "undefined"}
    /\ at = "children" => Infos(table, Header) = <<>>

\* The states are listed in the order of their descriptions, each once and after those it
\* lies in; what is a state is listed; and what is listed is a state, but for the parent
\* whose children are being listed.
StatesListed ==
    /\ \A i, j \in DOMAIN states_ : states_[i] = states_[j] => i = j
    /\ \A i \in DOMAIN states_ :
          /\ states_[i] # RootName
          /\ Above(states_[i]) \subseteq {RootName} \cup {states_[j] : j \in 1 .. i - 1}
    /\ at = "children" => states_ # <<>> /\ Header = Last(states_)
    /\ InDescribed /\ scope > 0 => states_ # <<>> /\ Current = Last(states_)
    /\ Inside => \A k \in 1 .. scope : OpenParents[k] \in AllStates /\ (k > 1 => OpenParents[k] # RootName)
    /\ \A n \in AllStates : HasState(table, n) \/ (at = "children" /\ n = Header)
    /\ \A n \in DOMAIN table : HasState(table, n) => n \in AllStates

\* The events are listed, each after the one it is derived from.
EventsListed ==
    /\ \A n \in DOMAIN table : HasEvent(table, n) => n \in ToSet(events_)
    /\ \A i \in DOMAIN events_ :
          /\ HasEvent(table, events_[i])
          /\ \A si \in Own(table, events_[i]) :
                si.type \in EVENT /\ si.base # NIL => \E j \in 1 .. i - 1 : events_[j] = si.base

\* Transitions are added as their states are described.
TransitionsOrdered ==
    /\ \A i \in DOMAIN transitions_ : transitions_[i].from \in ToSet(states_)
    /\ \A i, j \in DOMAIN transitions_ :
          i < j => transitions_[j].from \notin Above(transitions_[i].from)

\* The parents around what comes next.
Path ==
    IF InDescribed THEN Above(Current) \cup {Current}
    ELSE IF sy_parent = NIL THEN {} ELSE Above(sy_parent) \cup {sy_parent}

\* The outermost parent with a deep history on a path.
Outermost(outer, path, deep) ==
    IF outer = NIL THEN path \cap deep = {}
    ELSE /\ outer \in path \cap deep
         /\ \A a \in path \cap deep : a = outer \/ outer \in Above(a)

\* A cluster has its own history, or inherits one.
HistoriesListed(t, states, deep, history) ==
    \A n \in states : \A si \in Own(t, n) :
        si.type = "CLUSTER" => (si.history <=> n \in history \/ Above(n) \cap deep # {})

\* The outermost parent with a deep history is remembered, and histories are inherited.
HistoriesDeep ==
    /\ Outermost(sy_outer_deep_, Path, written.deep)
    /\ written.deep \cup written.history
          \subseteq AllStates \ (IF at = "children" THEN {Header} ELSE {})
    /\ HistoriesListed(table, ToSet(states_), written.deep, written.history)
    /\ InDescribed /\ desc.type = "STATE" => Current \notin written.deep

\* References have no leading periods.
PlainText == \A r \in budget.refs : r.dots = 0

\* What a reference leads to: a state, or what is expected to become one.
LeadsToState(t, n) == \E si \in Own(t, n) : si.type \in STATES \cup {"GLOBAL"}

\* What becomes a state when its children are listed.
Announced == IF at = "children" THEN {Header} ELSE {}

Known(t, announced, n) == LeadsToState(t, n) \/ n \in announced

\* The targets of transitions, and the states of enter and exit events, are known.
TargetsKnown ==
    /\ \A i \in DOMAIN transitions_ :
          transitions_[i].to # NIL => Known(table, Announced, transitions_[i].to)
    /\ at = "action" =>
          LET item == stack[Len(stack) - 1]
          IN  item.tag = "ptr" /\ (item.val # NIL => Known(table, Announced, item.val))
    /\ \A n \in DOMAIN table : \A si \in Own(table, n) :
          si.type = "ENEX_EVENT" => Known(table, Announced, si.state)

\* Code is generated for what is fine, at the end.
EmittedFine == emitted => at = "done" /\ ~ errors

\* What is described is a state, and no child in an open scope hides that.
CurrentDefined ==
    ~ errors /\ InDescribed =>
        HasState(table, Current) /\ InfoSet(table, Current) = Own(table, Current)

\* Nothing is known when the machine is named.
Untouched ==
    at = "chsm" =>
        /\ ~ errors /\ table = <<>>
        /\ states_ = <<>> /\ events_ = <<>> /\ transitions_ = <<>>
        /\ sy_outer_deep_ = NIL /\ written.deep = {} /\ written.history = {}

\* Nothing but definitions is left when code is generated (check_states_defined).
EmittedDefined ==
    emitted => \A n \in DOMAIN table : \A si \in Own(table, n) : si.type # "GLOBAL"

\* The invariant behind NoSilentCrash ...
TableInv ==
    /\ Lineage /\ Untouched /\ CurrentDefined /\ NoSilentCrash /\ EmittedFine
    /\ InfosSound(table) /\ IdsSound(table, Len(transitions_))

\* ... behind ParentTransitionsFirst and BasesFirst ...
ListsInv == Fine => StatesListed /\ EventsListed /\ TransitionsOrdered

\* ... behind DeepHistory ...
HistoryInv == Fine => HistoriesDeep

\* ... and behind PointersValid; with EmittedDefined, also behind TargetsAreStates.
PointersInv == PlainText => (Fine => TargetsKnown) /\ SymbolsAlive

CompilerInv ==
    ParserInv /\ TableInv /\ ListsInv /\ HistoryInv /\ PointersInv /\ EmittedDefined
=============================================================================
