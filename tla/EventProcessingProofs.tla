------------------------ MODULE EventProcessingProofs ------------------------
(***************************************************************************)
(* For any machine: actions see the parameters of the event they belong    *)
(* to, and an event leaves the queue only when no transition is marked by  *)
(* it any more.  Both follow from ProcessingInv, whose proof goes through  *)
(* the moves of the frames of broadcast() and of algorithm().  An event    *)
(* takes at most one of the external transitions from a state, and a       *)
(* transition that is performed has a target: both need that no target     *)
(* function returns null; the first also that clients keep to what the     *)
(* manual allows, since enter() does not take the mutex.                   *)
(***************************************************************************)
EXTENDS EventProcessing, ChsmRuntimeProofs

-----------------------------------------------------------------------------
(* The base events of an event, and the transitions on them.               *)

\* An event is its own base event ...
LEMMA ChainSelf ==
    ASSUME NEW e \in Events
    PROVE  e \in Chain(e) /\ Chain(e) \in SUBSET Events
  BY DEF Chain, ChainTable

\* ... so is the base event of one ...
LEMMA ChainBase ==
    ASSUME NEW e \in Events, NEW b \in Chain(e), Base[b] # NIL
    PROVE  Base[b] \in Chain(e)
<1>1. b \in Events /\ Base[b] \in Events
  BY ChainSelf, BaseTyped
<1>2. ASSUME NEW S \in BaseClosed, e \in S PROVE Base[b] \in S
  <2>1. b \in S
    BY <1>2 DEF Chain, ChainTable
  <2> QED
    BY <2>1 DEF BaseClosed
<1> QED
  BY <1>1, <1>2 DEF Chain, ChainTable

\* ... and there are no others.
LEMMA ChainUnfolds ==
    ASSUME NEW e \in Events
    PROVE  Chain(e) \subseteq {e} \cup (IF Base[e] = NIL THEN {} ELSE Chain(Base[e]))
<1> DEFINE S == {e} \cup (IF Base[e] = NIL THEN {} ELSE Chain(Base[e]))
<1>1. Base[e] # NIL => Base[e] \in Events /\ Base[e] \in Chain(Base[e]) /\ Chain(Base[e]) \in SUBSET Events
  BY BaseTyped, ChainSelf
<1>2. S \in SUBSET Events
  BY <1>1
<1>3. ASSUME NEW b \in S PROVE Base[b] \in S \cup {NIL}
  <2>1. CASE b = e
    BY <2>1, <1>1
  <2>2. CASE b # e
    <3>1. Base[e] # NIL /\ b \in Chain(Base[e])
      BY <2>2
    <3>2. Base[b] # NIL => Base[b] \in Chain(Base[e])
      BY <3>1, <1>1, ChainBase
    <3> QED
      BY <3>1, <3>2
  <2> QED
    BY <2>1, <2>2
<1>4. S \in BaseClosed /\ e \in S
  BY <1>2, <1>3 DEF BaseClosed
<1> HIDE DEF S
<1>5. \A b \in Chain(e) : b \in S
  BY <1>4 DEF Chain, ChainTable
<1> QED
  BY <1>5 DEF S

\* What an iterator visits: everything on the event at the beginning ...
LEMMA RemainingAtBegin ==
    ASSUME NEW e \in Events, NEW f, f.list = e, f.i = 1
    PROVE  TransitionsOn(e) \subseteq Remaining(f)
<1> SUFFICES ASSUME NEW b \in Chain(e), NEW i \in 1 .. Len(TransitionList[b])
             PROVE  TransitionList[b][i] \in Remaining(f)
  BY DEF TransitionsOn
<1>1. CASE b = e
  BY <1>1 DEF Remaining
<1>2. CASE b # e
  <2>1. Base[e] # NIL /\ b \in Chain(Base[e])
    BY <1>2, ChainUnfolds
  <2>2. TransitionList[b][i] \in TransitionsOn(Base[e])
    BY <2>1 DEF TransitionsOn
  <2> QED
    BY <2>1, <2>2 DEF Remaining
<1> QED
  BY <1>1, <1>2

\* ... all but the current one when it proceeds ...
LEMMA RemainingAfter ==
    ASSUME NEW f, NEW g, f.i \in Nat, g.list = f.list, g.i = f.i + 1, f.list \in Events
    PROVE  Remaining(f) \subseteq {CurTransition(f)} \cup Remaining(g)
<1> DEFINE n == Len(TransitionList[f.list])
<1>1. n \in Nat
  BY TransitionAssumption
<1>2. \A i \in f.i .. n : i = f.i \/ i \in g.i .. n
  BY <1>1
<1> QED
  BY <1>2 DEF Remaining, CurTransition

\* ... the same when it goes on with the base event ...
LEMMA RemainingAtBase ==
    ASSUME NEW f, NEW g, f.i \in Nat, f.list \in Events, ~ InList(f), Base[f.list] \in Events,
           g.list = Base[f.list], g.i = 1
    PROVE  Remaining(f) \subseteq Remaining(g)
<1>1. f.i .. Len(TransitionList[f.list]) = {}
  BY TransitionAssumption DEF InList
<1>2. Remaining(f) \subseteq TransitionsOn(Base[f.list])
  BY <1>1 DEF Remaining
<1> QED
  BY <1>2, RemainingAtBegin

\* ... and nothing at the end.
LEMMA RemainingAtEnd ==
    ASSUME NEW f, f.i \in Nat, f.list \in Events, AtEnd(f)
    PROVE  Remaining(f) = {}
<1>1. f.i .. Len(TransitionList[f.list]) = {}
  BY TransitionAssumption DEF InList, AtEnd
<1> QED
  BY <1>1 DEF Remaining, AtEnd

-----------------------------------------------------------------------------
(* The invariant for one frame of algorithm().                             *)

Processing == IteratesChain /\ ParamsKept /\ ParamsShared /\ MarkedOnChain /\ MarksEntered

\* It points at its event in the queue ...
FrameIterates(f) ==
    /\ f.pc \in ExitPCs \cup EnterPCs => f.q <= f.n /\ f.e = event_queue_[f.q] /\ f.list \in Chain(f.e)
    /\ f.pc = "phase1" => f.q <= f.n + 1

\* ... has yet to exit the "from" states of those that come ...
FrameKeepsParams(f) ==
    \A k \in 1 .. Len(event_queue_) : k >= NextExit(f) =>
        param_block_[event_queue_[k]] = ParamBlock(event_queue_[k])

FrameSharesParams(f) == f.pc \in ExitPCs => \A b \in Chain(f.e) : param_block_[b] = ParamBlock(f.e)

\* ... and has entered the "to" states of those that are past.
FrameEntered(f) ==
    /\ f.pc \in EnterPCs \cup {"phase2"} =>
         \A k \in 1 .. f.n : k < f.q => MarksNothing(event_queue_[k])
    /\ f.pc = "phase3" => \A k \in 1 .. f.n : MarksNothing(event_queue_[k])
    /\ f.pc \in EnterPCs => \A tr \in Transitions : taken_[tr] = f.e => tr \in Remaining(f)

FrameProcessing(f) ==
    FrameIterates(f) /\ FrameKeepsParams(f) /\ FrameSharesParams(f) /\ FrameEntered(f)

\* With that one frame and none of broadcast() this is the invariant ...
LEMMA OneFrame ==
    ASSUME NEW f, Processing, AlgorithmFrames = {f}
    PROVE  FrameProcessing(f)
<1>1. FrameIterates(f)
  BY DEF Processing, IteratesChain, FrameIterates
<1>2. FrameKeepsParams(f)
  BY DEF Processing, ParamsKept, FrameKeepsParams
<1>3. FrameSharesParams(f)
  BY DEF Processing, ParamsShared, FrameSharesParams
<1>4. FrameEntered(f)
  BY DEF Processing, MarksEntered, FrameEntered
<1> QED
  BY <1>1, <1>2, <1>3, <1>4 DEF FrameProcessing

\* Marks of transitions are only removed.
MarksShrink == \A tr \in Transitions : taken_'[tr] \in {taken_[tr], NIL}

\* ... also after a step.
LEMMA OneFrameNext ==
    ASSUME Processing, NEW g, BroadcastFrames' = {}, AlgorithmFrames' = {g}, MarksShrink,
           FrameProcessing(g)'
    PROVE  Processing'
<1>1. IteratesChain'
  BY DEF FrameProcessing, FrameIterates, IteratesChain
<1>2. ParamsKept'
  BY DEF FrameProcessing, FrameKeepsParams, ParamsKept
<1>3. ParamsShared'
  BY DEF FrameProcessing, FrameSharesParams, ParamsShared
<1>4. MarkedOnChain'
  BY DEF Processing, MarkedOnChain, MarksShrink
<1>5. MarksEntered'
  BY DEF FrameProcessing, FrameEntered, MarksEntered
<1> QED
  BY <1>1, <1>2, <1>3, <1>4, <1>5 DEF Processing

-----------------------------------------------------------------------------
(* The moves of the frame of algorithm() keep the invariant.               *)

\* What the steps of a micro-step start from.
LEMMA MoveFacts ==
    ASSUME RuntimeInv, Processing, NEW t, NEW f, NEW g, StepMove(t, f, g)
    PROVE  /\ FrameProcessing(f)
           /\ f \in Frame /\ f.q \in Nat /\ f.q > 0 /\ f.n \in Nat /\ f.i \in Nat
           /\ g \in Frame /\ g.q \in Nat /\ g.n \in Nat
           /\ f.pc \in IteratorPCs => f.list \in Events /\ f.i > 0
           /\ f.n <= Len(event_queue_) /\ Len(event_queue_) \in Nat
           /\ event_queue_ \in Seq(Events)
           /\ \A k \in 1 .. Len(event_queue_) : event_queue_[k] \in Events
           /\ BroadcastFrames' = {} /\ AlgorithmFrames' = {g}
<1>1. FrameProcessing(f)
  BY OneFrame DEF StepMove
<1>2. event_queue_ \in Seq(Events)
  BY DEF RuntimeInv, TypeOK
<1> QED
  BY <1>1, <1>2 DEF StepMove, Frame, FrameTyped

\* Within an event.
LEMMA WithinEvent ==
    ASSUME RuntimeInv, Processing, NEW t, NEW f, NEW g, StepMove(t, f, g), SameEvent(f, g),
           \/ f.pc \in ExitPCs /\ g.pc \in ExitPCs
           \/ f.pc \in EnterPCs /\ g.pc \in EnterPCs,
           g.list \in Chain(f.e),
           UNCHANGED <<event_queue_, param_block_>>, MarksShrink,
           f.pc \in EnterPCs =>
               \A tr \in Transitions : taken_'[tr] = f.e /\ tr \in Remaining(f) => tr \in Remaining(g)
    PROVE  Processing'
<1>1. /\ FrameIterates(f) /\ FrameKeepsParams(f) /\ FrameSharesParams(f) /\ FrameEntered(f)
      /\ f.q \in Nat /\ f.q > 0 /\ f.n \in Nat /\ f.n <= Len(event_queue_) /\ Len(event_queue_) \in Nat
      /\ \A k \in 1 .. Len(event_queue_) : event_queue_[k] \in Events
      /\ BroadcastFrames' = {} /\ AlgorithmFrames' = {g}
  BY MoveFacts DEF FrameProcessing
<1>2. g.e = f.e /\ g.q = f.q /\ g.n = f.n
  BY DEF SameEvent
<1>3. f.e \in Events /\ f.q \in 1 .. Len(event_queue_) /\ f.e = event_queue_[f.q] /\ f.q <= f.n
  BY <1>1 DEF FrameIterates
<1>4. FrameIterates(g)'
  BY <1>2, <1>3 DEF FrameIterates, ExitPCs, EnterPCs
<1>5. NextExit(g) = NextExit(f)
  BY <1>2 DEF NextExit, ExitPCs, EnterPCs
<1>6. FrameKeepsParams(g)'
  BY <1>1, <1>5 DEF FrameKeepsParams
<1>7. FrameSharesParams(g)'
  BY <1>1, <1>2 DEF FrameSharesParams, ExitPCs, EnterPCs
<1>8. FrameEntered(g)'
  <2>1. ASSUME NEW e \in Events, MarksNothing(e) PROVE MarksNothing(e)'
    BY <2>1, HierarchyAssumption DEF MarksNothing, MarksShrink
  <2>2. ASSUME g.pc \in EnterPCs, NEW tr \in Transitions, taken_'[tr] = g.e
        PROVE  tr \in Remaining(g)
    <3>1. f.pc \in EnterPCs
      BY <2>2 DEF ExitPCs, EnterPCs
    <3>2. taken_[tr] = f.e
      BY <2>2, <1>2, <1>3, HierarchyAssumption DEF MarksShrink
    <3> QED
      BY <2>2, <3>1, <3>2, <1>1, <1>2 DEF FrameEntered
  <2>3. ASSUME g.pc \in EnterPCs \cup {"phase2"}, NEW k \in 1 .. g.n, k < g.q
        PROVE  MarksNothing(event_queue_[k])'
    <3>1. f.pc \in EnterPCs /\ k \in 1 .. f.n /\ k < f.q
      BY <2>3, <1>2 DEF ExitPCs, EnterPCs
    <3>2. MarksNothing(event_queue_[k]) /\ event_queue_[k] \in Events
      BY <3>1, <1>1 DEF FrameEntered
    <3> QED
      BY <3>2, HierarchyAssumption DEF MarksNothing, MarksShrink
  <2>4. g.pc # "phase3"
    BY DEF ExitPCs, EnterPCs
  <2> QED
    BY <2>2, <2>3, <2>4 DEF FrameEntered
<1> QED
  BY <1>1, <1>4, <1>6, <1>7, <1>8, OneFrameNext DEF FrameProcessing

\* From one event, or one phase, to the next, and the end of Phase III's loop.
LEMMA BetweenEvents ==
    ASSUME RuntimeInv, Processing, NEW t, NEW f, NEW g, StepMove(t, f, g), g.n = f.n,
           \/ f.pc = "phase1" /\ f.q > f.n /\ g.pc = "phase2" /\ g.q = 1
           \/ f.pc = "exit_from" /\ AtEnd(f) /\ g.pc = "phase1" /\ g.q = f.q + 1
           \/ f.pc = "enter_to" /\ AtEnd(f) /\ g.pc = "phase2" /\ g.q = f.q + 1
           \/ f.pc = "phase2" /\ f.q > f.n /\ g.pc = "phase3",
           UNCHANGED <<event_queue_, param_block_, taken_>>
    PROVE  Processing'
<1>1. /\ FrameIterates(f) /\ FrameKeepsParams(f) /\ FrameSharesParams(f) /\ FrameEntered(f)
      /\ f.q \in Nat /\ f.q > 0 /\ f.n \in Nat /\ f.i \in Nat /\ g.q \in Nat
      /\ f.pc \in IteratorPCs => f.list \in Events
      /\ f.n <= Len(event_queue_) /\ Len(event_queue_) \in Nat
      /\ \A k \in 1 .. Len(event_queue_) : event_queue_[k] \in Events
      /\ BroadcastFrames' = {} /\ AlgorithmFrames' = {g}
  BY MoveFacts DEF FrameProcessing
<1>2. g.pc \notin ExitPCs \cup EnterPCs /\ MarksShrink
  BY DEF ExitPCs, EnterPCs, MarksShrink
<1>3. FrameIterates(g)' /\ FrameSharesParams(g)'
  BY <1>1, <1>2 DEF FrameIterates, FrameSharesParams, ExitPCs
<1>4. \A k \in 1 .. Len(event_queue_) : k >= NextExit(g) => k >= NextExit(f)
  BY <1>1 DEF NextExit, ExitPCs, FrameIterates
<1>5. FrameKeepsParams(g)'
  BY <1>1, <1>4 DEF FrameKeepsParams
<1>6. ASSUME f.pc = "enter_to", AtEnd(f) PROVE MarksNothing(f.e) /\ f.e = event_queue_[f.q]
  <2>1. f.list \in Events
    BY <1>1, <1>6 DEF IteratorPCs
  <2>2. Remaining(f) = {}
    BY <1>1, <1>6, <2>1, RemainingAtEnd
  <2> QED
    BY <1>1, <1>6, <2>2 DEF FrameEntered, FrameIterates, EnterPCs, MarksNothing
<1>7. ASSUME g.pc \in {"phase2", "phase3"}, NEW k \in 1 .. g.n, g.pc = "phase2" => k < g.q
      PROVE  MarksNothing(event_queue_[k])
  <2>1. CASE f.pc = "enter_to"
    <3>1. k < f.q \/ k = f.q
      BY <2>1, <1>1, <1>7
    <3> QED
      BY <2>1, <3>1, <1>1, <1>6 DEF FrameEntered, EnterPCs
  <2>2. CASE f.pc = "phase2"
    BY <2>2, <1>1 DEF FrameEntered
  <2> QED
    BY <2>1, <2>2, <1>7
<1>8. FrameEntered(g)'
  <2>1. ASSUME NEW k, MarksNothing(event_queue_[k]) PROVE MarksNothing(event_queue_[k])'
    BY <2>1 DEF MarksNothing
  <2> QED
    BY <1>2, <1>7, <2>1 DEF FrameEntered
<1> QED
  BY <1>1, <1>2, <1>3, <1>5, <1>8, OneFrameNext DEF FrameProcessing

\* What the protocol says of the events in the queue: a base event of one is not
\* behind it.
LEMMA BaseNotBehind ==
    ASSUME P!ProtocolInv, NEW i \in 1 .. Len(event_queue_), event_queue_[i] \in Events
    PROVE  /\ \A j \in i + 1 .. Len(event_queue_) : event_queue_[j] \notin Chain(event_queue_[i])
           /\ Evaluating \notin Chain(event_queue_[i])
<1>1. ChainOf[event_queue_[i]] = Chain(event_queue_[i])
  BY DEF ChainOf
<1> QED
  BY <1>1 DEF P!ProtocolInv, P!DerivedLast

\* Phase I takes an event: its base events share its parameters.
LEMMA ExitTakesEvent ==
    ASSUME RuntimeInv, Processing, P!ProtocolInv, NEW t, NEW f, NEW g, StepMove(t, f, g),
           f.pc = "phase1", f.q \in 1 .. f.n, NEW e, e = event_queue_[f.q],
           g.q = f.q, g.n = f.n, g.e = e, g.list = e, g.pc = "exit_from",
           param_block_' = [b \in Events |-> IF b \in Chain(e) THEN param_block_[e] ELSE param_block_[b]],
           UNCHANGED <<event_queue_, taken_>>
    PROVE  Processing'
<1>1. /\ FrameIterates(f) /\ FrameKeepsParams(f) /\ FrameSharesParams(f) /\ FrameEntered(f)
      /\ f.q \in Nat /\ f.q > 0 /\ f.n \in Nat
      /\ f.n <= Len(event_queue_) /\ Len(event_queue_) \in Nat
      /\ \A k \in 1 .. Len(event_queue_) : event_queue_[k] \in Events
      /\ BroadcastFrames' = {} /\ AlgorithmFrames' = {g}
  BY MoveFacts DEF FrameProcessing
<1>2. f.q \in 1 .. Len(event_queue_) /\ e \in Events /\ MarksShrink
  BY <1>1 DEF MarksShrink
<1>3. e \in Chain(e) /\ Chain(e) \in SUBSET Events
  BY <1>2, ChainSelf
<1>4. NextExit(f) = f.q /\ NextExit(g) = f.q + 1
  BY DEF NextExit, ExitPCs
<1>5. FrameIterates(g)'
  BY <1>3, <1>1 DEF FrameIterates, ExitPCs, EnterPCs
<1>6. param_block_[e] = ParamBlock(e)
  BY <1>1, <1>2, <1>4 DEF FrameKeepsParams
<1>7. FrameSharesParams(g)'
  BY <1>3, <1>6 DEF FrameSharesParams
<1>8. FrameKeepsParams(g)'
  <2> SUFFICES ASSUME NEW k \in 1 .. Len(event_queue_), k >= f.q + 1
               PROVE  param_block_'[event_queue_[k]] = ParamBlock(event_queue_[k])
    BY <1>4 DEF FrameKeepsParams
  <2>1. k \in f.q + 1 .. Len(event_queue_) /\ k >= f.q
    BY <1>1
  <2>2. event_queue_[k] \notin Chain(e) /\ event_queue_[k] \in Events
    BY <2>1, <1>1, <1>2, BaseNotBehind
  <2>3. param_block_[event_queue_[k]] = ParamBlock(event_queue_[k])
    BY <2>1, <1>1, <1>4 DEF FrameKeepsParams
  <2> QED
    BY <2>2, <2>3
<1>9. FrameEntered(g)'
  BY DEF FrameEntered, EnterPCs
<1> QED
  BY <1>1, <1>2, <1>5, <1>7, <1>8, <1>9, OneFrameNext DEF FrameProcessing

\* Phase II takes an event: the iterator will visit whatever it marks.
LEMMA EnterTakesEvent ==
    ASSUME RuntimeInv, Processing, NEW t, NEW f, NEW g, StepMove(t, f, g),
           f.pc = "phase2", f.q \in 1 .. f.n, NEW e, e = event_queue_[f.q],
           g.q = f.q, g.n = f.n, g.e = e, g.list = e, g.i = 1, g.pc = "enter_to",
           UNCHANGED <<event_queue_, param_block_, taken_>>
    PROVE  Processing'
<1>1. /\ FrameIterates(f) /\ FrameKeepsParams(f) /\ FrameSharesParams(f) /\ FrameEntered(f)
      /\ f.q \in Nat /\ f.q > 0 /\ f.n \in Nat
      /\ f.n <= Len(event_queue_) /\ Len(event_queue_) \in Nat
      /\ \A k \in 1 .. Len(event_queue_) : event_queue_[k] \in Events
      /\ BroadcastFrames' = {} /\ AlgorithmFrames' = {g}
  BY MoveFacts DEF FrameProcessing
<1>2. f.q \in 1 .. Len(event_queue_) /\ e \in Events /\ MarksShrink
  BY <1>1 DEF MarksShrink
<1>3. e \in Chain(e) /\ TransitionsOn(e) \subseteq Remaining(g)
  BY <1>2, ChainSelf, RemainingAtBegin
<1>4. NextExit(f) = f.n + 1 /\ NextExit(g) = f.n + 1
  BY DEF NextExit, ExitPCs
<1>5. FrameIterates(g)' /\ FrameSharesParams(g)'
  BY <1>3, <1>1 DEF FrameIterates, FrameSharesParams, ExitPCs, EnterPCs
<1>6. FrameKeepsParams(g)'
  BY <1>1, <1>4 DEF FrameKeepsParams
<1>7. \A tr \in Transitions : taken_[tr] = e => tr \in Remaining(g)
  BY <1>2, <1>3, HierarchyAssumption DEF Processing, MarkedOnChain
<1>8. FrameEntered(g)'
  BY <1>1, <1>7 DEF FrameEntered, EnterPCs, MarksNothing
<1> QED
  BY <1>1, <1>2, <1>5, <1>6, <1>8, OneFrameNext DEF FrameProcessing

\* Phase III dequeues an event.
LEMMA DequeueEvent ==
    ASSUME RuntimeInv, Processing, NEW t, NEW f, NEW g, StepMove(t, f, g),
           f.pc = "phase3", f.n > 0, g.n = f.n - 1, g.pc = "phase3",
           event_queue_' = Tail(event_queue_), UNCHANGED <<param_block_, taken_>>
    PROVE  Processing'
<1>1. /\ FrameKeepsParams(f) /\ FrameEntered(f)
      /\ f.n \in Nat /\ f.n <= Len(event_queue_) /\ Len(event_queue_) \in Nat
      /\ event_queue_ \in Seq(Events)
      /\ BroadcastFrames' = {} /\ AlgorithmFrames' = {g}
  BY MoveFacts DEF FrameProcessing
<1>2. /\ Len(event_queue_') = Len(event_queue_) - 1
      /\ \A k \in 1 .. Len(event_queue_') : event_queue_'[k] = event_queue_[k + 1]
  BY <1>1
<1>3. NextExit(f) = f.n + 1 /\ NextExit(g) = f.n
  BY <1>1 DEF NextExit, ExitPCs
<1>4. FrameIterates(g)' /\ FrameSharesParams(g)' /\ MarksShrink
  BY DEF FrameIterates, FrameSharesParams, ExitPCs, EnterPCs, MarksShrink
<1>5. FrameKeepsParams(g)'
  <2> SUFFICES ASSUME NEW k \in 1 .. Len(event_queue_'), k >= f.n
               PROVE  param_block_[event_queue_'[k]] = ParamBlock(event_queue_'[k])
    BY <1>3 DEF FrameKeepsParams
  <2>1. k + 1 \in 1 .. Len(event_queue_) /\ k + 1 >= f.n + 1 /\ event_queue_'[k] = event_queue_[k + 1]
    BY <1>1, <1>2
  <2> QED
    BY <2>1, <1>1, <1>3 DEF FrameKeepsParams
<1>6. FrameEntered(g)'
  <2>1. ASSUME NEW k \in 1 .. g.n PROVE MarksNothing(event_queue_[k])'
    <3>1. k + 1 \in 1 .. f.n /\ event_queue_'[k] = event_queue_[k + 1]
      BY <1>1, <1>2
    <3>2. MarksNothing(event_queue_[k + 1])
      BY <3>1, <1>1 DEF FrameEntered
    <3> QED
      BY <3>1, <3>2 DEF MarksNothing
  <2> QED
    BY <2>1 DEF FrameEntered, EnterPCs
<1> QED
  BY <1>1, <1>4, <1>5, <1>6, OneFrameNext DEF FrameProcessing

\* Between micro-steps every queued event has its parameters.
LEMMA BetweenSteps ==
    ASSUME RuntimeInv, Processing, BroadcastFrames' = {},
           UNCHANGED <<event_queue_, param_block_, taken_>>,
           \/ AlgorithmFrames = {}
           \/ \E f : AlgorithmFrames = {f} /\ f.pc = "phase3" /\ f.n = 0
           \/ \E f : AlgorithmFrames = {f} /\ f.pc = "micro_step",
           \/ AlgorithmFrames' = {}
           \/ \E g : AlgorithmFrames' = {g} /\ g.pc = "micro_step"
           \/ \E g \in Frame : /\ AlgorithmFrames' = {g}
                               /\ g.pc = "phase1" /\ g.q = 1 /\ g.n = Len(event_queue_)
    PROVE  Processing'
<1>1. event_queue_ \in Seq(Events) /\ Len(event_queue_) \in Nat
  BY DEF RuntimeInv, TypeOK
<1>2. \A k \in 1 .. Len(event_queue_) : \A f \in AlgorithmFrames : k >= NextExit(f)
  BY <1>1 DEF NextExit, ExitPCs
<1>3. \A k \in 1 .. Len(event_queue_) : param_block_[event_queue_[k]] = ParamBlock(event_queue_[k])
  BY <1>2 DEF Processing, ParamsKept
<1>4. ParamsKept'
  BY <1>3 DEF ParamsKept
<1>5. \A g \in AlgorithmFrames' : g.pc \notin ExitPCs \cup EnterPCs \cup {"phase2", "phase3"}
  BY DEF ExitPCs, EnterPCs
<1>6. IteratesChain'
  BY <1>1, <1>5 DEF IteratesChain
<1>7. ParamsShared'
  BY <1>5 DEF ParamsShared
<1>8. MarkedOnChain'
  BY DEF Processing, MarkedOnChain
<1>9. MarksEntered'
  BY <1>5 DEF MarksEntered
<1> QED
  BY <1>4, <1>6, <1>7, <1>8, <1>9 DEF Processing

-----------------------------------------------------------------------------
(* The moves of the frame of broadcast() keep the invariant.               *)

\* A frame of algorithm() within a micro-step.
LEMMA AlgorithmFrameTyped ==
    ASSUME RuntimeInv, NEW f \in AlgorithmFrames, f.pc \in StepPCs
    PROVE  f.q \in Nat /\ f.q > 0 /\ f.n \in Nat /\ f.n <= Len(event_queue_)
<1>1. PICK t \in Threads : \E i \in 1 .. Len(stack[t]) : f = stack[t][i]
  BY DEF AlgorithmFrames, Frames
<1>2. PICK i \in 1 .. Len(stack[t]) : f = stack[t][i]
  BY <1>1
<1>3. f \in Frame
  BY <1>2 DEF RuntimeInv, TypeOK
<1>4. f.q > 0 /\ f.n <= Len(event_queue_)
  BY <1>2 DEF RuntimeInv, StackInv, FramesTyped, FrameTyped, StepWithinQueue
<1> QED
  BY <1>3, <1>4 DEF Frame

\* An event that is evaluated may mark the transitions it is on, since it is not
\* in the queue.
LEMMA WhileEvaluating ==
    ASSUME RuntimeInv, Processing, AlgorithmFrames' = AlgorithmFrames,
           UNCHANGED <<event_queue_, param_block_>>,
           NEW e, \A k \in 1 .. Len(event_queue_) : event_queue_[k] # e,
           \A tr \in Transitions : taken_'[tr] = taken_[tr] \/ (taken_'[tr] = e /\ tr \in TransitionsOn(e)),
           \A g \in BroadcastFrames' :
               /\ g.pc = "find_transition" => g.list \in Chain(g.e)
               /\ g.pc \in EvaluatingPCs => param_block_[g.e] = ParamBlock(g.e)
    PROVE  Processing'
<1>1. IteratesChain'
  BY DEF Processing, IteratesChain
<1>2. ParamsKept' /\ ParamsShared'
  BY DEF Processing, ParamsKept, ParamsShared
<1>3. MarkedOnChain'
  BY DEF Processing, MarkedOnChain
<1>4. MarksEntered'
  <2> SUFFICES ASSUME NEW f \in AlgorithmFrames
               PROVE  FrameEntered(f)'
    BY DEF MarksEntered, FrameEntered
  <2>1. FrameEntered(f) /\ FrameIterates(f)
    BY DEF Processing, MarksEntered, FrameEntered, IteratesChain, FrameIterates
  <2>2. f.pc \in StepPCs => f.q \in Nat /\ f.q > 0 /\ f.n \in Nat /\ f.n <= Len(event_queue_)
    BY AlgorithmFrameTyped
  <2>3. f.pc \in EnterPCs \cup {"phase2", "phase3"} => f.pc \in StepPCs
    BY DEF EnterPCs, StepPCs, AlgorithmPCs
  <2>4. Len(event_queue_) \in Nat
    BY DEF RuntimeInv, TypeOK
  <2>5. ASSUME NEW k \in 1 .. Len(event_queue_), MarksNothing(event_queue_[k])
        PROVE  MarksNothing(event_queue_[k])'
    BY <2>5 DEF MarksNothing
  <2>6. f.pc \in EnterPCs => f.e # e
    BY <2>1, <2>2, <2>3, <2>4 DEF FrameIterates
  <2>7. ASSUME f.pc \in EnterPCs, NEW tr \in Transitions, taken_'[tr] = f.e PROVE tr \in Remaining(f)
    BY <2>1, <2>6, <2>7 DEF FrameEntered
  <2>8. ASSUME f.pc \in EnterPCs \cup {"phase2", "phase3"}, NEW k \in 1 .. f.n PROVE k \in 1 .. Len(event_queue_)
    BY <2>2, <2>3, <2>4, <2>8
  <2> QED
    BY <2>1, <2>5, <2>7, <2>8 DEF FrameEntered
<1> QED
  BY <1>1, <1>2, <1>3, <1>4 DEF Processing

\* Without new marks.
LEMMA MarksStay ==
    ASSUME RuntimeInv, Processing, AlgorithmFrames' = AlgorithmFrames,
           UNCHANGED <<event_queue_, param_block_, taken_>>,
           BroadcastFrames' \subseteq BroadcastFrames
               \/ \A g \in BroadcastFrames' : g.pc \notin EvaluatingPCs
    PROVE  Processing'
<1>1. \A k \in 1 .. Len(event_queue_) : event_queue_[k] # NIL
  BY HierarchyAssumption DEF RuntimeInv, TypeOK
<1>2. \A g \in BroadcastFrames' :
         /\ g.pc = "find_transition" => g.list \in Chain(g.e)
         /\ g.pc \in EvaluatingPCs => param_block_[g.e] = ParamBlock(g.e)
  BY DEF Processing, IteratesChain, ParamsKept, EvaluatingPCs
<1> QED
  BY <1>1, <1>2, WhileEvaluating

\* The event that is evaluated is pending, but not in the queue.
LEMMA EvaluatedNotQueued ==
    ASSUME RuntimeInv, P!ProtocolInv, NEW f, BroadcastFrames = {f}, f.pc \in EvaluatingPCs
    PROVE  /\ Evaluating = f.e
           /\ \A k \in 1 .. Len(event_queue_) : event_queue_[k] # f.e
<1>1. Evaluating = f.e
  BY Mapping, EvaluatedValue
<1> QED
  BY <1>1 DEF P!ProtocolInv, P!PendingOnce, P!Queued

\* Finding transitions.
LEMMA FindKeeps ==
    ASSUME RuntimeInv, BroadcastOnTop, Processing, P!ProtocolInv, NEW t \in Threads, FindStep(t)
    PROVE  Processing'
<1>1. PICK g : FindMove(t, Top(t), g)
  BY FindMoves
<1>2. PICK f : f = Top(t)
  OBVIOUS
<1>3. /\ f.pc \in EvaluatingPCs /\ f.e \in Events /\ f \in Frame
      /\ g.pc = "find_transition" /\ g.e = f.e
      /\ f.pc = "precondition" => g.list = f.e
      /\ f.pc = "find_transition" => f.list \in Events /\ (g.list = f.list \/ (g.list = Base[f.list] /\ g.list \in Events))
      /\ BroadcastFrames = {f} /\ BroadcastFrames' = {g} /\ AlgorithmFrames' = AlgorithmFrames
  BY <1>1, <1>2 DEF FindMove
<1>4. UNCHANGED <<event_queue_, param_block_>>
  BY DEF FindStep, PreconditionTrue, FindSkip, FindInternal, FindAborted, FindExternal, Bump, queueVars
<1>5. f.pc = "find_transition" => f.list \in Chain(f.e)
  BY <1>3 DEF Processing, IteratesChain
<1>6. g.list \in Chain(g.e)
  <2>1. CASE f.pc = "precondition"
    BY <2>1, <1>3, ChainSelf
  <2>2. CASE f.pc = "find_transition"
    BY <2>2, <1>3, <1>5, ChainBase, HierarchyAssumption
  <2> QED
    BY <2>1, <2>2, <1>3 DEF EvaluatingPCs
<1>7. param_block_[g.e] = ParamBlock(g.e)
  BY <1>3 DEF Processing, ParamsKept
<1>8. \A tr \in Transitions : taken_'[tr] = taken_[tr] \/ (taken_'[tr] = f.e /\ tr \in TransitionsOn(f.e))
  <2>1. CASE PreconditionTrue(t) \/ FindSkip(t) \/ Bump(t)
    <3>1. taken_' = taken_
      BY <2>1 DEF PreconditionTrue, FindSkip, Bump, markVars
    <3> QED
      BY <3>1
  <2>2. CASE FindInternal(t) \/ FindAborted(t) \/ FindExternal(t)
    <3>1. At(t, "find_transition") /\ InList(f) /\ MarkTaken(t, CurTransition(f))
      BY <2>2, <1>2 DEF FindInternal, FindAborted, FindExternal, AtTransition
    <3>2. f.pc = "find_transition" /\ f.list \in Events /\ f.i > 0 /\ f.i \in Nat
      BY <3>1, <1>2, TopTyped DEF FrameTyped, IteratorPCs, Frame
    <3>3. f.i \in 1 .. Len(TransitionList[f.list]) /\ CurTransition(f) \in TransitionsOn(f.e)
      <4>1. f.i \in 1 .. Len(TransitionList[f.list])
        BY <3>1, <3>2, TransitionAssumption DEF InList
      <4> QED
        BY <4>1, <3>2, <1>5 DEF CurTransition, TransitionsOn
    <3>4. taken_ \in [Transitions -> EventOrNil]
      BY DEF RuntimeInv, TypeOK
    <3>5. taken_' = [taken_ EXCEPT ![CurTransition(f)] = IF taken_[CurTransition(f)] = NIL THEN f.e
                                                         ELSE taken_[CurTransition(f)]]
      BY <3>1, <1>2 DEF MarkTaken
    <3> QED
      BY <3>3, <3>4, <3>5
  <2> QED
    BY <2>1, <2>2 DEF FindStep
<1>9. \A k \in 1 .. Len(event_queue_) : event_queue_[k] # f.e
  BY <1>3, EvaluatedNotQueued
<1> QED
  BY <1>3, <1>4, <1>6, <1>7, <1>8, <1>9, WhileEvaluating

\* An event that is broadcast stores its parameters; no event that is pending
\* shares them, since the event would be in progress.
LEMMA BroadcastKeeps ==
    ASSUME RuntimeInv, BroadcastOnTop, Processing, P!ProtocolInv, NEW t \in Threads, Broadcast(t)
    PROVE  Processing'
<1> DEFINE g == EventFrame("precondition", Top(t).e)
<1>1. PICK f : f = Top(t)
  OBVIOUS
<1>2. At(t, "broadcast") /\ f.pc = "broadcast" /\ f.e \in Events /\ Goto(t, g)
  BY <1>1, TopTyped DEF Broadcast, FrameTyped, EventPCs
<1>3. PICK h : h = EventFrame("precondition", f.e)
  OBVIOUS
<1>4. h \in Frame /\ h.pc = "precondition" /\ h.e = f.e
  BY <1>2, <1>3 DEF EventFrame, F0, Frame, PCs, StateOrNil, EventOrNil
<1>5. Goto(t, h)
  BY <1>1, <1>2, <1>3
<1> HIDE DEF g
<1>6. BroadcastFrames' = {h} /\ AlgorithmFrames' = AlgorithmFrames
  BY <1>2, <1>4, <1>5, BroadcastFrameMoves DEF BroadcastPCs
<1>7. /\ in_progress[f.e] = 0 /\ param_block_' = [param_block_ EXCEPT ![f.e] = ParamBlock(f.e)]
      /\ UNCHANGED <<event_queue_, taken_>> /\ param_block_ \in [Events -> EventOrNil]
      /\ event_queue_ \in Seq(Events) /\ Len(event_queue_) \in Nat
  BY <1>1 DEF Broadcast, markVars, RuntimeInv, TypeOK
<1>8. ASSUME NEW k \in 1 .. Len(event_queue_) PROVE f.e \notin Chain(event_queue_[k])
  <2>1. event_queue_[k] \in Events /\ event_queue_[k] \in P!Pending
    BY <1>7 DEF P!Pending, P!Queued
  <2>2. P!TypeOK /\ P!CountsPending
    BY DEF P!ProtocolInv
  <2>3. \A b \in ChainOf[event_queue_[k]] : in_progress[b] > 0
    BY <2>1, <2>2, ProtocolAssumed, P!PendingCounted
  <2>4. ChainOf[event_queue_[k]] = Chain(event_queue_[k])
    BY <2>1 DEF ChainOf
  <2>5. SUFFICES ASSUME f.e \in Chain(event_queue_[k]) PROVE FALSE
    OBVIOUS
  <2>6. in_progress[f.e] > 0
    BY <2>3, <2>4, <2>5
  <2> QED
    BY <2>6, <1>7
<1>9. ASSUME NEW k \in 1 .. Len(event_queue_), NEW b \in Chain(event_queue_[k])
      PROVE  param_block_'[b] = param_block_[b]
  <2>1. b \in Events
    BY <1>7, ChainSelf
  <2> QED
    BY <2>1, <1>7, <1>8, <1>9
<1>10. IteratesChain'
  BY <1>4, <1>6, <1>7 DEF Processing, IteratesChain
<1>11. ParamsKept'
  <2>1. \A k \in 1 .. Len(event_queue_) : param_block_'[event_queue_[k]] = param_block_[event_queue_[k]]
    BY <1>7, <1>9, ChainSelf
  <2>2. param_block_'[h.e] = ParamBlock(h.e)
    BY <1>2, <1>4, <1>7
  <2> QED
    BY <2>1, <2>2, <1>6, <1>7 DEF Processing, ParamsKept
<1>12. ParamsShared'
  <2> SUFFICES ASSUME NEW x \in AlgorithmFrames, x.pc \in ExitPCs, NEW b \in Chain(x.e)
               PROVE  param_block_'[b] = ParamBlock(x.e)
    BY <1>6 DEF ParamsShared
  <2>1. x.pc \in StepPCs
    BY DEF ExitPCs, StepPCs, AlgorithmPCs
  <2>2. x.q \in 1 .. Len(event_queue_) /\ x.e = event_queue_[x.q]
    BY <2>1, <1>7, AlgorithmFrameTyped DEF Processing, IteratesChain
  <2> QED
    BY <2>2, <1>9 DEF Processing, ParamsShared
<1>13. MarkedOnChain' /\ MarksEntered'
  BY <1>6, <1>7 DEF Processing, MarkedOnChain, MarksEntered, MarksNothing
<1> QED
  BY <1>10, <1>11, <1>12, <1>13 DEF Processing

\* The event is queued with its parameters.
LEMMA AcceptKeeps ==
    ASSUME RuntimeInv, BroadcastOnTop, Processing, P!ProtocolInv, NEW t \in Threads, FoundTransition(t)
    PROVE  Processing'
<1>1. PICK f : f = Top(t)
  OBVIOUS
<1>2. PICK g : g = EventFrame("algorithm", NIL)
  OBVIOUS
<1>3. /\ At(t, "find_transition") /\ f.pc = "find_transition" /\ f.e \in Events /\ Goto(t, g)
      /\ event_queue_' = Append(event_queue_, f.e) /\ event_queue_ \in Seq(Events)
      /\ UNCHANGED <<param_block_, taken_>>
  BY <1>1, <1>2, TopTyped DEF FoundTransition, FrameTyped, EventPCs, RuntimeInv, TypeOK, markVars
<1>4. g \in Frame /\ g.pc = "algorithm"
  BY <1>2 DEF EventFrame, F0, Frame, PCs, StateOrNil, EventOrNil
<1>5. BroadcastFrames = {f} /\ BroadcastFrames' = {g} /\ AlgorithmFrames' = AlgorithmFrames
  BY <1>1, <1>3, <1>4, BroadcastFrameMoves DEF BroadcastPCs
<1>6. /\ Len(event_queue_) \in Nat /\ Len(event_queue_') = Len(event_queue_) + 1
      /\ \A k \in 1 .. Len(event_queue_) : event_queue_'[k] = event_queue_[k]
      /\ event_queue_'[Len(event_queue_) + 1] = f.e
  BY <1>3
<1>7. \A x \in AlgorithmFrames : x.pc \in ExitPCs \cup EnterPCs \cup {"phase2", "phase3"} =>
          x.q \in Nat /\ x.q > 0 /\ x.n \in Nat /\ x.n <= Len(event_queue_)
  BY AlgorithmFrameTyped DEF ExitPCs, EnterPCs, StepPCs, AlgorithmPCs
<1>8. IteratesChain'
  <2>1. ASSUME NEW x \in AlgorithmFrames, x.pc \in ExitPCs \cup EnterPCs
        PROVE  event_queue_'[x.q] = event_queue_[x.q]
    <3>1. x.q \in 1 .. Len(event_queue_)
      BY <2>1, <1>6, <1>7 DEF Processing, IteratesChain
    <3> QED
      BY <3>1, <1>6
  <2> QED
    BY <2>1, <1>4, <1>5 DEF Processing, IteratesChain
<1>9. ParamsKept'
  <2>1. param_block_[f.e] = ParamBlock(f.e)
    BY <1>3, <1>5 DEF Processing, ParamsKept, EvaluatingPCs
  <2>2. ASSUME NEW k \in 1 .. Len(event_queue_'), \A x \in AlgorithmFrames : k >= NextExit(x)
        PROVE  param_block_[event_queue_'[k]] = ParamBlock(event_queue_'[k])
    <3>1. CASE k \in 1 .. Len(event_queue_)
      BY <2>2, <3>1, <1>6 DEF Processing, ParamsKept
    <3>2. CASE k = Len(event_queue_) + 1
      BY <3>2, <2>1, <1>6
    <3> QED
      BY <3>1, <3>2, <1>6
  <2> QED
    BY <2>2, <1>3, <1>4, <1>5 DEF ParamsKept, EvaluatingPCs
<1>10. ParamsShared' /\ MarkedOnChain'
  BY <1>3, <1>5 DEF Processing, ParamsShared, MarkedOnChain
<1>11. MarksEntered'
  <2>1. ASSUME NEW x \in AlgorithmFrames, x.pc \in ExitPCs \cup EnterPCs \cup {"phase2", "phase3"},
               NEW k \in 1 .. x.n, MarksNothing(event_queue_[k])
        PROVE  MarksNothing(event_queue_[k])'
    <3>1. event_queue_'[k] = event_queue_[k]
      BY <2>1, <1>6, <1>7
    <3> QED
      BY <2>1, <3>1, <1>3 DEF MarksNothing
  <2> SUFFICES ASSUME NEW x \in AlgorithmFrames PROVE FrameEntered(x)'
    BY <1>5 DEF MarksEntered, FrameEntered
  <2>2. FrameEntered(x)
    BY DEF Processing, MarksEntered, FrameEntered
  <2> QED
    BY <2>1, <2>2, <1>3 DEF FrameEntered
<1> QED
  BY <1>8, <1>9, <1>10, <1>11 DEF Processing

-----------------------------------------------------------------------------
(* Every step keeps the invariant.                                         *)

\* What a step starts from.
ProcessingHypotheses(t) ==
    RuntimeInv /\ BroadcastOnTop /\ P!ProtocolInv /\ Processing /\ t \in Threads

\* Everything done to states, and releasing the mutex.
LEMMA OtherKeeps ==
    ASSUME NEW t, ProcessingHypotheses(t), Client(t) \/ PlainStep(t) \/ Unlock(t)
    PROVE  Processing'
<1>1. RuntimeInv /\ BroadcastOnTop /\ Processing /\ t \in Threads
  BY DEF ProcessingHypotheses
<1>2. FramesStay
  BY <1>1, ClientFramesStay, PlainFramesStay, UnlockFramesStay
<1>3. UNCHANGED <<event_queue_, param_block_, taken_>>
  <2>1. CASE Client(t)
    BY <1>1, <2>1, ClientFramesStay DEF queueVars, markVars
  <2>2. CASE PlainStep(t)
    BY <2>2 DEF PlainStep, queueVars, markVars
  <2>3. CASE Unlock(t)
    BY <2>3 DEF Unlock, queueVars, markVars
  <2> QED
    BY <2>1, <2>2, <2>3
<1> QED
  BY <1>1, <1>2, <1>3, MarksStay DEF FramesStay

\* A frame of broadcast() that evaluates nothing comes, or one goes.
LEMMA BroadcastReturnKeeps ==
    ASSUME NEW t, ProcessingHypotheses(t),
           \/ Lock(t) \/ BroadcastDropped(t) \/ PreconditionFalse(t) \/ FoundNone(t)
           \/ AlgorithmNested(t)
    PROVE  Processing'
<1>1. RuntimeInv /\ BroadcastOnTop /\ Processing /\ t \in Threads
  BY DEF ProcessingHypotheses
<1>2. UNCHANGED <<event_queue_, param_block_, taken_>>
  BY DEF Lock, BroadcastDropped, PreconditionFalse, FoundNone, Cancel, AlgorithmNested, queueVars,
     markVars
<1>3. CASE Lock(t)
  <2>1. /\ AlgorithmFrames' = AlgorithmFrames
        /\ \A g \in BroadcastFrames' : g.pc = "broadcast"
    BY <1>1, <1>3, LockFramesMove
  <2> QED
    BY <1>1, <1>2, <2>1, MarksStay DEF EvaluatingPCs
<1>4. CASE BroadcastDropped(t) \/ PreconditionFalse(t) \/ FoundNone(t) \/ AlgorithmNested(t)
  <2>1. \E pc \in BroadcastPCs : At(t, pc) /\ Become(t, <<>>)
    BY <1>4 DEF BroadcastDropped, PreconditionFalse, FoundNone, Cancel, AlgorithmNested, ReturnVoid,
       BroadcastPCs
  <2>2. AlgorithmFrames' = AlgorithmFrames /\ BroadcastFrames' = {}
    BY <1>1, <2>1, BroadcastFrameGoes
  <2> QED
    BY <1>1, <1>2, <2>2, MarksStay
<1> QED
  BY <1>3, <1>4

\* The algorithm and its micro-steps begin and end.
LEMMA BoundaryKeeps ==
    ASSUME NEW t, ProcessingHypotheses(t),
           AlgorithmBegin(t) \/ AlgorithmEnd(t) \/ MicroStep(t) \/ Phase3End(t)
    PROVE  Processing'
<1>1. RuntimeInv /\ BroadcastOnTop /\ Processing /\ t \in Threads
  BY DEF ProcessingHypotheses
<1>2. UNCHANGED <<event_queue_, param_block_, taken_>>
  BY DEF AlgorithmBegin, AlgorithmEnd, MicroStep, Phase3End, queueVars, markVars
<1>3. CASE AlgorithmBegin(t)
  <2>1. /\ BroadcastFrames' = {} /\ AlgorithmFrames = {}
        /\ \E g : AlgorithmFrames' = {g} /\ g.pc = "micro_step"
    BY <1>1, <1>3, AlgorithmFrameComes
  <2> QED
    BY <1>1, <1>2, <2>1, BetweenSteps
<1>4. CASE AlgorithmEnd(t)
  <2>1. /\ BroadcastFrames' = {} /\ AlgorithmFrames' = {}
        /\ AlgorithmFrames = {Top(t)} /\ Top(t).pc = "micro_step"
    BY <1>1, <1>4, AlgorithmFrameGoes, TopTyped DEF AlgorithmEnd
  <2> QED
    BY <1>1, <1>2, <2>1, BetweenSteps
<1>5. CASE MicroStep(t)
  <2>1. /\ BroadcastFrames' = {} /\ AlgorithmFrames = {Top(t)} /\ Top(t).pc = "micro_step"
        /\ \E g \in Frame : /\ AlgorithmFrames' = {g}
                            /\ g.pc = "phase1" /\ g.q = 1 /\ g.n = Len(event_queue_)
    BY <1>1, <1>5, StepBegins
  <2> QED
    BY <1>1, <1>2, <2>1, BetweenSteps
<1>6. CASE Phase3End(t)
  <2>1. /\ BroadcastFrames' = {} /\ AlgorithmFrames = {Top(t)}
        /\ Top(t).pc = "phase3" /\ Top(t).n = 0
        /\ \E g : AlgorithmFrames' = {g} /\ g.pc = "micro_step"
    BY <1>1, <1>6, StepEnds
  <2> QED
    BY <1>1, <1>2, <2>1, BetweenSteps
<1> QED
  BY <1>3, <1>4, <1>5, <1>6

\* A phase takes the next event, or ends.
LEMMA EventKeeps ==
    ASSUME NEW t, ProcessingHypotheses(t),
           \/ Phase1Event(t) \/ Phase2Event(t) \/ Phase3Dequeue(t)
           \/ Phase1End(t) \/ NextPhase1Event(t) \/ NextPhase2Event(t) \/ Phase2End(t)
    PROVE  Processing'
<1>1. RuntimeInv /\ BroadcastOnTop /\ Processing /\ P!ProtocolInv /\ t \in Threads
  BY DEF ProcessingHypotheses
<1>2. PICK f : f = Top(t)
  OBVIOUS
<1>3. CASE Phase1Event(t)
  <2>1. PICK e : e = event_queue_[f.q]
    OBVIOUS
  <2>2. f.q \in 1 .. f.n /\ f.pc = "phase1"
    BY <1>1, <1>2, <1>3, EventMoves, TopTyped DEF Phase1Event
  <2>3. PICK g : /\ StepMove(t, f, g) /\ g.q = f.q /\ g.n = f.n /\ g.e = e /\ g.list = e
                 /\ g.pc = "exit_from"
    BY <1>1, <1>2, <1>3, <2>1, <2>2, EventMoves
  <2>4. /\ param_block_' = [b \in Events |-> IF b \in Chain(e) THEN param_block_[e] ELSE param_block_[b]]
        /\ UNCHANGED <<event_queue_, taken_>>
    BY <1>2, <1>3, <2>1 DEF Phase1Event, markVars
  <2> QED
    BY <1>1, <2>1, <2>2, <2>3, <2>4, ExitTakesEvent
<1>4. CASE Phase2Event(t)
  <2>1. PICK e : e = event_queue_[f.q]
    OBVIOUS
  <2>2. f.q \in 1 .. f.n /\ f.pc = "phase2"
    BY <1>1, <1>2, <1>4, EventMoves, TopTyped DEF Phase2Event
  <2>3. PICK g : /\ StepMove(t, f, g) /\ g.q = f.q /\ g.n = f.n /\ g.e = e /\ g.list = e /\ g.i = 1
                 /\ g.pc = "enter_to"
    BY <1>1, <1>2, <1>4, <2>1, <2>2, EventMoves
  <2>4. UNCHANGED <<event_queue_, param_block_, taken_>>
    BY <1>4 DEF Phase2Event, markVars, queueVars
  <2> QED
    BY <1>1, <2>1, <2>2, <2>3, <2>4, EnterTakesEvent
<1>5. CASE Phase3Dequeue(t)
  <2>1. f.pc = "phase3" /\ f.n > 0
    BY <1>1, <1>2, <1>5, DequeueMoves
  <2>2. PICK g : StepMove(t, f, g) /\ g.n = f.n - 1 /\ g.pc = "phase3"
    BY <1>1, <1>2, <1>5, DequeueMoves
  <2>3. event_queue_' = Tail(event_queue_) /\ UNCHANGED <<param_block_, taken_>>
    BY <1>5 DEF Phase3Dequeue, markVars
  <2> QED
    BY <1>1, <2>1, <2>2, <2>3, DequeueEvent
<1>6. CASE Phase1End(t) \/ NextPhase1Event(t) \/ NextPhase2Event(t) \/ Phase2End(t)
  <2>1. PICK g : /\ StepMove(t, f, g) /\ g.n = f.n
                 /\ \/ f.pc = "phase1" /\ f.q > f.n /\ g.pc = "phase2" /\ g.q = 1
                    \/ f.pc = "exit_from" /\ AtEnd(f) /\ g.pc = "phase1" /\ g.q = f.q + 1
                    \/ f.pc = "enter_to" /\ AtEnd(f) /\ g.pc = "phase2" /\ g.q = f.q + 1
                    \/ f.pc = "phase2" /\ f.q > f.n /\ g.pc = "phase3"
    BY <1>1, <1>2, <1>6, PhaseMoves
  <2>2. UNCHANGED <<event_queue_, param_block_, taken_>>
    BY <1>6 DEF Phase1End, NextPhase1Event, NextPhase2Event, NextEvent, Phase2End, markVars, queueVars
  <2> QED
    BY <1>1, <2>1, <2>2, BetweenEvents
<1> QED
  BY <1>3, <1>4, <1>5, <1>6

\* The iterator proceeds: in Phase II, past a transition that is not marked by
\* the event (any more).
LEMMA TransitionKeeps ==
    ASSUME NEW t, ProcessingHypotheses(t),
           \/ ExitSkip(t) \/ ExitDominated(t) \/ InternalAction(t) \/ Action(t)
           \/ EnterSkip(t) \/ Unmark(t)
    PROVE  Processing'
<1>1. RuntimeInv /\ BroadcastOnTop /\ Processing /\ t \in Threads
  BY DEF ProcessingHypotheses
<1>2. PICK f : f = Top(t)
  OBVIOUS
<1>3. InList(f) /\ f.pc \in ExitPCs \cup EnterPCs
  BY <1>1, <1>2, NextTransitionMoves DEF ExitPCs, EnterPCs
<1>4. PICK g : /\ StepMove(t, f, g) /\ SameEvent(f, g) /\ g.list = f.list /\ g.i = f.i + 1
               /\ g.pc = IF f.pc \in {"exit_from", "action"} THEN "exit_from" ELSE "enter_to"
  BY <1>1, <1>2, NextTransitionMoves
<1>5. /\ FrameIterates(f) /\ f.q \in Nat /\ f.q > 0 /\ f.n \in Nat /\ f.i \in Nat /\ f.list \in Events
      /\ f.n <= Len(event_queue_) /\ Len(event_queue_) \in Nat
      /\ \A k \in 1 .. Len(event_queue_) : event_queue_[k] \in Events
  BY <1>1, <1>3, <1>4, MoveFacts DEF FrameProcessing, ExitPCs, EnterPCs, IteratorPCs
<1>6. f.list \in Chain(f.e) /\ f.e \in Events
  BY <1>3, <1>5 DEF FrameIterates
<1>7. /\ UNCHANGED <<event_queue_, param_block_>>
      /\ taken_' = taken_ \/ taken_' = [taken_ EXCEPT ![CurTransition(f)] = NIL]
  BY <1>2 DEF ExitSkip, ExitDominated, InternalAction, Action, EnterSkip, Unmark, markVars, queueVars
<1>8. taken_ \in [Transitions -> EventOrNil] /\ CurTransition(f) \in Transitions
  <2>1. f.i > 0
    BY <1>1, <1>3, <1>4, MoveFacts DEF ExitPCs, EnterPCs, IteratorPCs
  <2>2. f.i \in 1 .. Len(TransitionList[f.list])
    BY <2>1, <1>3, <1>5, TransitionAssumption DEF InList
  <2> QED
    BY <2>2, <1>1, <1>5, TransitionAssumption DEF RuntimeInv, TypeOK, CurTransition
<1>9. MarksShrink
  BY <1>7, <1>8 DEF MarksShrink
<1>10. f.pc \in EnterPCs => taken_'[CurTransition(f)] # f.e
  <2>1. CASE EnterSkip(t)
    BY <2>1, <1>2 DEF EnterSkip, markVars
  <2>2. CASE Unmark(t)
    BY <2>2, <1>2, <1>6, <1>8, HierarchyAssumption DEF Unmark
  <2>3. CASE ExitSkip(t) \/ ExitDominated(t) \/ InternalAction(t) \/ Action(t)
    <3>1. f.pc \in {"exit_from", "action"}
      BY <2>3, <1>1, <1>2, TopTyped DEF ExitSkip, ExitDominated, InternalAction, Action, AtTransition
    <3> QED
      BY <3>1 DEF EnterPCs
  <2> QED
    BY <2>1, <2>2, <2>3
<1>11. Remaining(f) \subseteq {CurTransition(f)} \cup Remaining(g)
  BY <1>4, <1>5, RemainingAfter
<1>12. f.pc \in EnterPCs =>
          \A tr \in Transitions : taken_'[tr] = f.e /\ tr \in Remaining(f) => tr \in Remaining(g)
  BY <1>10, <1>11
<1>13. \/ f.pc \in ExitPCs /\ g.pc \in ExitPCs
       \/ f.pc \in EnterPCs /\ g.pc \in EnterPCs
  BY <1>3, <1>4 DEF ExitPCs, EnterPCs
<1> QED
  BY <1>1, <1>4, <1>6, <1>7, <1>9, <1>12, <1>13, WithinEvent

\* It stays while the transition is performed, and at the end of a list it goes
\* on with the one of the base event.
LEMMA IteratorKeeps ==
    ASSUME NEW t, ProcessingHypotheses(t),
           ExitFrom(t) \/ EnterTo(t) \/ (Bump(t) /\ ~ At(t, "find_transition"))
    PROVE  Processing'
<1>1. RuntimeInv /\ BroadcastOnTop /\ Processing /\ t \in Threads
  BY DEF ProcessingHypotheses
<1>2. PICK f : f = Top(t)
  OBVIOUS
<1>3. UNCHANGED <<event_queue_, param_block_, taken_>> /\ MarksShrink
  BY DEF ExitFrom, EnterTo, Bump, markVars, queueVars, MarksShrink
<1>4. f.pc \in {"exit_from", "enter_to"}
  BY <1>1, <1>2, TransitionMoves, BumpMoves
<1>5. PICK g : /\ StepMove(t, f, g) /\ SameEvent(f, g)
               /\ \/ /\ g.list = f.list /\ g.i = f.i
                     /\ g.pc = IF f.pc = "exit_from" THEN "action" ELSE "unmark"
                  \/ /\ ~ InList(f) /\ f.list \in Events /\ Base[f.list] \in Events
                     /\ g.pc = f.pc /\ g.list = Base[f.list] /\ g.i = 1
  <2>1. CASE ExitFrom(t) \/ EnterTo(t)
    BY <1>1, <1>2, <2>1, TransitionMoves
  <2>2. CASE Bump(t) /\ ~ At(t, "find_transition")
    BY <1>1, <1>2, <2>2, BumpMoves
  <2> QED
    BY <2>1, <2>2
<1>6. /\ FrameIterates(f) /\ f.q \in Nat /\ f.q > 0 /\ f.n \in Nat /\ f.i \in Nat /\ f.list \in Events
      /\ f.n <= Len(event_queue_) /\ Len(event_queue_) \in Nat
      /\ \A k \in 1 .. Len(event_queue_) : event_queue_[k] \in Events
  BY <1>1, <1>4, <1>5, MoveFacts DEF FrameProcessing, IteratorPCs
<1>7. f.list \in Chain(f.e) /\ f.e \in Events
  BY <1>4, <1>6 DEF FrameIterates, ExitPCs, EnterPCs
<1>8. g.list \in Chain(f.e)
  BY <1>5, <1>7, ChainBase, HierarchyAssumption
<1>9. Remaining(f) \subseteq Remaining(g)
  <2>1. CASE g.list = f.list /\ g.i = f.i
    BY <2>1 DEF Remaining
  <2>2. CASE ~ InList(f) /\ Base[f.list] \in Events /\ g.list = Base[f.list] /\ g.i = 1
    BY <2>2, <1>6, RemainingAtBase
  <2> QED
    BY <2>1, <2>2, <1>5
<1>10. \/ f.pc \in ExitPCs /\ g.pc \in ExitPCs
       \/ f.pc \in EnterPCs /\ g.pc \in EnterPCs
  BY <1>4, <1>5 DEF ExitPCs, EnterPCs
<1> QED
  BY <1>1, <1>3, <1>5, <1>8, <1>9, <1>10, WithinEvent

-----------------------------------------------------------------------------
(* The theorems.                                                           *)

\* Initially nothing is queued or marked.
LEMMA InitProcessing == Init => Processing
<1> SUFFICES ASSUME Init PROVE Processing
  OBVIOUS
<1>1. stack = [t \in Threads |-> <<>>] /\ event_queue_ = <<>> /\ taken_ = [tr \in Transitions |-> NIL]
  BY DEF Init
<1>2. \A t \in Threads : stack[t] = <<>> /\ Len(stack[t]) = 0
  BY <1>1
<1>3. Frames = {}
  BY <1>2 DEF Frames
<1>4. BroadcastFrames = {} /\ AlgorithmFrames = {}
  BY <1>3 DEF BroadcastFrames, AlgorithmFrames
<1>5. \A k \in 1 .. Len(event_queue_) : FALSE
  BY <1>1
<1> QED
  BY <1>1, <1>4, <1>5 DEF Processing, IteratesChain, ParamsKept, ParamsShared, MarkedOnChain, MarksEntered

\* Every step of a thread.
LEMMA NextKeepsProcessing ==
    RuntimeInv /\ ServiceInv /\ P!ProtocolInv /\ Processing /\ [Next]_vars => Processing'
<1> SUFFICES ASSUME RuntimeInv, ServiceInv, P!ProtocolInv, Processing, [Next]_vars
             PROVE  Processing'
  OBVIOUS
<1>1. BroadcastOnTop
  BY DEF ServiceInv
<1>2. CASE UNCHANGED vars
  <2>1. UNCHANGED <<stack, event_queue_, param_block_, taken_>>
    BY <1>2 DEF vars, queueVars, callVars, markVars
  <2>2. BroadcastFrames' = BroadcastFrames /\ AlgorithmFrames' = AlgorithmFrames
    BY <2>1 DEF BroadcastFrames, AlgorithmFrames, Frames
  <2> QED
    BY <2>1, <2>2, MarksStay
<1>3. ASSUME NEW t \in Threads, Client(t) \/ Run(t) PROVE Processing'
  <2>1. ProcessingHypotheses(t)
    BY <1>1, <1>3 DEF ProcessingHypotheses
  <2>2. CASE Client(t) \/ UserCode(t) \/ EnterStep(t) \/ ExitStep(t)
    BY <2>1, <2>2, OtherKeeps, UserCodeIsPlain, EnterStepIsPlain, ExitStepIsPlain
  <2>3. CASE BroadcastStep(t)
    <3>1. CASE \/ Lock(t) \/ Unlock(t) \/ BroadcastDropped(t) \/ PreconditionFalse(t)
               \/ FoundNone(t)
      BY <2>1, <3>1, OtherKeeps, BroadcastReturnKeeps
    <3>2. CASE Broadcast(t)
      BY <1>1, <1>3, <3>2, BroadcastKeeps
    <3>3. CASE FindStep(t)
      BY <1>1, <1>3, <3>3, FindKeeps
    <3>4. CASE FoundTransition(t)
      BY <1>1, <1>3, <3>4, AcceptKeeps
    <3>5. CASE Bump(t) /\ ~ At(t, "find_transition")
      BY <2>1, <3>5, IteratorKeeps
    <3> QED
      BY <2>3, <3>1, <3>2, <3>3, <3>4, <3>5 DEF BroadcastStep, FindStep
  <2>4. CASE AlgorithmStep(t)
    <3>1. CASE \/ AlgorithmNested(t) \/ AlgorithmBegin(t) \/ AlgorithmEnd(t) \/ MicroStep(t)
               \/ Phase3End(t)
      BY <2>1, <3>1, BroadcastReturnKeeps, BoundaryKeeps
    <3>2. CASE \/ Phase1Event(t) \/ Phase2Event(t) \/ Phase3Dequeue(t)
               \/ Phase1End(t) \/ NextPhase1Event(t) \/ NextPhase2Event(t) \/ Phase2End(t)
      BY <2>1, <3>2, EventKeeps
    <3>3. CASE \/ ExitSkip(t) \/ ExitDominated(t) \/ InternalAction(t) \/ Action(t)
               \/ EnterSkip(t) \/ Unmark(t)
      BY <2>1, <3>3, TransitionKeeps
    <3>4. CASE ExitFrom(t) \/ EnterTo(t)
      BY <2>1, <3>4, IteratorKeeps
    <3> QED
      BY <2>4, <3>1, <3>2, <3>3, <3>4 DEF AlgorithmStep
  <2> QED
    BY <1>3, <2>2, <2>3, <2>4 DEF Run
<1> QED
  BY <1>2, <1>3 DEF Next

\* For every machine, its user code and any number of threads: an event keeps
\* its parameters until Phase I takes it, and Phase II leaves no transition
\* marked by an event that it has taken.
THEOREM ProcessingInvariant == Spec => []ProcessingInv
<1>1. RefinementInv <=> RuntimeInv /\ ServiceInv /\ P!ProtocolInv
  BY SameProtocol DEF RefinementInv
<1>2. Processing /\ RefinementInv => ProcessingInv
  BY DEF Processing, ProcessingInv
<1> QED
  BY <1>1, <1>2, InitProcessing, NextKeepsProcessing, RefinementInvariant, PTL DEF Spec

\* Exit actions and the actions of transitions see the parameters of the event,
\* on whichever of its base events a transition is.
THEOREM ActionsSeeParams == Spec => []ActionParams
<1>1. ProcessingInv => ActionParams
  <2> SUFFICES ASSUME ProcessingInv, NEW t \in Threads, NEW i \in 1 .. Len(stack[t]),
                      stack[t][i].pc \in {"exit_from", "action"},
                      NEW e \in {stack[t][i].e, stack[t][i].list}
               PROVE  param_block_[e] = ParamBlock(stack[t][i].e)
    BY DEF ActionParams
  <2>1. PICK f : f = stack[t][i]
    OBVIOUS
  <2>2. f \in AlgorithmFrames /\ f.pc \in ExitPCs /\ f.pc \in StepPCs
    BY <2>1 DEF AlgorithmFrames, Frames, AlgorithmPCs, StepPCs, ExitPCs
  <2>3. RuntimeInv /\ IteratesChain /\ ParamsShared
    BY DEF ProcessingInv, RefinementInv
  <2>4. f.q \in Nat /\ f.q > 0 /\ f.n \in Nat /\ f.n <= Len(event_queue_)
    BY <2>2, <2>3, AlgorithmFrameTyped
  <2>5. f.q <= f.n /\ f.e = event_queue_[f.q] /\ f.list \in Chain(f.e)
    BY <2>2, <2>3 DEF IteratesChain
  <2>6. event_queue_ \in Seq(Events) /\ f.q \in 1 .. Len(event_queue_)
    BY <2>3, <2>4, <2>5 DEF RuntimeInv, TypeOK
  <2>7. f.e \in Events /\ f.e \in Chain(f.e)
    BY <2>5, <2>6, ChainSelf
  <2> QED
    BY <2>1, <2>2, <2>3, <2>5, <2>7 DEF ParamsShared
<1> QED
  BY <1>1, ProcessingInvariant, PTL

\* Only FoundTransition and Phase3Dequeue change the queue.
LEMMA QueueChanges ==
    ASSUME RuntimeInv, NEW t \in Threads, Client(t) \/ Run(t)
    PROVE  \/ event_queue_' = event_queue_
           \/ FoundTransition(t) \/ Phase3Dequeue(t)
<1>1. CASE Client(t)
  BY <1>1 DEF Client, CallEvent, CallEnter, CallExit, Call, CallClear, CallDeepClear, queueVars
<1>2. CASE UserCode(t) \/ EnterStep(t) \/ ExitStep(t)
  <2>1. PlainStep(t)
    BY <1>2, UserCodeIsPlain, EnterStepIsPlain, ExitStepIsPlain
  <2> QED
    BY <2>1 DEF PlainStep, queueVars
<1>3. CASE BroadcastStep(t)
  BY <1>3 DEF BroadcastStep, Lock, Unlock, BroadcastDropped, Broadcast, PreconditionFalse,
     PreconditionTrue, Bump, FindSkip, FindInternal, FindAborted, FindExternal, FoundNone, Cancel,
     queueVars
<1>4. CASE AlgorithmStep(t)
  BY <1>4 DEF AlgorithmStep, AlgorithmNested, AlgorithmBegin, AlgorithmEnd, MicroStep, Phase1Event,
     Phase1End, ExitSkip, ExitDominated, InternalAction, ExitFrom, Action, NextPhase1Event,
     NextPhase2Event, NextEvent, Phase2Event, Phase2End, EnterSkip, EnterTo, Unmark, Phase3End, queueVars
<1> QED
  BY <1>1, <1>2, <1>3, <1>4 DEF Run

\* An event leaves the queue only when no transition is marked by it any more.
THEOREM EventsProcessedFirst == Spec => ProcessedBeforeDequeued
<1> DEFINE Processed == Len(event_queue_') < Len(event_queue_) =>
                            \A tr \in Transitions : taken_[tr] # Head(event_queue_)
<1>1. ASSUME ProcessingInv, [Next]_vars PROVE [Processed]_event_queue_
  <2>1. RuntimeInv /\ BroadcastOnTop /\ MarksEntered
    BY <1>1 DEF ProcessingInv, RefinementInv, ServiceInv
  <2>2. CASE UNCHANGED vars
    BY <2>2 DEF vars, queueVars
  <2>3. ASSUME NEW t \in Threads, Client(t) \/ Run(t) PROVE [Processed]_event_queue_
    <3>1. event_queue_ \in Seq(Events) /\ Len(event_queue_) \in Nat
      BY <2>1 DEF RuntimeInv, TypeOK
    <3>2. CASE FoundTransition(t)
      <4>1. event_queue_' = Append(event_queue_, Top(t).e) /\ Top(t).e \in Events
        BY <2>1, <3>2, TopTyped DEF FoundTransition, FrameTyped, EventPCs
      <4>2. Len(event_queue_') = Len(event_queue_) + 1
        BY <3>1, <4>1
      <4> QED
        BY <3>1, <4>2
    <3>3. CASE Phase3Dequeue(t)
      <4>1. PICK f : f = Top(t)
        OBVIOUS
      <4>2. f.pc = "phase3" /\ f.n > 0 /\ f.n \in Nat
        BY <2>1, <3>3, <4>1, DequeueMoves
      <4>3. f \in AlgorithmFrames /\ f.n <= Len(event_queue_)
        BY <2>1, <3>3, <4>1, DequeueMoves DEF StepMove
      <4>4. MarksNothing(event_queue_[1]) /\ Head(event_queue_) = event_queue_[1]
        BY <2>1, <3>1, <4>2, <4>3 DEF MarksEntered
      <4> QED
        BY <4>4 DEF MarksNothing
    <3> QED
      BY <2>1, <2>3, <3>2, <3>3, QueueChanges
  <2> QED
    BY <1>1, <2>2, <2>3 DEF Next
<1> QED
  BY <1>1, ProcessingInvariant, PTL DEF Spec, ProcessedBeforeDequeued

-----------------------------------------------------------------------------
(* Marks are not forgotten, if no target function returns null: otherwise  *)
(* find_transition() marks a transition that it has not found.             *)

NeverAborts == \A tr \in Transitions : NIL \notin TargetFn[tr]

\* Marks stay served while marks are only removed and nothing is given up.
LEMMA ServedStays ==
    ASSUME RuntimeInv, MarksServed, MarksShrink, UNCHANGED event_queue_,
           BroadcastFrames' = BroadcastFrames \/ \A f \in BroadcastFrames : f.pc # "find_transition"
    PROVE  MarksServed'
  BY DEF MarksServed, MarksShrink

\* broadcast() gives up only when it has found nothing.
LEMMA BroadcastServes ==
    ASSUME NeverAborts, RuntimeInv, BroadcastOnTop, MarksServed, NEW t \in Threads,
           BroadcastStep(t) \/ AlgorithmNested(t), ~ Unlock(t), Bump(t) => At(t, "find_transition")
    PROVE  MarksServed'
<1>1. PICK f : f = Top(t)
  OBVIOUS
<1>2. taken_ \in [Transitions -> EventOrNil] /\ event_queue_ \in Seq(Events)
  BY DEF RuntimeInv, TypeOK
<1>3. CASE Lock(t)
  <2>1. BroadcastFrames = {} /\ UNCHANGED <<event_queue_, taken_>>
    BY <1>3, LockFramesMove DEF Lock, markVars, queueVars
  <2> QED
    BY <2>1, ServedStays DEF MarksShrink
<1>4. CASE BroadcastDropped(t) \/ PreconditionFalse(t) \/ AlgorithmNested(t) \/ Broadcast(t)
  <2>1. PICK pc \in BroadcastPCs : At(t, pc) /\ pc # "find_transition"
    BY <1>4 DEF BroadcastDropped, PreconditionFalse, AlgorithmNested, Broadcast, BroadcastPCs
  <2>2. f.pc = pc
    BY <1>1, <2>1, TopTyped
  <2>3. UNCHANGED <<event_queue_, taken_>>
    BY <1>4 DEF BroadcastDropped, PreconditionFalse, Cancel, AlgorithmNested, Broadcast, markVars,
       queueVars
  <2>4. \A g \in BroadcastFrames : g.pc # "find_transition"
    <3>1. owner = t
      <4>1. f.pc \in LockedPCs
        BY <2>1, <2>2 DEF BroadcastPCs, LockedPCs
      <4> QED
        BY <1>1, <2>1, <4>1, LockedOwns DEF At
    <3>2. Frames = {f} \cup Below(t)
      BY <1>1, <2>1, FramesSplit DEF At, RuntimeInv
    <3>3. \A g \in Below(t) : g.pc \notin BroadcastPCs
      BY <3>1, NoBroadcastBelow
    <3> QED
      BY <2>1, <2>2, <3>2, <3>3 DEF BroadcastFrames
  <2> QED
    BY <2>3, <2>4, ServedStays DEF MarksShrink
<1>5. CASE FoundNone(t)
  <2>1. /\ At(t, "find_transition") /\ ~ f.found /\ Become(t, <<>>)
        /\ UNCHANGED <<event_queue_, taken_>>
    BY <1>1, <1>5 DEF FoundNone, Cancel, ReturnVoid, markVars
  <2>2. BroadcastFrames = {f}
    BY <1>1, <2>1, BroadcastFrameGoes DEF BroadcastPCs
  <2> QED
    BY <2>1, <2>2 DEF MarksServed
<1>6. CASE FindStep(t)
  <2>1. PICK g : FindMove(t, f, g)
    BY <1>1, <1>6, FindMoves
  <2>2. /\ BroadcastFrames = {f} /\ BroadcastFrames' = {g} /\ g.e = f.e /\ g.pc = "find_transition"
        /\ f.found => g.found
        /\ g.found \/ taken_' = taken_ \/ FindAborted(t)
        /\ f.pc \in EvaluatingPCs
    BY <2>1 DEF FindMove
  <2>3. /\ UNCHANGED event_queue_
        /\ \/ taken_' = taken_
           \/ \E tr \in Transitions : /\ taken_' = [taken_ EXCEPT ![tr] = IF @ = NIL THEN f.e ELSE @]
                                      /\ ~ FindAborted(t)
    <3>1. CASE PreconditionTrue(t) \/ FindSkip(t) \/ Bump(t)
      BY <3>1 DEF PreconditionTrue, FindSkip, Bump, markVars, queueVars
    <3>2. CASE FindInternal(t) \/ FindAborted(t) \/ FindExternal(t)
      <4>1. /\ At(t, "find_transition") /\ InList(f) /\ UNCHANGED event_queue_
            /\ MarkTaken(t, CurTransition(f))
        BY <1>1, <3>2 DEF FindInternal, FindAborted, FindExternal, AtTransition, queueVars
      <4>2. CurTransition(f) \in Transitions
        BY <1>1, <4>1, CurTransitionTyped, TopTyped DEF FrameTyped, IteratorPCs
      <4>3. ~ FindAborted(t)
        BY <1>1, <4>2 DEF FindAborted, NeverAborts
      <4> QED
        BY <1>1, <4>1, <4>2, <4>3 DEF MarkTaken
    <3> QED
      BY <1>6, <3>1, <3>2 DEF FindStep
  <2> SUFFICES ASSUME NEW tr \in Transitions, taken_'[tr] # NIL
               PROVE  \/ \E k \in 1 .. Len(event_queue_) : event_queue_[k] = taken_'[tr]
                      \/ g.found /\ g.e = taken_'[tr]
    BY <2>2, <2>3 DEF MarksServed
  <2>4. CASE taken_'[tr] = taken_[tr]
    BY <2>2, <2>4 DEF MarksServed
  <2>5. CASE taken_'[tr] # taken_[tr]
    <3>1. g.found /\ taken_'[tr] = f.e
      BY <1>2, <2>2, <2>3, <2>5
    <3> QED
      BY <2>2, <3>1
  <2> QED
    BY <2>4, <2>5
<1>7. CASE FoundTransition(t)
  <2>1. PICK g : g = EventFrame("algorithm", NIL)
    OBVIOUS
  <2>2. g \in Frame /\ g.pc = "algorithm"
    BY <2>1 DEF EventFrame, F0, Frame, PCs, StateOrNil, EventOrNil
  <2>3. /\ At(t, "find_transition") /\ Goto(t, g) /\ f.e \in Events
        /\ event_queue_' = Append(event_queue_, f.e) /\ taken_' = taken_
    BY <1>1, <1>7, <2>1, TopTyped DEF FoundTransition, FrameTyped, EventPCs, markVars
  <2>4. BroadcastFrames = {f}
    BY <1>1, <2>2, <2>3, BroadcastFrameMoves DEF BroadcastPCs
  <2>5. /\ Len(event_queue_) \in Nat /\ Len(event_queue_') = Len(event_queue_) + 1
        /\ \A k \in 1 .. Len(event_queue_) : event_queue_'[k] = event_queue_[k]
        /\ event_queue_'[Len(event_queue_) + 1] = f.e
    BY <1>2, <2>3
  <2>6. ASSUME NEW tr \in Transitions, taken_[tr] # NIL
        PROVE  \E k \in 1 .. Len(event_queue_') : event_queue_'[k] = taken_[tr]
    <3>1. CASE \E k \in 1 .. Len(event_queue_) : event_queue_[k] = taken_[tr]
      BY <2>5, <3>1
    <3>2. CASE f.e = taken_[tr]
      <4>1. Len(event_queue_) + 1 \in 1 .. Len(event_queue_')
        BY <2>5
      <4> QED
        BY <2>5, <3>2, <4>1
    <3> QED
      BY <2>4, <2>6, <3>1, <3>2 DEF MarksServed
  <2> QED
    BY <2>3, <2>6 DEF MarksServed
<1> QED
  BY <1>3, <1>4, <1>5, <1>6, <1>7 DEF BroadcastStep, FindStep

\* algorithm() dequeues an event only when it marks nothing.
LEMMA AlgorithmServes ==
    ASSUME ProcessingInv, MarksServed, NEW t \in Threads,
           AlgorithmStep(t) \/ (Bump(t) /\ ~ At(t, "find_transition")), ~ AlgorithmNested(t)
    PROVE  MarksServed'
<1>1. RuntimeInv /\ BroadcastOnTop /\ MarksEntered
  BY DEF ProcessingInv, RefinementInv, ServiceInv
<1>2. taken_ \in [Transitions -> EventOrNil] /\ event_queue_ \in Seq(Events)
  BY <1>1 DEF RuntimeInv, TypeOK
<1>3. CASE Phase3Dequeue(t)
  <2>1. PICK f : f = Top(t)
    OBVIOUS
  <2>2. f.pc = "phase3" /\ f.n > 0 /\ f.n \in Nat
    BY <1>1, <1>3, <2>1, DequeueMoves
  <2>3. /\ f \in AlgorithmFrames /\ f.n <= Len(event_queue_) /\ BroadcastFrames = {}
    BY <1>1, <1>3, <2>1, DequeueMoves DEF StepMove
  <2>4. MarksNothing(event_queue_[1])
    BY <1>1, <2>2, <2>3 DEF MarksEntered
  <2>5. event_queue_' = Tail(event_queue_) /\ taken_' = taken_
    BY <1>3 DEF Phase3Dequeue, markVars
  <2>6. /\ Len(event_queue_) \in Nat /\ Len(event_queue_') = Len(event_queue_) - 1
        /\ \A k \in 1 .. Len(event_queue_') : event_queue_'[k] = event_queue_[k + 1]
    BY <1>2, <2>2, <2>3, <2>5
  <2>7. ASSUME NEW tr \in Transitions, taken_[tr] # NIL
        PROVE  \E k \in 1 .. Len(event_queue_') : event_queue_'[k] = taken_[tr]
    <3>1. PICK k \in 1 .. Len(event_queue_) : event_queue_[k] = taken_[tr]
      BY <2>3, <2>7 DEF MarksServed
    <3>2. k # 1
      BY <2>4, <3>1 DEF MarksNothing
    <3>3. k - 1 \in 1 .. Len(event_queue_') /\ (k - 1) + 1 = k
      BY <2>6, <3>2
    <3> QED
      BY <2>6, <3>1, <3>3
  <2> QED
    BY <2>5, <2>7 DEF MarksServed
<1>4. CASE ~ Phase3Dequeue(t)
  <2>1. BroadcastFrames' = BroadcastFrames \/ \A f \in BroadcastFrames : f.pc # "find_transition"
    <3>1. CASE AlgorithmBegin(t)
      <4>1. BroadcastFrames = {Top(t)} /\ Top(t).pc = "algorithm"
        BY <1>1, <3>1, AlgorithmFrameComes, TopTyped DEF AlgorithmBegin
      <4> QED
        BY <4>1
    <3>2. CASE AlgorithmEnd(t) \/ MicroStep(t) \/ Phase3End(t)
      BY <1>1, <3>2, AlgorithmFrameGoes, StepBegins, StepEnds
    <3>3. CASE PhaseStep(t)
      <4>1. \E g : StepMove(t, Top(t), g)
        BY <1>1, <3>3, PhaseIsMove
      <4> QED
        BY <4>1 DEF StepMove
    <3> QED
      BY <1>4, <3>1, <3>2, <3>3 DEF AlgorithmStep, PhaseStep
  <2>2. UNCHANGED event_queue_ /\ MarksShrink
    <3>1. CASE ExitDominated(t) \/ Unmark(t)
      BY <1>2, <3>1 DEF ExitDominated, Unmark, queueVars, MarksShrink
    <3>2. CASE ~ (ExitDominated(t) \/ Unmark(t))
      BY <1>4, <3>2 DEF AlgorithmStep, AlgorithmNested, AlgorithmBegin, AlgorithmEnd, MicroStep,
         Phase1Event, Phase1End, ExitSkip, InternalAction, ExitFrom, Action, NextPhase1Event,
         NextPhase2Event, NextEvent, Phase2Event, Phase2End, EnterSkip, EnterTo, Phase3End, Bump,
         queueVars, markVars, MarksShrink
    <3> QED
      BY <3>1, <3>2
  <2> QED
    BY <1>1, <2>1, <2>2, ServedStays
<1> QED
  BY <1>3, <1>4

\* Every step of a thread.
LEMMA NextServes ==
    ASSUME NeverAborts
    PROVE  ProcessingInv /\ MarksServed /\ [Next]_vars => MarksServed'
<1> SUFFICES ASSUME ProcessingInv, MarksServed, [Next]_vars PROVE MarksServed'
  OBVIOUS
<1>1. RuntimeInv /\ BroadcastOnTop
  BY DEF ProcessingInv, RefinementInv, ServiceInv
<1>2. ASSUME FramesStay, UNCHANGED <<event_queue_, taken_>> PROVE MarksServed'
  BY <1>1, <1>2, ServedStays DEF FramesStay, MarksShrink
<1>3. CASE UNCHANGED vars
  <2>1. UNCHANGED <<stack, event_queue_, taken_>>
    BY <1>3 DEF vars, queueVars, callVars, markVars
  <2>2. FramesStay
    BY <1>1, <2>1 DEF FramesStay, BroadcastFrames, AlgorithmFrames, Frames, BroadcastOnTop
  <2> QED
    BY <1>2, <2>1, <2>2
<1>4. ASSUME NEW t \in Threads, Client(t) \/ Run(t) PROVE MarksServed'
  <2>1. CASE Client(t)
    BY <1>1, <1>2, <2>1, ClientFramesStay DEF queueVars, markVars
  <2>2. CASE UserCode(t) \/ EnterStep(t) \/ ExitStep(t)
    <3>1. PlainStep(t)
      BY <1>1, <2>2, UserCodeIsPlain, EnterStepIsPlain, ExitStepIsPlain
    <3> QED
      BY <1>1, <1>2, <3>1, PlainFramesStay DEF PlainStep, queueVars, markVars
  <2>3. CASE Unlock(t)
    BY <1>1, <1>2, <2>3, UnlockFramesStay DEF Unlock, queueVars, markVars
  <2>4. CASE BroadcastStep(t) /\ ~ Unlock(t) /\ (Bump(t) => At(t, "find_transition"))
    BY <1>1, <2>4, BroadcastServes
  <2>5. CASE Bump(t) /\ ~ At(t, "find_transition")
    <3>1. ~ AlgorithmNested(t)
      BY <1>1, <2>5, BumpMoves, TopTyped DEF AlgorithmNested
    <3> QED
      BY <2>5, <3>1, AlgorithmServes
  <2>6. CASE AlgorithmNested(t)
    <3>1. At(t, "algorithm") /\ Top(t).pc = "algorithm"
      BY <1>1, <2>6, TopTyped DEF AlgorithmNested
    <3>2. ~ Unlock(t) /\ ~ Bump(t)
      BY <1>1, <3>1, TopTyped DEF Unlock, Bump
    <3> QED
      BY <1>1, <2>6, <3>2, BroadcastServes
  <2>7. CASE AlgorithmStep(t) /\ ~ AlgorithmNested(t)
    BY <2>7, AlgorithmServes
  <2> QED
    BY <1>4, <2>1, <2>2, <2>3, <2>4, <2>5, <2>6, <2>7 DEF Run
<1> QED
  BY <1>3, <1>4 DEF Next

\* In a machine whose target functions never return null, no transition is left
\* marked when the outermost broadcast has released the mutex.
THEOREM NothingLeftMarked ==
    ASSUME NeverAborts
    PROVE  Spec => []NothingMarked
<1>1. Init => MarksServed
  BY DEF Init, MarksServed
<1>2. ProcessingInv /\ MarksServed => NothingMarked
  <2> SUFFICES ASSUME ProcessingInv, MarksServed, owner = NIL, NEW tr \in Transitions
               PROVE  taken_[tr] = NIL
    BY DEF NothingMarked
  <2>1. RuntimeInv /\ ServiceInv
    BY DEF ProcessingInv, RefinementInv
  <2>2. BroadcastFrames = {} /\ event_queue_ = <<>>
    BY <2>1, FreeMeansIdle, FreeMeansDone
  <2>3. \A k \in 1 .. Len(event_queue_) : FALSE
    BY <2>2
  <2> QED
    BY <2>2, <2>3 DEF MarksServed
<1> QED
  BY <1>1, <1>2, NextServes, ProcessingInvariant, PTL DEF Spec

-----------------------------------------------------------------------------
(* The outermost frame of a stack.                                         *)

Bottom(s) == s[Len(s)]

\* The running frame is replaced by whatever frames.
Continued(t) == \E S : \E frames \in Seq(S) : Become(t, frames)

LEMMA GotoContinues ==
    ASSUME NEW t, NEW g, Goto(t, g)
    PROVE  Continued(t)
<1>1. <<g>> \in Seq({g})
  OBVIOUS
<1> QED
  BY <1>1 DEF Continued, Goto

LEMMA ReturnContinues ==
    ASSUME NEW t, Become(t, <<>>)
    PROVE  Continued(t)
<1>1. <<>> \in Seq({})
  OBVIOUS
<1> QED
  BY <1>1 DEF Continued

LEMMA CallContinues ==
    ASSUME NEW t, NEW calls, Callable(calls), NEW g, CallThen(t, calls, g)
    PROVE  Continued(t)
<1>1. calls \in Seq(Frame \cup {g})
  BY DEF Callable
<1>2. Append(calls, g) \in Seq(Frame \cup {g})
  BY <1>1
<1> QED
  BY <1>2 DEF Continued, CallThen

\* A step inside a call keeps the outermost frame.
LEMMA BottomStays ==
    ASSUME TypeOK, NEW t \in Threads, Len(stack[t]) > 1, Continued(t)
    PROVE  /\ stack'[t] # <<>> /\ Bottom(stack'[t]) = Bottom(stack[t])
           /\ \A u \in Threads \ {t} : stack'[u] = stack[u]
<1>1. PICK S : \E frames \in Seq(S) : Become(t, frames)
  BY DEF Continued
<1>2. PICK frames \in Seq(S) : Become(t, frames)
  BY <1>1
<1> DEFINE A == S \cup Frame
           s == stack[t]
           r == frames \o Tail(s)
<1>3. stack \in [Threads -> Seq(Frame)] /\ s \in Seq(Frame)
  BY DEF TypeOK
<1>4. stack'[t] = r /\ \A u \in Threads \ {t} : stack'[u] = stack[u]
  BY <1>2, <1>3 DEF Become
<1>5. frames \in Seq(A) /\ s \in Seq(A)
  BY <1>3
<1> HIDE DEF A, s
<1>6. /\ Tail(s) \in Seq(A) /\ Len(s) \in Nat /\ Len(s) > 1 /\ Len(Tail(s)) = Len(s) - 1
      /\ Tail(s)[Len(s) - 1] = s[Len(s)]
  BY <1>5 DEF s
<1>7. /\ Len(frames) \in Nat /\ Len(r) = Len(frames) + Len(s) - 1
      /\ r[Len(frames) + (Len(s) - 1)] = Tail(s)[Len(s) - 1]
  BY <1>5, <1>6
<1> HIDE DEF r
<1>8. r # <<>>
  BY <1>6, <1>7
<1>9. Len(r) = Len(frames) + (Len(s) - 1)
  BY <1>6, <1>7
<1>10. r[Len(r)] = s[Len(s)]
  BY <1>6, <1>7, <1>9
<1> QED
  BY <1>4, <1>8, <1>10 DEF Bottom, s

LEMMA AtLeastOne ==
    ASSUME RuntimeInv, NEW t \in Threads, stack[t] # <<>>
    PROVE  Len(stack[t]) > 1 \/ Len(stack[t]) = 1
<1>1. PICK s : s = stack[t]
  OBVIOUS
<1>2. s \in Seq(Frame) /\ s # <<>>
  BY <1>1 DEF RuntimeInv, TypeOK
<1>3. Len(s) \in Nat /\ Len(s) # 0
  BY <1>2
<1>4. PICK n \in Nat : n = Len(s)
  BY <1>3
<1>5. n > 1 \/ n = 1
  BY <1>3, <1>4
<1> QED
  BY <1>1, <1>4, <1>5

\* Every step of the library and its user code continues the running frame.
LEMMA BroadcastContinues ==
    ASSUME RuntimeInv, NEW t \in Threads, BroadcastStep(t), ~ Lock(t)
    PROVE  Continued(t)
<1>1. CASE \/ Unlock(t) \/ BroadcastDropped(t) \/ PreconditionFalse(t) \/ FoundNone(t)
  BY <1>1, ReturnContinues
     DEF Unlock, BroadcastDropped, PreconditionFalse, FoundNone, Cancel, ReturnVoid
<1>2. CASE \/ Broadcast(t) \/ PreconditionTrue(t) \/ Bump(t) \/ FindSkip(t) \/ FindInternal(t)
           \/ FindAborted(t) \/ FindExternal(t) \/ FoundTransition(t)
  <2>1. \E g : Goto(t, g)
    BY <1>2 DEF Broadcast, PreconditionTrue, Bump, FindSkip, FindInternal, FindAborted,
       FindExternal, FoundTransition
  <2> QED
    BY <2>1, GotoContinues
<1> QED
  BY <1>1, <1>2 DEF BroadcastStep

LEMMA AlgorithmContinues ==
    ASSUME RuntimeInv, NEW t \in Threads, AlgorithmStep(t)
    PROVE  Continued(t)
<1> DEFINE f == Top(t)
           tr == CurTransition(f)
<1>1. CASE AlgorithmNested(t) \/ AlgorithmEnd(t)
  BY <1>1, ReturnContinues DEF AlgorithmNested, AlgorithmEnd, ReturnVoid
<1>2. CASE \/ AlgorithmBegin(t) \/ MicroStep(t) \/ Phase1Event(t) \/ Phase1End(t) \/ ExitSkip(t)
           \/ ExitDominated(t) \/ NextPhase1Event(t) \/ Phase2Event(t) \/ Phase2End(t)
           \/ EnterSkip(t) \/ Unmark(t) \/ NextPhase2Event(t) \/ Phase3Dequeue(t) \/ Phase3End(t)
  <2>1. \E g : Goto(t, g)
    BY <1>2 DEF AlgorithmBegin, MicroStep, Phase1Event, Phase1End, ExitSkip, ExitDominated,
       NextPhase1Event, NextPhase2Event, NextEvent, Phase2Event, Phase2End, EnterSkip, Unmark,
       Phase3Dequeue, Phase3End
  <2> QED
    BY <2>1, GotoContinues
<1>3. CASE InternalAction(t) \/ ExitFrom(t) \/ Action(t) \/ EnterTo(t)
  <2>1. PICK pc \in {"exit_from", "action", "enter_to"} : At(t, pc) /\ (pc # "action" => InList(f))
    BY <1>3 DEF InternalAction, ExitFrom, Action, EnterTo, AtTransition
  <2>2. f.list \in Events /\ f.i > 0 /\ InList(f) /\ f \in Frame
    BY <2>1, TopTyped DEF FrameTyped, IteratorPCs
  <2>3. tr \in Transitions /\ From[tr] \in States /\ target_[tr] \in StateOrNil
    BY <2>2, CurTransitionTyped, TransitionAssumption DEF RuntimeInv, TypeOK
  <2>4. Callable(<<UserFrame(ActionEmits[tr])>>)
    BY <2>3, UserCodeAssumption, UserFrames, OneCallable
  <2>5. Callable(ExitCall(From[tr], target_[tr]))
    BY <2>3, ExitCallable
  <2>6. target_[tr] # NIL => Callable(EnterCall(target_[tr], NIL))
    BY <2>3, EnterCallable DEF StateOrNil
  <2>7. \E g : \/ Goto(t, g) \/ CallThen(t, <<UserFrame(ActionEmits[tr])>>, g)
               \/ CallThen(t, ExitCall(From[tr], target_[tr]), g)
               \/ target_[tr] # NIL /\ CallThen(t, EnterCall(target_[tr], NIL), g)
    BY <1>3 DEF InternalAction, ExitFrom, Action, EnterTo
  <2> QED
    BY <2>4, <2>5, <2>6, <2>7, GotoContinues, CallContinues
<1> QED
  BY <1>1, <1>2, <1>3 DEF AlgorithmStep

\* Taking the mutex leaves the frame that releases it.
LEMMA LockBottom ==
    ASSUME RuntimeInv, NEW t \in Threads, Lock(t)
    PROVE  /\ Continued(t)
           /\ Len(stack[t]) = 1 => stack'[t] # <<>> /\ Bottom(stack'[t]).pc = "unlock"
           /\ \A u \in Threads \ {t} : stack'[u] = stack[u]
<1> DEFINE a == EventFrame("broadcast", Top(t).e)
           b == EventFrame("unlock", NIL)
           frames == Append(<<a>>, b)
<1>1. stack[t] # <<>> /\ Top(t) \in Frame /\ Top(t).e \in Events /\ Become(t, frames)
  BY TopTyped DEF Lock, CallThen, FrameTyped, EventPCs
<1>2. a \in Frame /\ b \in Frame /\ b.pc = "unlock"
  BY <1>1 DEF EventFrame, F0, Frame, PCs, StateOrNil, EventOrNil
<1> HIDE DEF a, b
<1>3. frames \in Seq(Frame) /\ Len(frames) = 2 /\ frames[2] = b
  BY <1>2
<1> HIDE DEF frames
<1>4. /\ stack'[t] \in Seq(Frame) /\ Len(stack'[t]) = Len(frames) + Len(stack[t]) - 1
      /\ \A i \in 1 .. Len(frames) : stack'[t][i] = frames[i]
      /\ \A u \in Threads \ {t} : stack'[u] = stack[u]
  BY <1>1, <1>3, BecomeFrames, BecomeReplaces DEF RuntimeInv
<1>5. Len(stack[t]) = 1 => Len(stack'[t]) = 2 /\ stack'[t][2] = b
  BY <1>3, <1>4
<1>6. Len(stack[t]) = 1 => stack'[t] # <<>>
  BY <1>4, <1>5
<1> QED
  BY <1>1, <1>2, <1>3, <1>4, <1>5, <1>6 DEF Bottom, Continued

\* What a step does to the outermost frame of its thread.
BottomStep(t) ==
    /\ \A u \in Threads \ {t} : stack'[u] = stack[u]
    /\ \/ /\ Len(stack[t]) > 1 /\ stack'[t] # <<>> /\ Bottom(stack'[t]) = Bottom(stack[t])
       \/ /\ Len(stack[t]) = 1 /\ Bottom(stack[t]).pc \notin {"lock", "unlock"}
          /\ stack'[t] # <<>> /\ Bottom(stack'[t]).pc = "lock" => Len(stack'[t]) = 1
       \/ /\ Len(stack[t]) = 1 /\ stack'[t] # <<>> /\ Bottom(stack'[t]).pc = "unlock"
       \/ stack'[t] = <<>>

\* Code that has not taken the mutex calls or returns; what it calls does not
\* wait for the mutex after a call.
LEMMA PlainBottom ==
    ASSUME RuntimeInv, NEW t \in Threads, PlainStep(t), Top(t).pc # "lock"
    PROVE  BottomStep(t)
<1>1. PICK frames : Callable(frames) /\ Become(t, frames)
  BY DEF PlainStep, Plainly
<1>2. /\ stack[t] # <<>> /\ Top(t).pc \notin LockedPCs /\ frames \in Seq(Frame)
      /\ \A i \in 1 .. Len(frames) : i > 1 => frames[i].pc # "lock"
  BY <1>1 DEF PlainStep, Callable
<1>3. /\ Len(frames) \in Nat /\ Len(stack[t]) \in Nat /\ Len(stack[t]) > 0
      /\ stack'[t] \in Seq(Frame) /\ Len(stack'[t]) = Len(frames) + Len(stack[t]) - 1
      /\ Top(t) = stack[t][1]
      /\ \A i \in 1 .. Len(frames) : stack'[t][i] = frames[i]
      /\ \A u \in Threads \ {t} : stack'[u] = stack[u]
  BY <1>1, <1>2, BecomeFrames, BecomeReplaces DEF RuntimeInv
<1>4. CASE Len(stack[t]) > 1
  BY <1>1, <1>2, <1>4, BottomStays DEF BottomStep, Continued, RuntimeInv
<1>5. CASE Len(stack[t]) = 1
  <2>1. Bottom(stack[t]).pc \notin {"lock", "unlock"}
    BY <1>2, <1>3, <1>5 DEF Bottom, LockedPCs
  <2>2. ASSUME stack'[t] # <<>>, Bottom(stack'[t]).pc = "lock" PROVE Len(stack'[t]) = 1
    <3>1. Len(stack'[t]) = Len(frames) /\ Len(frames) > 0
      BY <1>3, <1>5, <2>2
    <3>2. Len(frames) \in 1 .. Len(frames) /\ frames[Len(frames)].pc = "lock"
      BY <1>3, <2>2, <3>1 DEF Bottom
    <3>3. ~ (Len(frames) > 1)
      BY <1>2, <3>2
    <3> QED
      BY <1>3, <3>1, <3>3
  <2> QED
    BY <1>3, <1>5, <2>1, <2>2 DEF BottomStep
<1>6. Len(stack[t]) > 1 \/ Len(stack[t]) = 1
  BY <1>2, AtLeastOne
<1> QED
  BY <1>4, <1>5, <1>6

\* Every step of the library and its user code.
LEMMA RunBottom ==
    ASSUME RuntimeInv, NEW t \in Threads, Run(t)
    PROVE  BottomStep(t)
<1>1. CASE UserCode(t) \/ EnterStep(t) \/ ExitStep(t)
  <2>1. PlainStep(t)
    BY <1>1, UserCodeIsPlain, EnterStepIsPlain, ExitStepIsPlain
  <2>2. PICK pc \in StatePCs \cup {"user", "return_true"} : At(t, pc)
    BY <1>1 DEF UserCode, UserBroadcast, UserReturn, EnterStep, StateEnter, ParentEntered,
       SwitchActiveChildTo, Activate, ClusterEnter, SetEnter, SetEnterChildren, ReturnTrue,
       ExitStep, StateExit, ExitParent, ClusterExit, SetExit, SetExitChildren, StatePCs
  <2>3. Top(t).pc # "lock"
    BY <2>2, TopTyped DEF StatePCs
  <2> QED
    BY <2>1, <2>3, PlainBottom
<1>2. CASE Lock(t)
  <2>1. At(t, "lock")
    BY <1>2 DEF Lock
  <2>3. CASE Len(stack[t]) > 1
    BY <1>2, <2>3, LockBottom, BottomStays DEF BottomStep, RuntimeInv
  <2>4. CASE Len(stack[t]) = 1
    BY <1>2, <2>4, LockBottom DEF BottomStep
  <2>5. Len(stack[t]) > 1 \/ Len(stack[t]) = 1
    BY <2>1, AtLeastOne DEF At
  <2> QED
    BY <2>3, <2>4, <2>5
<1>3. CASE (BroadcastStep(t) /\ ~ Lock(t)) \/ AlgorithmStep(t)
  <2>1. PICK pc \in LockedPCs : At(t, pc)
    BY <1>3 DEF BroadcastStep, Unlock, BroadcastDropped, Broadcast, PreconditionFalse,
       PreconditionTrue, Bump, FindSkip, FindInternal, FindAborted, FindExternal, FoundTransition,
       FoundNone, AtTransition,
       AlgorithmStep, AlgorithmNested, AlgorithmBegin, AlgorithmEnd, MicroStep, Phase1Event,
       Phase1End, ExitSkip, ExitDominated, InternalAction, ExitFrom, Action, NextPhase1Event,
       NextPhase2Event, NextEvent, Phase2Event, Phase2End, EnterSkip, EnterTo, Unmark,
       Phase3Dequeue, Phase3End, LockedPCs
  <2>2. Continued(t)
    BY <1>3, BroadcastContinues, AlgorithmContinues
  <2>3. /\ stack[t] # <<>> /\ Top(t).pc = pc /\ Top(t) = stack[t][1]
        /\ Len(stack[t]) \in Nat /\ Len(stack[t]) > 0
    BY <2>1, TopTyped, TopIsFirst DEF RuntimeInv
  <2>4. CASE Len(stack[t]) > 1
    BY <2>2, <2>4, BottomStays DEF BottomStep, RuntimeInv
  <2>5. CASE Len(stack[t]) = 1
    <3>1. pc = "unlock"
      <4> SUFFICES ASSUME pc # "unlock" PROVE FALSE
        OBVIOUS
      <4>1. 1 \in 1 .. Len(stack[t]) /\ stack[t][1].pc \in LockedPCs \ {"unlock"}
        BY <2>1, <2>3
      <4>2. 1 + 1 \in 1 .. Len(stack[t])
        BY <4>1 DEF RuntimeInv, StackInv, ReleasedBelow
      <4> QED
        BY <4>2, <2>5
    <3>2. Unlock(t)
      <4>1. \A x : At(t, x) => x = "unlock"
        BY <2>3, <3>1, TopTyped
      <4> QED
        BY <1>3, <4>1 DEF BroadcastStep, BroadcastDropped, Broadcast, PreconditionFalse,
         PreconditionTrue, Bump, FindSkip, FindInternal, FindAborted, FindExternal,
         FoundTransition, FoundNone, AtTransition,
         AlgorithmStep, AlgorithmNested, AlgorithmBegin, AlgorithmEnd, MicroStep, Phase1Event,
         Phase1End, ExitSkip, ExitDominated, InternalAction, ExitFrom, Action, NextPhase1Event,
         NextPhase2Event, NextEvent, Phase2Event, Phase2End, EnterSkip, EnterTo, Unmark,
         Phase3Dequeue, Phase3End
    <3>3. Become(t, <<>>) /\ <<>> \in Seq(Frame) /\ Len(<<>>) = 0
      BY <3>2 DEF Unlock, ReturnVoid
    <3>4. /\ stack'[t] \in Seq(Frame) /\ Len(stack'[t]) = Len(<<>>) + Len(stack[t]) - 1
          /\ \A u \in Threads \ {t} : stack'[u] = stack[u]
      BY <2>3, <3>3, BecomeFrames, BecomeReplaces DEF RuntimeInv
    <3>5. stack'[t] = <<>>
      BY <2>5, <3>4
    <3> QED
      BY <3>4, <3>5 DEF BottomStep
  <2>6. Len(stack[t]) > 1 \/ Len(stack[t]) = 1
    BY <2>3, AtLeastOne
  <2> QED
    BY <2>4, <2>5, <2>6
<1> QED
  BY <1>1, <1>2, <1>3 DEF Run

-----------------------------------------------------------------------------
(* Calls of a serialised client overlap only if they broadcast.            *)

Serial == WaitsAlone /\ CallsSerial

\* The outermost frame of a thread that broadcasts.
LEMMA BroadcastingBottom ==
    \A t : Broadcasting(t) <=> ~ Idle(t) /\ Bottom(stack[t]).pc \in {"lock", "unlock"}
  BY DEF Broadcasting, Idle, Bottom

LEMMA RunKeepsSerial ==
    ASSUME Serial, NEW t \in Threads, BottomStep(t)
    PROVE  Serial'
<1>1. WaitsAlone'
  <2> SUFFICES ASSUME NEW u \in Threads, stack'[u] # <<>>, Bottom(stack'[u]).pc = "lock"
               PROVE  Len(stack'[u]) = 1
    BY DEF WaitsAlone, Idle, Bottom
  <2>1. CASE u # t
    BY <2>1 DEF BottomStep, Serial, WaitsAlone, Idle, Bottom
  <2>2. CASE u = t
    <3>1. CASE Len(stack[t]) > 1 /\ Bottom(stack'[t]) = Bottom(stack[t])
      <4>1. stack[t] # <<>>
        BY <3>1
      <4>2. PICK n : n = Len(stack[t])
        OBVIOUS
      <4>3. n # 1
        <5> SUFFICES ASSUME n = 1 PROVE FALSE
          OBVIOUS
        <5>1. 1 > 1
          BY <3>1, <4>2
        <5> QED
          BY <5>1
      <4> QED
        BY <2>2, <3>1, <4>1, <4>2, <4>3 DEF Serial, WaitsAlone, Idle, Bottom
    <3> QED
      BY <2>2, <3>1 DEF BottomStep
  <2> QED
    BY <2>1, <2>2
<1>2. ASSUME Serialised, NEW u \in Threads, NEW v \in Threads, u # v,
             stack'[u] # <<>>, stack'[v] # <<>>
      PROVE  Bottom(stack'[u]).pc \in {"lock", "unlock"}
  <2>1. CASE u # t /\ v # t
    BY <1>2, <2>1, BroadcastingBottom DEF BottomStep, Serial, CallsSerial, Idle
  <2>2. CASE u # t /\ v = t
    <3>1. stack[t] # <<>>
      <4>1. Len(stack[t]) > 1 \/ Len(stack[t]) = 1
        BY <1>2, <2>2 DEF BottomStep
      <4> QED
        BY <4>1
    <3> QED
      BY <1>2, <2>2, <3>1, BroadcastingBottom DEF BottomStep, Serial, CallsSerial, Idle
  <2>3. CASE u = t
    <3>1. stack[t] # <<>>
      <4>1. Len(stack[t]) > 1 \/ Len(stack[t]) = 1
        BY <1>2, <2>3 DEF BottomStep
      <4> QED
        BY <4>1
    <3>2. Bottom(stack[t]).pc \in {"lock", "unlock"}
      BY <1>2, <2>3, <3>1, BroadcastingBottom DEF BottomStep, Serial, CallsSerial, Idle
    <3> QED
      BY <1>2, <2>3, <3>2 DEF BottomStep
  <2> QED
    BY <2>1, <2>2, <2>3
<1>3. CallsSerial'
  <2>1. \A u : Broadcasting(u)' <=> stack'[u] # <<>> /\ Bottom(stack'[u]).pc \in {"lock", "unlock"}
    BY DEF Broadcasting, Bottom
  <2> QED
    BY <1>2, <2>1 DEF CallsSerial, Idle
<1> QED
  BY <1>1, <1>3 DEF Serial

\* A client that calls something.
LEMMA CallKeepsSerial ==
    ASSUME RuntimeInv, Serial, NEW t \in Threads, NEW frames, Callable(frames), Call(t, frames),
           Serialised => \/ \A u \in Threads : Idle(u)
                         \/ /\ \A u \in Threads : Idle(u) \/ Broadcasting(u)
                            /\ Bottom(frames).pc = "lock"
    PROVE  Serial'
<1>1. /\ stack[t] = <<>> /\ stack'[t] = frames
      /\ \A u \in Threads \ {t} : stack'[u] = stack[u]
  BY DEF Call, Idle, RuntimeInv, TypeOK
<1>2. frames \in Seq(Frame) /\ \A i \in 1 .. Len(frames) : i > 1 => frames[i].pc # "lock"
  BY DEF Callable
<1>3. ASSUME frames # <<>>, Bottom(frames).pc = "lock" PROVE Len(frames) = 1
  <2>1. PICK n \in Nat : n = Len(frames) /\ n # 0
    BY <1>2, <1>3
  <2>2. n \in 1 .. Len(frames) /\ frames[n].pc = "lock"
    BY <1>3, <2>1 DEF Bottom
  <2>3. ~ (n > 1)
    BY <1>2, <2>2
  <2> QED
    BY <2>1, <2>3
<1>4. WaitsAlone'
  <2> SUFFICES ASSUME NEW u \in Threads, stack'[u] # <<>>, Bottom(stack'[u]).pc = "lock"
               PROVE  Len(stack'[u]) = 1
    BY DEF WaitsAlone, Idle, Bottom
  <2>1. CASE u # t
    BY <1>1, <2>1 DEF Serial, WaitsAlone, Idle, Bottom
  <2>2. CASE u = t
    BY <1>1, <1>3, <2>2
  <2> QED
    BY <2>1, <2>2
<1>5. ASSUME Serialised, NEW u \in Threads, NEW v \in Threads, u # v,
             stack'[u] # <<>>, stack'[v] # <<>>
      PROVE  Bottom(stack'[u]).pc \in {"lock", "unlock"}
  <2>1. CASE \A w \in Threads : Idle(w)
    BY <1>1, <1>5, <2>1 DEF Idle
  <2>2. CASE (\A w \in Threads : Idle(w) \/ Broadcasting(w)) /\ Bottom(frames).pc = "lock"
    <3>1. CASE u = t
      BY <1>1, <2>2, <3>1
    <3>2. CASE u # t
      BY <1>1, <1>5, <2>2, <3>2, BroadcastingBottom DEF Idle
    <3> QED
      BY <3>1, <3>2
  <2> QED
    BY <1>5, <2>1, <2>2
<1>6. CallsSerial'
  <2>1. \A u : Broadcasting(u)' <=> stack'[u] # <<>> /\ Bottom(stack'[u]).pc \in {"lock", "unlock"}
    BY DEF Broadcasting, Bottom
  <2> QED
    BY <1>5, <2>1 DEF CallsSerial, Idle
<1> QED
  BY <1>4, <1>6 DEF Serial

\* Every step.
LEMMA NextKeepsSerial == RuntimeInv /\ Serial /\ [Next]_vars => Serial'
<1> SUFFICES ASSUME RuntimeInv, Serial, [Next]_vars PROVE Serial'
  OBVIOUS
<1>1. ASSUME UNCHANGED stack PROVE Serial'
  BY <1>1 DEF Serial, WaitsAlone, CallsSerial, Idle, Broadcasting
<1>2. CASE UNCHANGED vars
  BY <1>1, <1>2 DEF vars, callVars
<1>3. ASSUME NEW t \in Threads, Client(t) PROVE Serial'
  <2>1. ASSUME NEW e \in Events, CallEvent(t, e) PROVE Serial'
    <3> DEFINE a == EventFrame("lock", e)
    <3>1. Callable(<<a>>) /\ a.pc = "lock"
      BY LockFrames, OneCallable DEF EventFrame, F0
    <3> HIDE DEF a
    <3>2. Bottom(<<a>>) = a
      BY DEF Bottom
    <3>3. /\ Call(t, <<a>>)
          /\ Serialised => \A u \in Threads : Idle(u) \/ Broadcasting(u)
      BY <2>1 DEF CallEvent, a
    <3> QED
      BY <3>1, <3>2, <3>3, CallKeepsSerial
  <2>2. CASE CallEnter(t)
    <3>1. Callable(EnterCall(Root, NIL))
      BY HierarchyAssumption, EnterCallable DEF StateOrNil
    <3> QED
      BY <2>2, <3>1, CallKeepsSerial DEF CallEnter, MayOwn
  <2>3. CASE CallExit(t)
    <3>1. Callable(ExitCall(Root, NIL))
      BY HierarchyAssumption, ExitCallable DEF StateOrNil
    <3> QED
      BY <2>3, <3>1, CallKeepsSerial DEF CallExit, MayOwn
  <2>4. ASSUME NEW s \in States, CallClear(t, s) \/ CallDeepClear(t, s) PROVE Serial'
    BY <1>1, <2>4 DEF CallClear, CallDeepClear, callVars
  <2> QED
    BY <1>3, <2>1, <2>2, <2>3, <2>4 DEF Client
<1>4. ASSUME NEW t \in Threads, Run(t) PROVE Serial'
  BY <1>4, RunBottom, RunKeepsSerial
<1> QED
  BY <1>2, <1>3, <1>4 DEF Next

-----------------------------------------------------------------------------
(* Who marks transitions.                                                  *)

LEMMA MarkChanges ==
    ASSUME RuntimeInv, NEW t \in Threads, Client(t) \/ Run(t)
    PROVE  \/ UNCHANGED markVars
           \/ FindInternal(t) \/ FindAborted(t) \/ FindExternal(t) \/ ExitDominated(t) \/ Unmark(t)
<1>1. CASE Client(t)
  BY <1>1 DEF Client, CallEvent, CallEnter, CallExit, Call, CallClear, CallDeepClear
<1>2. CASE UserCode(t) \/ EnterStep(t) \/ ExitStep(t)
  <2>1. PlainStep(t)
    BY <1>2, UserCodeIsPlain, EnterStepIsPlain, ExitStepIsPlain
  <2> QED
    BY <2>1 DEF PlainStep
<1>3. CASE BroadcastStep(t)
  BY <1>3 DEF BroadcastStep, Lock, Unlock, BroadcastDropped, Broadcast, PreconditionFalse,
     PreconditionTrue, Bump, FindSkip, FoundTransition, FoundNone, Cancel
<1>4. CASE AlgorithmStep(t)
  BY <1>4 DEF AlgorithmStep, AlgorithmNested, AlgorithmBegin, AlgorithmEnd, MicroStep, Phase1Event,
     Phase1End, ExitSkip, InternalAction, ExitFrom, Action, NextPhase1Event, NextPhase2Event,
     NextEvent, Phase2Event, Phase2End, EnterSkip, EnterTo, Phase3Dequeue, Phase3End
<1> QED
  BY <1>1, <1>2, <1>3, <1>4 DEF Run

\* The transition that find_transition() looks at.
LEMMA FoundTyped ==
    ASSUME RuntimeInv, NEW t \in Threads, AtTransition(t, "find_transition")
    PROVE  CurTransition(Top(t)) \in Transitions /\ Top(t).e \in Events
<1>1. /\ Top(t) \in Frame /\ Top(t).list \in Events /\ Top(t).i > 0 /\ InList(Top(t))
      /\ Top(t).e \in Events
  BY TopTyped DEF AtTransition, FrameTyped, IteratorPCs, EventPCs
<1> QED
  BY <1>1, CurTransitionTyped

\* Unmarking.
LEMMA UnmarkShrinks ==
    ASSUME RuntimeInv, NEW t \in Threads, ExitDominated(t) \/ Unmark(t)
    PROVE  MarksShrink /\ UNCHANGED target_
<1>1. taken_ \in [Transitions -> EventOrNil]
  BY DEF RuntimeInv, TypeOK
<1> QED
  BY <1>1 DEF ExitDominated, Unmark, MarksShrink

-----------------------------------------------------------------------------
(* A transition that is marked has a target.                               *)

LEMMA NextKeepsTargets ==
    ASSUME NeverAborts
    PROVE  RuntimeInv /\ TargetsKnown /\ [Next]_vars => TargetsKnown'
<1> SUFFICES ASSUME RuntimeInv, TargetsKnown, [Next]_vars PROVE TargetsKnown'
  OBVIOUS
<1>1. taken_ \in [Transitions -> EventOrNil] /\ target_ \in [Transitions -> StateOrNil]
  BY DEF RuntimeInv, TypeOK
<1>2. ASSUME UNCHANGED markVars PROVE TargetsKnown'
  BY <1>2 DEF markVars, TargetsKnown, IsInternal
<1>3. ASSUME NEW t \in Threads, Client(t) \/ Run(t) PROVE TargetsKnown'
  <2> DEFINE tr == CurTransition(Top(t))
  <2>1. CASE ExitDominated(t) \/ Unmark(t)
    BY <2>1, UnmarkShrinks DEF TargetsKnown, MarksShrink, IsInternal
  <2>2. CASE FindInternal(t)
    <3>1. /\ tr \in Transitions /\ IsInternal(tr) /\ target_' = target_
          /\ \A x \in Transitions : x # tr => taken_'[x] = taken_[x]
      BY <1>1, <2>2, FoundTyped DEF FindInternal, MarkTaken
    <3> HIDE DEF tr
    <3> QED
      BY <3>1 DEF TargetsKnown, IsInternal
  <2>3. CASE FindAborted(t)
    BY <2>3, FoundTyped DEF FindAborted, NeverAborts
  <2>4. CASE FindExternal(t)
    <3>1. tr \in Transitions /\ \A x \in Transitions : x # tr => taken_'[x] = taken_[x]
      BY <1>1, <2>4, FoundTyped DEF FindExternal, MarkTaken
    <3>2. PICK to : to # NIL /\ target_' = [target_ EXCEPT ![tr] = to]
      BY <2>4 DEF FindExternal
    <3> HIDE DEF tr
    <3>3. target_'[tr] # NIL /\ \A x \in Transitions : x # tr => target_'[x] = target_[x]
      BY <1>1, <3>1, <3>2
    <3> QED
      BY <3>1, <3>3 DEF TargetsKnown, IsInternal
  <2> QED
    BY <1>2, <1>3, <2>1, <2>2, <2>3, <2>4, MarkChanges
<1> QED
  BY <1>2, <1>3 DEF Next, vars, markVars

\* In a machine whose target functions never return null, Phase II dereferences
\* no null target: a transition that is marked when it is reached has one.
THEOREM TargetsPresent ==
    ASSUME NeverAborts
    PROVE  Spec => []TargetsNotNull
<1>1. Init => TargetsKnown
  BY DEF Init, TargetsKnown
<1>2. ProcessingInv /\ TargetsKnown => TargetsNotNull
  <2> SUFFICES ASSUME ProcessingInv, TargetsKnown, NEW t \in Threads, AtTransition(t, "enter_to"),
                      ~ IsInternal(CurTransition(Top(t))),
                      taken_[CurTransition(Top(t))] = Top(t).e
               PROVE  target_[CurTransition(Top(t))] # NIL
    BY DEF TargetsNotNull
  <2>1. RuntimeInv /\ IteratesChain
    BY DEF ProcessingInv, RefinementInv
  <2>2. PICK f : f = Top(t)
    OBVIOUS
  <2>3. /\ f \in Frame /\ f.list \in Events /\ f.i > 0 /\ InList(f) /\ f.pc = "enter_to"
        /\ stack[t] # <<>>
    BY <2>1, <2>2, TopTyped DEF AtTransition, FrameTyped, IteratorPCs
  <2>4. CurTransition(f) \in Transitions
    BY <2>3, CurTransitionTyped
  <2>5. f \in AlgorithmFrames /\ f.pc \in StepPCs /\ f.pc \in EnterPCs
    <3>1. f \in Frames
      BY <2>1, <2>2, <2>3, FramesSplit DEF RuntimeInv
    <3> QED
      BY <2>3, <3>1 DEF AlgorithmFrames, AlgorithmPCs, StepPCs, EnterPCs
  <2>6. f.q \in Nat /\ f.q > 0 /\ f.n \in Nat /\ f.n <= Len(event_queue_)
    BY <2>1, <2>5, AlgorithmFrameTyped
  <2>7. f.q <= f.n /\ f.e = event_queue_[f.q]
    BY <2>1, <2>5 DEF IteratesChain
  <2>8. event_queue_ \in Seq(Events) /\ f.q \in 1 .. Len(event_queue_)
    BY <2>1, <2>6, <2>7 DEF RuntimeInv, TypeOK
  <2>9. f.e # NIL
    BY <2>7, <2>8, HierarchyAssumption
  <2> QED
    BY <2>2, <2>4, <2>9 DEF TargetsKnown
<1>3. ProcessingInv => RuntimeInv
  BY DEF ProcessingInv, RefinementInv
<1> QED
  BY <1>1, <1>2, <1>3, NextKeepsTargets, ProcessingInvariant, PTL DEF Spec

-----------------------------------------------------------------------------
(* The marked transitions of a state.                                      *)

Single == MarkedDisabled /\ AtMostOneTransition

\* Code outside broadcast() and algorithm() does not run while an event is
\* evaluated: not in the same thread, nor, of a serialised client, in another.
LEMMA NobodyEvaluates ==
    ASSUME RuntimeInv, BroadcastOnTop, Serial, Serialised, NEW t \in Threads, stack[t] # <<>>,
           Top(t).pc \notin LockedPCs \cup {"lock"}
    PROVE  BroadcastFrames = {}
<1> SUFFICES ASSUME NEW u \in Threads, NEW i \in 1 .. Len(stack[u]),
                    stack[u][i].pc \in BroadcastPCs
             PROVE  FALSE
  BY DEF BroadcastFrames, Frames
<1>1. stack[u][i].pc \in LockedPCs
  BY DEF BroadcastPCs, LockedPCs
<1>2. owner = u
  BY <1>1 DEF RuntimeInv, StackInv, BroadcastsExclude, HasFrame
<1>3. stack[u] \in Seq(Frame) /\ stack[t] \in Seq(Frame)
  BY DEF RuntimeInv, TypeOK
<1>4. stack[u] # <<>> /\ i = 1
  BY <1>3 DEF BroadcastOnTop
<1>5. Top(u) = stack[u][1] /\ Top(t) = stack[t][1]
  BY <1>4, TopIsFirst DEF RuntimeInv
<1>6. u # t
  BY <1>1, <1>4, <1>5
<1>7. Bottom(stack[t]).pc \in {"lock", "unlock"}
  BY <1>4, <1>6, BroadcastingBottom DEF Serial, CallsSerial, Idle
<1>8. PICK n \in Nat : n = Len(stack[t]) /\ n > 0
  BY <1>3
<1>9. CASE Bottom(stack[t]).pc = "lock"
  <2>1. Len(stack[t]) = 1
    BY <1>9 DEF Serial, WaitsAlone, Idle, Bottom
  <2> QED
    BY <1>5, <1>9, <2>1 DEF Bottom
<1>10. CASE Bottom(stack[t]).pc = "unlock"
  <2>1. n \in 1 .. Len(stack[t]) /\ stack[t][n].pc \in LockedPCs
    BY <1>8, <1>10 DEF Bottom, LockedPCs
  <2>2. owner = t
    BY <2>1 DEF RuntimeInv, StackInv, BroadcastsExclude, HasFrame
  <2> QED
    BY <1>2, <1>6, <2>2
<1> QED
  BY <1>7, <1>9, <1>10

\* Marks are removed and nothing is evaluated.
LEMMA ShrinkKeepsSingle ==
    ASSUME Single, MarksShrink, \A f \in BroadcastFrames' : f.pc # "find_transition"
    PROVE  Single'
<1>1. MarkedDisabled'
  BY DEF MarkedDisabled
<1>2. AtMostOneTransition'
  BY DEF Single, AtMostOneTransition, MarksShrink, IsInternal
<1> QED
  BY <1>1, <1>2 DEF Single

\* Neither marks nor states change, nor what is evaluated.
LEMMA StillKeepsSingle ==
    ASSUME Single, UNCHANGED <<taken_, state_>>, BroadcastFrames' = BroadcastFrames
    PROVE  Single'
  BY DEF Single, MarkedDisabled, AtMostOneTransition, IsInternal

\* When an event comes to be evaluated, it marks nothing.
LEMMA UnmarkedBefore ==
    ASSUME RuntimeInv, P!ProtocolInv, MarksServed, NEW f, BroadcastFrames = {f},
           f.pc = "precondition", f.e \in Events
    PROVE  MarksNothing(f.e)
<1>1. \A k \in 1 .. Len(event_queue_) : event_queue_[k] # f.e
  BY EvaluatedNotQueued DEF EvaluatingPCs
<1>2. f.e # NIL
  BY HierarchyAssumption
<1> QED
  BY <1>1, <1>2 DEF MarksServed, MarksNothing

\* Finding transitions.
LEMMA FindKeepsSingle ==
    ASSUME NeverAborts, RuntimeInv, BroadcastOnTop, P!ProtocolInv, MarksServed, Single,
           NEW t \in Threads, FindStep(t)
    PROVE  Single'
<1>1. PICK g : FindMove(t, Top(t), g)
  BY FindMoves
<1>2. PICK f : f = Top(t)
  OBVIOUS
<1>3. /\ f \in Frame /\ f.pc \in EvaluatingPCs /\ f.e \in Events
      /\ g.pc = "find_transition" /\ g.e = f.e
      /\ BroadcastFrames = {f} /\ BroadcastFrames' = {g}
  BY <1>1, <1>2 DEF FindMove
<1>4. /\ taken_ \in [Transitions -> EventOrNil] /\ From \in [Transitions -> States]
      /\ state_ \in [States -> {INACTIVE, ACTIVE, DISABLED}]
  BY TransitionAssumption DEF RuntimeInv, TypeOK
<1>5. SUFFICES /\ \A tr \in Transitions :
                    taken_'[tr] = f.e /\ ~ IsInternal(tr) => state_'[From[tr]] # ACTIVE
               /\ AtMostOneTransition'
  BY <1>3 DEF Single, MarkedDisabled, IsInternal
<1>6. CASE PreconditionTrue(t)
  <2>1. f.pc = "precondition" /\ UNCHANGED <<taken_, state_>>
    BY <1>2, <1>6 DEF PreconditionTrue, At, markVars, treeVars
  <2>2. MarksNothing(f.e)
    BY <1>3, <2>1, UnmarkedBefore
  <2> QED
    BY <2>1, <2>2 DEF MarksNothing, Single, AtMostOneTransition, IsInternal
<1>7. CASE FindSkip(t) \/ (Bump(t) /\ At(t, "find_transition"))
  <2>1. f.pc = "find_transition" /\ UNCHANGED <<taken_, state_>>
    BY <1>2, <1>7 DEF FindSkip, AtTransition, Bump, At, markVars, treeVars
  <2> QED
    BY <1>3, <2>1 DEF Single, MarkedDisabled, AtMostOneTransition, IsInternal
<1>8. CASE FindInternal(t) \/ FindExternal(t)
  <2>1. AtTransition(t, "find_transition") /\ f.pc = "find_transition"
    BY <1>2, <1>8 DEF FindInternal, FindExternal, AtTransition, At
  <2>2. PICK tr : tr = CurTransition(f)
    OBVIOUS
  <2>3. tr \in Transitions
    BY <1>2, <2>1, <2>2, FoundTyped
  <2>4. state_[From[tr]] = ACTIVE /\ taken_' = [taken_ EXCEPT ![tr] = IF @ = NIL THEN f.e ELSE @]
    BY <1>2, <1>8, <2>2 DEF FindInternal, FindExternal, MarkTaken
  <2>5. /\ \A x \in Transitions : x # tr => taken_'[x] = taken_[x]
        /\ taken_'[tr] = IF taken_[tr] = NIL THEN f.e ELSE taken_[tr]
    BY <1>4, <2>3, <2>4
  <2>6. \A x \in Transitions : taken_[x] = f.e /\ ~ IsInternal(x) => state_[From[x]] # ACTIVE
    BY <1>3, <2>1 DEF Single, MarkedDisabled
  <2>7. CASE FindInternal(t)
    <3>1. IsInternal(tr) /\ UNCHANGED state_
      BY <1>2, <2>2, <2>7 DEF FindInternal, treeVars
    <3>2. \A x \in Transitions : ~ IsInternal(x) => taken_'[x] = taken_[x]
      BY <2>5, <3>1
    <3>3. AtMostOneTransition'
      BY <3>2 DEF Single, AtMostOneTransition, IsInternal
    <3> QED
      BY <2>6, <3>1, <3>2, <3>3
  <2>8. CASE FindExternal(t)
    <3>1. state_' = [state_ EXCEPT ![From[tr]] = DISABLED] /\ ~ IsInternal(tr)
      BY <1>2, <2>2, <2>8 DEF FindExternal
    <3>2. \A s \in States : state_[s] # ACTIVE => state_'[s] # ACTIVE
      BY <1>4, <3>1 DEF ACTIVE, DISABLED
    <3>3. state_'[From[tr]] # ACTIVE
      BY <1>4, <2>3, <3>1 DEF ACTIVE, DISABLED
    <3>4. ASSUME NEW x \in Transitions, taken_'[x] = f.e, ~ IsInternal(x)
          PROVE  state_'[From[x]] # ACTIVE
      <4>1. CASE x = tr
        BY <3>3, <4>1
      <4>2. CASE x # tr
        BY <1>4, <2>5, <2>6, <3>2, <3>4, <4>2
      <4> QED
        BY <4>1, <4>2
    <3>5. ASSUME NEW x \in Transitions, NEW y \in Transitions, x # y, From[x] = From[y],
                 ~ IsInternal(x), ~ IsInternal(y), taken_'[x] # NIL, taken_'[x] = taken_'[y]
          PROVE  FALSE
      <4>1. CASE taken_'[x] = taken_[x] /\ taken_'[y] = taken_[y]
        BY <3>5, <4>1 DEF Single, AtMostOneTransition
      <4>2. CASE taken_'[x] # taken_[x]
        <5>1. x = tr /\ taken_'[x] = f.e
          BY <2>5, <4>2
        <5>2. taken_[y] = f.e
          BY <2>5, <3>5, <5>1
        <5> QED
          BY <2>4, <2>6, <3>5, <5>1, <5>2
      <4>3. CASE taken_'[y] # taken_[y]
        <5>1. y = tr /\ taken_'[y] = f.e
          BY <2>5, <4>3
        <5>2. taken_[x] = f.e
          BY <2>5, <3>5, <5>1
        <5> QED
          BY <2>4, <2>6, <3>5, <5>1, <5>2
      <4> QED
        BY <4>1, <4>2, <4>3
    <3>6. AtMostOneTransition'
      BY <3>5 DEF AtMostOneTransition, IsInternal
    <3> QED
      BY <3>4, <3>6
  <2> QED
    BY <1>8, <2>7, <2>8
<1>9. CASE FindAborted(t)
  BY <1>9, FoundTyped DEF FindAborted, NeverAborts
<1> QED
  BY <1>6, <1>7, <1>8, <1>9 DEF FindStep

\* The other steps of broadcast(): nothing is being evaluated after them.
LEMMA BroadcastKeepsSingle ==
    ASSUME RuntimeInv, BroadcastOnTop, Single, NEW t \in Threads,
           \/ Lock(t) \/ BroadcastDropped(t) \/ Broadcast(t) \/ PreconditionFalse(t)
           \/ FoundTransition(t) \/ FoundNone(t) \/ AlgorithmNested(t)
    PROVE  Single'
<1>1. UNCHANGED markVars
  BY DEF Lock, BroadcastDropped, Broadcast, PreconditionFalse, FoundTransition, FoundNone, Cancel,
     AlgorithmNested
<1>2. CASE Lock(t)
  BY <1>1, <1>2, LockFramesMove, ShrinkKeepsSingle DEF MarksShrink, markVars
<1>3. CASE BroadcastDropped(t) \/ PreconditionFalse(t) \/ FoundNone(t) \/ AlgorithmNested(t)
  <2>1. PICK pc \in BroadcastPCs : At(t, pc)
    BY <1>3 DEF BroadcastDropped, PreconditionFalse, FoundNone, AlgorithmNested, BroadcastPCs
  <2>2. Become(t, <<>>)
    BY <1>3 DEF BroadcastDropped, PreconditionFalse, FoundNone, Cancel, AlgorithmNested, ReturnVoid
  <2>3. BroadcastFrames' = {}
    BY <2>1, <2>2, BroadcastFrameGoes
  <2> QED
    BY <1>1, <2>3, ShrinkKeepsSingle DEF MarksShrink, markVars
<1>4. CASE Broadcast(t) \/ FoundTransition(t)
  <2>1. PICK pc \in {"broadcast", "find_transition"} : At(t, pc)
    BY <1>4 DEF Broadcast, FoundTransition
  <2>2. Top(t).e \in Events /\ pc \in BroadcastPCs
    BY <2>1, TopTyped DEF FrameTyped, EventPCs, BroadcastPCs
  <2>3. PICK g : Goto(t, g) /\ g \in {EventFrame("precondition", Top(t).e), EventFrame("algorithm", NIL)}
    BY <1>4 DEF Broadcast, FoundTransition
  <2>4. g \in Frame /\ g.pc \in {"precondition", "algorithm"}
    <3>1. CASE g = EventFrame("precondition", Top(t).e)
      BY <2>2, <3>1 DEF EventFrame, F0, Frame, PCs, StateOrNil, EventOrNil
    <3>2. CASE g = EventFrame("algorithm", NIL)
      BY <3>2 DEF EventFrame, F0, Frame, PCs, StateOrNil, EventOrNil
    <3> QED
      BY <2>3, <3>1, <3>2
  <2>5. g.pc \in BroadcastPCs /\ g.pc # "find_transition"
    BY <2>4 DEF BroadcastPCs
  <2>6. BroadcastFrames' = {g}
    BY <2>1, <2>2, <2>3, <2>4, <2>5, BroadcastFrameMoves
  <2> QED
    BY <1>1, <2>5, <2>6, ShrinkKeepsSingle DEF MarksShrink, markVars
<1> QED
  BY <1>2, <1>3, <1>4

\* While algorithm() runs nothing is being evaluated.
LEMMA AlgorithmKeepsSingle ==
    ASSUME RuntimeInv, BroadcastOnTop, Single, NEW t \in Threads,
           AlgorithmStep(t) \/ (Bump(t) /\ ~ At(t, "find_transition")), ~ AlgorithmNested(t)
    PROVE  Single'
<1>1. BroadcastFrames' = {}
  <2>1. CASE AlgorithmBegin(t) \/ AlgorithmEnd(t) \/ MicroStep(t) \/ Phase3End(t)
    BY <2>1, AlgorithmFrameComes, AlgorithmFrameGoes, StepBegins, StepEnds
  <2>2. CASE Phase3Dequeue(t)
    BY <2>2, DequeueMoves DEF StepMove
  <2>3. CASE PhaseStep(t)
    <3>1. \E g : StepMove(t, Top(t), g)
      BY <2>3, PhaseIsMove
    <3> QED
      BY <3>1 DEF StepMove
  <2> QED
    BY <2>1, <2>2, <2>3 DEF AlgorithmStep, PhaseStep
<1>2. MarksShrink
  <2>1. CASE ExitDominated(t) \/ Unmark(t)
    BY <2>1, UnmarkShrinks
  <2>2. CASE ~ (ExitDominated(t) \/ Unmark(t))
    BY <2>2 DEF AlgorithmStep, AlgorithmBegin, AlgorithmEnd, MicroStep, Phase1Event, Phase1End,
       ExitSkip, InternalAction, ExitFrom, Action, NextPhase1Event, NextPhase2Event, NextEvent,
       Phase2Event, Phase2End, EnterSkip, EnterTo, Phase3Dequeue, Phase3End, Bump, markVars,
       MarksShrink
  <2> QED
    BY <2>1, <2>2
<1> QED
  BY <1>1, <1>2, ShrinkKeepsSingle

\* Every step of a thread.
LEMMA NextKeepsSingle ==
    ASSUME NeverAborts, Serialised
    PROVE  RuntimeInv /\ ServiceInv /\ P!ProtocolInv /\ MarksServed /\ Serial /\ Single /\ [Next]_vars
               => Single'
<1> SUFFICES ASSUME RuntimeInv, ServiceInv, P!ProtocolInv, MarksServed, Serial, Single, [Next]_vars
             PROVE  Single'
  OBVIOUS
<1>1. BroadcastOnTop
  BY DEF ServiceInv
<1>2. CASE UNCHANGED vars
  <2>1. UNCHANGED <<stack, taken_, state_>>
    BY <1>2 DEF vars, callVars, markVars, treeVars
  <2>2. BroadcastFrames' = BroadcastFrames
    BY <2>1 DEF BroadcastFrames, Frames
  <2> QED
    BY <2>1, <2>2, StillKeepsSingle
<1>3. ASSUME NEW t \in Threads, Client(t) \/ Run(t) PROVE Single'
  <2>1. CASE Client(t)
    <3>1. UNCHANGED <<taken_, state_>>
      BY <2>1 DEF Client, CallEvent, CallEnter, CallExit, Call, CallClear, CallDeepClear,
         markVars, treeVars
    <3> QED
      BY <1>1, <2>1, <3>1, ClientFramesStay, StillKeepsSingle DEF FramesStay
  <2>2. CASE UserCode(t) \/ EnterStep(t) \/ ExitStep(t)
    <3>1. PlainStep(t)
      BY <2>2, UserCodeIsPlain, EnterStepIsPlain, ExitStepIsPlain
    <3>2. stack[t] # <<>> /\ Top(t).pc \notin LockedPCs \cup {"lock"}
      <4>1. PICK pc \in StatePCs \cup {"user", "return_true"} : At(t, pc)
        BY <2>2 DEF UserCode, UserBroadcast, UserReturn, EnterStep, StateEnter, ParentEntered,
           SwitchActiveChildTo, Activate, ClusterEnter, SetEnter, SetEnterChildren, ReturnTrue,
           ExitStep, StateExit, ExitParent, ClusterExit, SetExit, SetExitChildren, StatePCs
      <4> QED
        BY <3>1, <4>1, TopTyped DEF PlainStep, StatePCs
    <3>3. BroadcastFrames' = {}
      BY <1>1, <3>1, <3>2, NobodyEvaluates, PlainFramesStay DEF FramesStay
    <3> QED
      BY <3>1, <3>3, ShrinkKeepsSingle DEF PlainStep, MarksShrink, markVars
  <2>3. CASE Unlock(t)
    <3>1. UNCHANGED <<taken_, state_>>
      BY <2>3 DEF Unlock, markVars, treeVars
    <3> QED
      BY <1>1, <2>3, <3>1, UnlockFramesStay, StillKeepsSingle DEF FramesStay
  <2>4. CASE FindStep(t)
    BY <1>1, <2>4, FindKeepsSingle
  <2>5. CASE \/ Lock(t) \/ BroadcastDropped(t) \/ Broadcast(t) \/ PreconditionFalse(t)
             \/ FoundTransition(t) \/ FoundNone(t) \/ AlgorithmNested(t)
    BY <1>1, <2>5, BroadcastKeepsSingle
  <2>6. CASE AlgorithmStep(t) /\ ~ AlgorithmNested(t)
    BY <1>1, <2>6, AlgorithmKeepsSingle
  <2>7. CASE Bump(t) /\ ~ At(t, "find_transition")
    <3>1. ~ AlgorithmNested(t)
      BY <1>1, <2>7, BumpMoves, TopTyped DEF AlgorithmNested
    <3> QED
      BY <1>1, <2>7, <3>1, AlgorithmKeepsSingle
  <2> QED
    BY <1>3, <2>1, <2>2, <2>3, <2>4, <2>5, <2>6, <2>7 DEF Run, BroadcastStep, FindStep
<1> QED
  BY <1>2, <1>3 DEF Next

\* In a machine whose target functions never return null, and whose client calls
\* enter(), exit() and clear() only while no other call is in progress, an event
\* takes at most one external transition from a state.
THEOREM SingleTransition ==
    ASSUME NeverAborts, Serialised
    PROVE  Spec => []AtMostOneTransition
<1>1. Init => Serial
  BY DEF Init, Serial, WaitsAlone, CallsSerial, Idle
<1>2. Init => Single
  <2> SUFFICES ASSUME Init PROVE Single
    OBVIOUS
  <2>1. /\ \A t \in Threads : stack[t] = <<>>
        /\ \A tr \in Transitions : taken_[tr] = NIL
    BY DEF Init
  <2>2. \A t \in Threads : \A i \in 1 .. Len(stack[t]) : FALSE
    BY <2>1
  <2>3. BroadcastFrames = {}
    BY <2>2 DEF BroadcastFrames, Frames
  <2> QED
    BY <2>1, <2>3 DEF Single, MarkedDisabled, AtMostOneTransition
<1>3. Init => MarksServed
  BY DEF Init, MarksServed
<1>4. ProcessingInv => RuntimeInv /\ ServiceInv /\ P!ProtocolInv
  BY SameProtocol DEF ProcessingInv, RefinementInv
<1>5. Single => AtMostOneTransition
  BY DEF Single
<1> QED
  BY <1>1, <1>2, <1>3, <1>4, <1>5, NextKeepsSerial, NextServes, NextKeepsSingle,
     ProcessingInvariant, PTL DEF Spec
=============================================================================
