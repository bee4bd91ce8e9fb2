--------------------------- MODULE EventProcessing ---------------------------
(***************************************************************************)
(* What a micro-step does with the events it takes from the queue, and why *)
(* nothing comes in its way: actions broadcast further events, which find  *)
(* transitions, mark them and store parameters while the micro-step is     *)
(* still iterating the events before them.                                 *)
(***************************************************************************)
EXTENDS RuntimeRefinement

\* Phases I and II, within an event.
ExitPCs == {"exit_from", "action"}

EnterPCs == {"enter_to", "unmark"}

\* The transitions on an event and on its base events.
TransitionsOn(e) ==
    UNION {{TransitionList[b][i] : i \in 1 .. Len(TransitionList[b])} : b \in Chain(e)}

\* What const_iterator still has to visit, the current transition included.
Remaining(f) ==
    {TransitionList[f.list][i] : i \in f.i .. Len(TransitionList[f.list])}
        \cup (IF Base[f.list] = NIL THEN {} ELSE TransitionsOn(Base[f.list]))

\* An iterator stays within the base events of the event it was made for, and
\* the events of a micro-step stay where they are in the queue.
IteratesChain ==
    /\ \A f \in BroadcastFrames : f.pc = "find_transition" => f.list \in Chain(f.e)
    /\ \A f \in AlgorithmFrames :
          /\ f.pc \in ExitPCs \cup EnterPCs =>
               f.q <= f.n /\ f.e = event_queue_[f.q] /\ f.list \in Chain(f.e)
          /\ f.pc = "phase1" => f.q <= f.n + 1

\* The first event in the queue that Phase I has yet to take.
NextExit(f) ==
    CASE f.pc = "micro_step" -> 1
      [] f.pc = "phase1"     -> f.q
      [] f.pc \in ExitPCs    -> f.q + 1
      [] OTHER               -> f.n + 1

\* Until then an event has the parameters it was broadcast with: a base event's
\* block is not overwritten by a derived event that is processed before.
ParamsKept ==
    /\ \A k \in 1 .. Len(event_queue_) :
          (\A f \in AlgorithmFrames : k >= NextExit(f)) =>
              param_block_[event_queue_[k]] = ParamBlock(event_queue_[k])
    /\ \A f \in BroadcastFrames : f.pc \in EvaluatingPCs => param_block_[f.e] = ParamBlock(f.e)

\* In Phase I the base events have those of the event that is processed.
ParamsShared ==
    \A f \in AlgorithmFrames : f.pc \in ExitPCs =>
        \A b \in Chain(f.e) : param_block_[b] = ParamBlock(f.e)

\* A transition is marked by an event that it is on, or by a derived one.
MarkedOnChain ==
    \A tr \in Transitions : taken_[tr] # NIL => tr \in TransitionsOn(taken_[tr])

MarksNothing(e) == \A tr \in Transitions : taken_[tr] # e

\* Phase II has taken the first events of the micro-step; they mark nothing any
\* more, and the current event marks nothing that its iterator has passed.
MarksEntered ==
    \A f \in AlgorithmFrames :
        /\ f.pc \in EnterPCs \cup {"phase2"} =>
             \A k \in 1 .. f.n : k < f.q => MarksNothing(event_queue_[k])
        /\ f.pc = "phase3" => \A k \in 1 .. f.n : MarksNothing(event_queue_[k])
        /\ f.pc \in EnterPCs => \A tr \in Transitions : taken_[tr] = f.e => tr \in Remaining(f)

\* A mark is a promise: whoever marked the transition is in the queue, or will be
\* as it has found a transition.
MarksServed ==
    \A tr \in Transitions : taken_[tr] # NIL =>
        \/ \E k \in 1 .. Len(event_queue_) : event_queue_[k] = taken_[tr]
        \/ \E f \in BroadcastFrames : f.pc = "find_transition" /\ f.found /\ f.e = taken_[tr]

\* The inductive invariant behind ActionParams and ProcessedBeforeDequeued.
ProcessingInv ==
    /\ RefinementInv
    /\ IteratesChain
    /\ ParamsKept /\ ParamsShared
    /\ MarkedOnChain /\ MarksEntered

-----------------------------------------------------------------------------
(* Why of the transitions from one state an event marks only one: marking  *)
(* it disables the state, and nobody enables it before the event has been  *)
(* queued.                                                                 *)

\* A thread that waits for the mutex in its outermost call has called nothing.
WaitsAlone ==
    \A t \in Threads :
        ~ Idle(t) /\ stack[t][Len(stack[t])].pc = "lock" => Len(stack[t]) = 1

\* Of a serialised client, calls overlap only if they all broadcast.
CallsSerial ==
    Serialised => \A t, u \in Threads :
        t # u /\ ~ Idle(t) /\ ~ Idle(u) => Broadcasting(t) /\ Broadcasting(u)

\* A state that the evaluated event makes a transition from is disabled.
MarkedDisabled ==
    \A f \in BroadcastFrames : f.pc = "find_transition" =>
        \A tr \in Transitions :
            taken_[tr] = f.e /\ ~ IsInternal(tr) => state_[From[tr]] # ACTIVE

\* A marked external transition has a target.
TargetsKnown ==
    \A tr \in Transitions : taken_[tr] # NIL /\ ~ IsInternal(tr) => target_[tr] # NIL

SingleInv == WaitsAlone /\ CallsSerial /\ MarkedDisabled /\ TargetsKnown

=============================================================================
