-------------------------- MODULE RuntimeRefinement --------------------------
(***************************************************************************)
(* The run-time library implements the event protocol.  Of all the frames  *)
(* on the call stacks, two carry the state of the protocol: the one frame  *)
(* of algorithm(), which holds events_in_step, and the one frame of        *)
(* broadcast(), which holds the event that is evaluated.  Recursive        *)
(* locking and everything done to states and transitions are stuttering    *)
(* steps.                                                                  *)
(***************************************************************************)
EXTENDS ChsmRuntime

\* Every frame of every call stack.
Frames == UNION {{stack[t][i] : i \in 1 .. Len(stack[t])} : t \in Threads}

\* event::broadcast() once it holds the mutex, until it is in algorithm().
BroadcastPCs == {"broadcast", "precondition", "find_transition", "algorithm"}

\* ... while it has marked the event and decides whether to queue it.
EvaluatingPCs == {"precondition", "find_transition"}

BroadcastFrames == {f \in Frames : f.pc \in BroadcastPCs}

AlgorithmFrames == {f \in Frames : f.pc \in AlgorithmPCs}

\* The event that is being evaluated.
EvaluatedIn(frames) ==
    IF \E f \in frames : f.pc \in EvaluatingPCs
    THEN (CHOOSE f \in frames : f.pc \in EvaluatingPCs).e ELSE NIL

Evaluating == EvaluatedIn(BroadcastFrames)

\* The events that the micro-step has yet to dequeue.
LeftIn(frames) ==
    IF \E f \in frames : f.pc \in StepPCs
    THEN (CHOOSE f \in frames : f.pc \in StepPCs).n ELSE 0

Left == LeftIn(AlgorithmFrames)

ChainOf == [e \in Events |-> Chain(e)]

Protocol == INSTANCE EventProtocol WITH
    holder     <- owner,
    evaluating <- Evaluating,
    queue      <- event_queue_,
    running    <- in_progress_,
    left       <- Left,
    count      <- in_progress

\* Every behaviour of the library is one of the event protocol.
ImplementsProtocol == Protocol!Spec

-----------------------------------------------------------------------------
(* Why it does: who is responsible for the events in the queue.            *)

\* broadcast() calls user code only through algorithm().
BroadcastOnTop ==
    \A t \in Threads : \A i \in 2 .. Len(stack[t]) : stack[t][i].pc \notin BroadcastPCs

\* While machine::in_progress_ is set, somebody runs algorithm().
RunningHasFrame == in_progress_ => AlgorithmFrames # {}

\* While an event is queued, somebody runs algorithm() or is about to; and who
\* is about to finds an event.
QueueServed ==
    /\ event_queue_ # <<>> =>
         AlgorithmFrames # {} \/ \E f \in BroadcastFrames : f.pc = "algorithm"
    /\ \A f \in BroadcastFrames : f.pc = "algorithm" => event_queue_ # <<>>

ServiceInv == BroadcastOnTop /\ RunningHasFrame /\ QueueServed

\* The inductive invariant behind the refinement.
RefinementInv == RuntimeInv /\ ServiceInv /\ Protocol!ProtocolInv

=============================================================================
