---------------------------- MODULE EventProtocol ----------------------------
(***************************************************************************)
(* What the run-time library promises about the life of an event, whatever *)
(* states, transitions and user code a machine has.                        *)
(*                                                                         *)
(* A thread that holds the machine's mutex begins a broadcast: the event   *)
(* and its base events are in progress.  The broadcast is cancelled (its   *)
(* precondition is false or it has no transition) or accepted (queued).    *)
(* The algorithm takes the queue in micro-steps, each retiring exactly the *)
(* events that were queued when it began; events accepted meanwhile wait   *)
(* for the next one.  The mutex is given up only when nothing is pending.  *)
(*                                                                         *)
(* ChsmRuntime implements this specification: see RuntimeRefinement.       *)
(***************************************************************************)
EXTENDS Integers, Sequences, FiniteSets

CONSTANTS
    Threads,
    Events,
    ChainOf,        \* for an event, itself and its base events
    NIL

ASSUME ProtocolAssumption ==
    /\ NIL \notin Events /\ NIL \notin Threads
    /\ IsFiniteSet(Events)
    /\ ChainOf \in [Events -> SUBSET Events]
    /\ \A e \in Events : e \in ChainOf[e]

VARIABLES
    holder,         \* the thread that holds machine::mutex_, or NIL
    evaluating,     \* the event broadcast() is evaluating, or NIL
    queue,          \* machine::event_queue_
    running,        \* machine::in_progress_
    left,           \* events of the current micro-step that are not dequeued
    count           \* event::in_progress_

protocolVars == <<holder, evaluating, queue, running, left, count>>

Init ==
    /\ holder = NIL
    /\ evaluating = NIL
    /\ queue = <<>>
    /\ running = FALSE
    /\ left = 0
    /\ count = [e \in Events |-> 0]

-----------------------------------------------------------------------------
Acquire(t) ==
    /\ holder = NIL
    /\ holder' = t
    /\ UNCHANGED <<evaluating, queue, running, left, count>>

\* Mutant: an event in progress is broadcast again.
BeginAgain(t, e) ==
    /\ holder = t /\ evaluating = NIL
    /\ evaluating' = e
    /\ count' = [b \in Events |-> IF b \in ChainOf[e] THEN count[b] + 1 ELSE count[b]]
    /\ UNCHANGED <<holder, queue, running, left>>

\* event::broadcast(): an event that is in progress is not broadcast again.
Begin(t, e) ==
    /\ holder = t /\ evaluating = NIL
    /\ count[e] = 0
    /\ evaluating' = e
    /\ count' = [b \in Events |-> IF b \in ChainOf[e] THEN count[b] + 1 ELSE count[b]]
    /\ UNCHANGED <<holder, queue, running, left>>

\* event::broadcasted()
Finish(e) ==
    count' = [b \in Events |-> IF b \in ChainOf[e] THEN count[b] - 1 ELSE count[b]]

Cancel(t) ==
    /\ holder = t /\ evaluating # NIL
    /\ Finish(evaluating)
    /\ evaluating' = NIL
    /\ UNCHANGED <<holder, queue, running, left>>

Accept(t) ==
    /\ holder = t /\ evaluating # NIL
    /\ queue' = Append(queue, evaluating)
    /\ evaluating' = NIL
    /\ UNCHANGED <<holder, running, left, count>>

\* machine::algorithm()
Start(t) ==
    /\ holder = t /\ evaluating = NIL /\ ~ running /\ queue # <<>>
    /\ running' = TRUE
    /\ UNCHANGED <<holder, evaluating, queue, left, count>>

MicroStep(t) ==
    /\ holder = t /\ evaluating = NIL /\ running /\ left = 0 /\ queue # <<>>
    /\ left' = Len(queue)
    /\ UNCHANGED <<holder, evaluating, queue, running, count>>

\* Mutant: an event is dequeued outside its micro-step.
RetireEarly(t) ==
    /\ holder = t /\ evaluating = NIL /\ running /\ queue # <<>>
    /\ Finish(Head(queue))
    /\ queue' = Tail(queue)
    /\ left' = IF left > 0 THEN left - 1 ELSE 0
    /\ UNCHANGED <<holder, evaluating, running>>

Retire(t) ==
    /\ holder = t /\ evaluating = NIL /\ running /\ left > 0
    /\ Finish(Head(queue))
    /\ queue' = Tail(queue)
    /\ left' = left - 1
    /\ UNCHANGED <<holder, evaluating, running>>

Stop(t) ==
    /\ holder = t /\ evaluating = NIL /\ running /\ left = 0 /\ queue = <<>>
    /\ running' = FALSE
    /\ UNCHANGED <<holder, evaluating, queue, left, count>>

Release(t) ==
    /\ holder = t /\ evaluating = NIL /\ ~ running /\ queue = <<>>
    /\ holder' = NIL
    /\ UNCHANGED <<evaluating, queue, running, left, count>>

Next ==
    \E t \in Threads :
        \/ Acquire(t) \/ Cancel(t) \/ Accept(t) \/ Start(t) \/ MicroStep(t)
        \/ Retire(t) \/ Stop(t) \/ Release(t)
        \/ \E e \in Events : Begin(t, e)

Spec == Init /\ [][Next]_protocolVars

-----------------------------------------------------------------------------
TypeOK ==
    /\ holder \in Threads \cup {NIL}
    /\ evaluating \in Events \cup {NIL}
    /\ queue \in Seq(Events)
    /\ running \in BOOLEAN
    /\ left \in Nat
    /\ count \in [Events -> Nat]

Queued == {queue[i] : i \in 1 .. Len(queue)}

\* Broadcasts begun and not finished.
Pending == Queued \cup ({evaluating} \ {NIL})

\* event::in_progress_ is the number of pending broadcasts of the event and of
\* the events derived from it, so "in progress" and "pending" agree.
CountsPending ==
    \A e \in Events : count[e] = Cardinality({d \in Pending : e \in ChainOf[d]})

\* No event is queued twice, nor again while it is being evaluated.
PendingOnce ==
    /\ \A i, j \in 1 .. Len(queue) : i # j => queue[i] # queue[j]
    /\ evaluating \notin Queued

\* A base event is not broadcast while an event derived from it is pending: it
\* cannot come to stand behind it in the queue.
DerivedLast ==
    \A i \in 1 .. Len(queue) :
        /\ \A j \in i + 1 .. Len(queue) : queue[j] \notin ChainOf[queue[i]]
        /\ evaluating \notin ChainOf[queue[i]]

\* The events a micro-step has yet to dequeue are all in the queue.
StepWithinQueue == left <= Len(queue)

\* An event still waiting is waiting for somebody: the mutex is held, and by a
\* thread that runs the algorithm or is about to.
NothingAbandoned == holder = NIL => evaluating = NIL /\ queue = <<>> /\ ~ running /\ left = 0

\* The inductive invariant.
ProtocolInv ==
    /\ TypeOK
    /\ CountsPending
    /\ PendingOnce
    /\ DerivedLast
    /\ StepWithinQueue
    /\ NothingAbandoned
    /\ evaluating # NIL => holder # NIL

\* The queue cannot outgrow the number of events of the machine.
QueueBounded == Len(queue) <= Cardinality(Events)

\* An event is not dequeued in the micro-step in which it was accepted: a
\* micro-step removes only the events that were queued when it began.
FirstInFirstOut ==
    [][ \/ left > 0 /\ queue' = Tail(queue)
        \/ \E e \in Events : e \notin Queued /\ queue' = Append(queue, e) ]_queue

=============================================================================
