------------------------- MODULE EventProtocolProofs -------------------------
(***************************************************************************)
(* The event protocol for any finite set of events, any inheritance among  *)
(* them and any set of threads: ProtocolInv is an inductive invariant, and *)
(* the bound on the queue and its FIFO discipline follow from it.          *)
(***************************************************************************)
EXTENDS EventProtocol, FiniteSetTheorems, TLAPS

-----------------------------------------------------------------------------
(* Counting the pending broadcasts that keep an event in progress.         *)

\* Those of the broadcasts in P that mark event e as in progress.
Marking(P, e) == {d \in P : e \in ChainOf[d]}

\* The broadcasts of a machine are finitely many, so they can be counted.
LEMMA MarkingFinite ==
    ASSUME NEW P \in SUBSET Events, NEW e \in Events
    PROVE  /\ IsFiniteSet(Marking(P, e))
           /\ Cardinality(Marking(P, e)) \in Nat
<1>1. Marking(P, e) \in SUBSET Events
  BY DEF Marking
<1>2. IsFiniteSet(Marking(P, e))
  BY <1>1, FS_Subset, ProtocolAssumption
<1> QED
  BY <1>2, FS_CardinalityType

\* A new broadcast marks exactly the events of its chain once more.
LEMMA MarkingAdd ==
    ASSUME NEW P \in SUBSET Events, NEW x \in Events, x \notin P, NEW e \in Events
    PROVE  Cardinality(Marking(P \cup {x}, e)) =
               Cardinality(Marking(P, e)) + (IF e \in ChainOf[x] THEN 1 ELSE 0)
<1>1. CASE e \in ChainOf[x]
  <2>1. Marking(P \cup {x}, e) = Marking(P, e) \cup {x}
    BY <1>1 DEF Marking
  <2>2. x \notin Marking(P, e)
    BY DEF Marking
  <2> QED
    BY <1>1, <2>1, <2>2, MarkingFinite, FS_AddElement
<1>2. CASE e \notin ChainOf[x]
  <2>1. Marking(P \cup {x}, e) = Marking(P, e)
    BY <1>2 DEF Marking
  <2> QED
    BY <1>2, <2>1, MarkingFinite
<1> QED
  BY <1>1, <1>2

\* A finished one unmarks exactly the events of its chain.
LEMMA MarkingRemove ==
    ASSUME NEW P \in SUBSET Events, NEW x \in P, NEW e \in Events
    PROVE  Cardinality(Marking(P \ {x}, e)) =
               Cardinality(Marking(P, e)) - (IF e \in ChainOf[x] THEN 1 ELSE 0)
<1>1. /\ P \ {x} \in SUBSET Events
      /\ x \in Events
      /\ x \notin P \ {x}
      /\ (P \ {x}) \cup {x} = P
  OBVIOUS
<1>2. Cardinality(Marking(P, e)) =
          Cardinality(Marking(P \ {x}, e)) + (IF e \in ChainOf[x] THEN 1 ELSE 0)
  BY <1>1, MarkingAdd
<1>3. Cardinality(Marking(P \ {x}, e)) \in Nat
  BY <1>1, MarkingFinite
<1> QED
  BY <1>2, <1>3

-----------------------------------------------------------------------------
(* The elements of a sequence without duplicates.                          *)

Elements(s) == {s[i] : i \in 1 .. Len(s)}

Distinct(s) == \A i, j \in 1 .. Len(s) : i # j => s[i] # s[j]

\* Appending a new element.
LEMMA ElementsAppend ==
    ASSUME NEW s \in Seq(Events), NEW x \in Events, x \notin Elements(s), Distinct(s)
    PROVE  /\ Append(s, x) \in Seq(Events)
           /\ Elements(Append(s, x)) = Elements(s) \cup {x}
           /\ Distinct(Append(s, x))
           /\ Len(Append(s, x)) = Len(s) + 1
<1>1. /\ Append(s, x) \in Seq(Events)
      /\ Len(Append(s, x)) = Len(s) + 1
      /\ \A i \in 1 .. Len(s) : Append(s, x)[i] = s[i]
      /\ Append(s, x)[Len(s) + 1] = x
      /\ Len(s) \in Nat
  OBVIOUS
<1>2. 1 .. Len(Append(s, x)) = (1 .. Len(s)) \cup {Len(s) + 1}
  BY <1>1
<1>3. Elements(Append(s, x)) = Elements(s) \cup {x}
  BY <1>1, <1>2 DEF Elements
<1>4. Distinct(Append(s, x))
  BY <1>1, <1>2 DEF Distinct, Elements
<1> QED
  BY <1>1, <1>3, <1>4

\* Removing the first element.
LEMMA ElementsTail ==
    ASSUME NEW s \in Seq(Events), s # <<>>, Distinct(s)
    PROVE  /\ Tail(s) \in Seq(Events)
           /\ Head(s) \in Elements(s)
           /\ Elements(Tail(s)) = Elements(s) \ {Head(s)}
           /\ Distinct(Tail(s))
           /\ Len(Tail(s)) = Len(s) - 1
<1>1. /\ Tail(s) \in Seq(Events)
      /\ Len(s) \in Nat /\ Len(s) > 0
      /\ Len(Tail(s)) = Len(s) - 1
      /\ \A i \in 1 .. Len(Tail(s)) : Tail(s)[i] = s[i + 1]
      /\ Head(s) = s[1]
  OBVIOUS
<1>2. Head(s) \in Elements(s)
  BY <1>1 DEF Elements
<1>3. Distinct(Tail(s))
  BY <1>1 DEF Distinct
<1>4. Elements(Tail(s)) \subseteq Elements(s) \ {Head(s)}
  BY <1>1 DEF Elements, Distinct
<1>5. ASSUME NEW y \in Elements(s) \ {Head(s)}
      PROVE  y \in Elements(Tail(s))
  <2>1. PICK i \in 1 .. Len(s) : y = s[i]
    BY DEF Elements
  <2>2. i - 1 \in 1 .. Len(Tail(s))
    BY <2>1, <1>1
  <2>3. Tail(s)[i - 1] = y
    BY <2>1, <2>2, <1>1
  <2> QED
    BY <2>2, <2>3 DEF Elements
<1> QED
  BY <1>1, <1>2, <1>3, <1>4, <1>5

\* Pending broadcasts are events.
LEMMA PendingEvents ==
    ASSUME TypeOK
    PROVE  Pending \in SUBSET Events /\ Queued = Elements(queue)
  BY DEF TypeOK, Pending, Queued, Elements

\* A pending broadcast keeps its event and the base events of it in progress.
LEMMA PendingCounted ==
    ASSUME TypeOK, CountsPending, NEW d \in Pending, NEW e \in ChainOf[d]
    PROVE  count[e] \in Nat /\ count[e] > 0
<1>1. Pending \in SUBSET Events /\ e \in Events
  BY PendingEvents, ProtocolAssumption
<1>2. count[e] = Cardinality(Marking(Pending, e)) /\ d \in Marking(Pending, e)
  BY <1>1 DEF CountsPending, Marking
<1> QED
  BY <1>1, <1>2, MarkingFinite, FS_EmptySet

-----------------------------------------------------------------------------
(* Each conjunct of the invariant under each action.                       *)

\* The base events of what is pending are not broadcast, so what is queued later
\* is not a base event of what is queued earlier.
LEMMA DerivedLastStep ==
    ASSUME TypeOK, CountsPending, DerivedLast, NEW t \in Threads,
           \/ Acquire(t) \/ Cancel(t) \/ Accept(t) \/ Start(t) \/ MicroStep(t)
           \/ (Retire(t) /\ queue # <<>>) \/ Stop(t) \/ Release(t)
           \/ \E e \in Events : Begin(t, e)
    PROVE  DerivedLast'
<1>1. ASSUME NEW i \in 1 .. Len(queue) PROVE queue[i] \in Events /\ queue[i] \in Pending
  BY DEF TypeOK, Pending, Queued
<1>2. ASSUME NEW e \in Events, Begin(t, e), NEW i \in 1 .. Len(queue) PROVE e \notin ChainOf[queue[i]]
  <2>1. Pending \in SUBSET Events /\ Marking(Pending, e) = {}
    BY <1>2, PendingEvents, MarkingFinite, FS_EmptySet DEF Begin, CountsPending, Marking
  <2> QED
    BY <2>1, <1>1 DEF Marking
<1>3. CASE \E e \in Events : Begin(t, e)
  <2>1. PICK e \in Events : Begin(t, e)
    BY <1>3
  <2>2. queue' = queue /\ evaluating' = e
    BY <2>1 DEF Begin
  <2> QED
    BY <2>1, <2>2, <1>2 DEF DerivedLast
<1>4. CASE Accept(t)
  <2>1. queue \in Seq(Events) /\ evaluating \in Events /\ evaluating' = NIL
        /\ queue' = Append(queue, evaluating)
    BY <1>4 DEF Accept, TypeOK
  <2>2. /\ Len(queue) \in Nat /\ Len(queue') = Len(queue) + 1
        /\ \A i \in 1 .. Len(queue) : queue'[i] = queue[i]
        /\ queue'[Len(queue) + 1] = evaluating
    BY <2>1
  <2>3. ASSUME NEW i \in 1 .. Len(queue') PROVE queue'[i] \in Events
    BY <2>1, <2>2
  <2>4. ASSUME NEW i \in 1 .. Len(queue'), NEW j \in i + 1 .. Len(queue')
        PROVE  queue'[j] \notin ChainOf[queue'[i]]
    <3>1. i \in 1 .. Len(queue) /\ queue'[i] = queue[i]
      BY <2>2
    <3>2. CASE j \in i + 1 .. Len(queue)
      BY <3>1, <3>2, <2>2 DEF DerivedLast
    <3>3. CASE j = Len(queue) + 1
      BY <3>1, <3>3, <2>2 DEF DerivedLast
    <3> QED
      BY <3>2, <3>3, <2>2
  <2>5. ASSUME NEW i \in 1 .. Len(queue') PROVE evaluating' \notin ChainOf[queue'[i]]
    BY <2>1, <2>3, ProtocolAssumption
  <2> QED
    BY <2>4, <2>5 DEF DerivedLast
<1>5. CASE Retire(t) /\ queue # <<>>
  <2>1. queue \in Seq(Events) /\ evaluating' = evaluating /\ queue' = Tail(queue)
    BY <1>5 DEF Retire, TypeOK
  <2>2. /\ Len(queue) \in Nat /\ Len(queue') = Len(queue) - 1
        /\ \A i \in 1 .. Len(queue') : queue'[i] = queue[i + 1]
    BY <1>5, <2>1
  <2>3. ASSUME NEW i \in 1 .. Len(queue'), NEW j \in i + 1 .. Len(queue')
        PROVE  queue'[j] \notin ChainOf[queue'[i]]
    <3>1. i + 1 \in 1 .. Len(queue) /\ j + 1 \in (i + 1) + 1 .. Len(queue) /\ j \in 1 .. Len(queue')
      BY <2>2
    <3>2. queue'[i] = queue[i + 1] /\ queue'[j] = queue[j + 1]
      BY <3>1, <2>2
    <3> QED
      BY <3>1, <3>2 DEF DerivedLast
  <2>4. ASSUME NEW i \in 1 .. Len(queue') PROVE evaluating' \notin ChainOf[queue'[i]]
    <3>1. i + 1 \in 1 .. Len(queue) /\ queue'[i] = queue[i + 1]
      BY <2>2
    <3> QED
      BY <2>1, <3>1 DEF DerivedLast
  <2> QED
    BY <2>3, <2>4 DEF DerivedLast
<1>6. CASE Cancel(t)
  <2>1. queue' = queue /\ evaluating' = NIL
    BY <1>6 DEF Cancel
  <2>2. ASSUME NEW i \in 1 .. Len(queue) PROVE NIL \notin ChainOf[queue[i]]
    BY <1>1, ProtocolAssumption
  <2> QED
    BY <2>1, <2>2 DEF DerivedLast
<1>7. CASE Acquire(t) \/ Start(t) \/ MicroStep(t) \/ Stop(t) \/ Release(t)
  <2>1. queue' = queue /\ evaluating' = evaluating
    BY <1>7 DEF Acquire, Start, MicroStep, Stop, Release
  <2> QED
    BY <2>1 DEF DerivedLast
<1> QED
  BY <1>3, <1>4, <1>5, <1>6, <1>7

\* Before anything is broadcast nothing is in progress.
LEMMA InitInv == Init => ProtocolInv
<1> SUFFICES ASSUME Init PROVE ProtocolInv
  OBVIOUS
<1> USE DEF Init
<1>1. TypeOK
  <2>1. holder \in Threads \cup {NIL} /\ evaluating \in Events \cup {NIL}
    OBVIOUS
  <2>2. queue \in Seq(Events) /\ left \in Nat
    OBVIOUS
  <2>3. running \in BOOLEAN
    OBVIOUS
  <2>4. count \in [Events -> Nat]
    OBVIOUS
  <2> QED
    BY <2>1, <2>2, <2>3, <2>4 DEF TypeOK
<1>2. StepWithinQueue
  BY DEF StepWithinQueue
<1>3. NothingAbandoned /\ (evaluating # NIL => holder # NIL)
  BY DEF NothingAbandoned
<1>4. Queued = {} /\ Pending = {}
  BY DEF Queued, Pending
<1>5. PendingOnce
  BY <1>4 DEF PendingOnce
<1>6. DerivedLast
  BY DEF DerivedLast
<1>7. ASSUME NEW e \in Events
      PROVE  count[e] = Cardinality({d \in Pending : e \in ChainOf[d]})
  <2>1. {d \in Pending : e \in ChainOf[d]} = {}
    BY <1>4
  <2> QED
    BY <2>1, FS_EmptySet
<1> QED
  BY <1>1, <1>2, <1>3, <1>5, <1>6, <1>7 DEF ProtocolInv, CountsPending

\* A broadcast that begins: the event was not pending, since it was not in
\* progress.
LEMMA BeginInv ==
    ASSUME ProtocolInv, NEW t \in Threads, NEW e \in Events, Begin(t, e)
    PROVE  ProtocolInv'
<1> USE DEF ProtocolInv
<1>0. DerivedLast'
  BY DerivedLastStep
<1>1. TypeOK' /\ StepWithinQueue' /\ NothingAbandoned' /\ (evaluating' # NIL => holder' # NIL)
  BY ProtocolAssumption DEF Begin, TypeOK, StepWithinQueue, NothingAbandoned
<1>2. Pending \in SUBSET Events /\ Marking(Pending, e) = {}
  BY PendingEvents, MarkingFinite, FS_EmptySet DEF Begin, CountsPending, Marking
<1>3. e \notin Pending
  BY <1>2, ProtocolAssumption DEF Marking
<1>4. Queued' = Queued /\ Pending' = Pending \cup {e}
  BY ProtocolAssumption DEF Begin, Queued, Pending
<1>5. PendingOnce'
  BY <1>3, <1>4 DEF Begin, PendingOnce, Queued, Pending
<1>6. ASSUME NEW b \in Events
      PROVE  count'[b] = Cardinality({d \in Pending' : b \in ChainOf[d]})
  <2>1. Cardinality(Marking(Pending \cup {e}, b)) =
            Cardinality(Marking(Pending, b)) + (IF b \in ChainOf[e] THEN 1 ELSE 0)
    BY <1>2, <1>3, MarkingAdd
  <2>2. count[b] = Cardinality(Marking(Pending, b)) /\ count[b] \in Nat
    BY DEF CountsPending, Marking, TypeOK
  <2>3. count'[b] = IF b \in ChainOf[e] THEN count[b] + 1 ELSE count[b]
    BY DEF Begin
  <2> QED
    BY <1>4, <2>1, <2>2, <2>3 DEF Marking
<1> QED
  BY <1>0, <1>1, <1>5, <1>6 DEF CountsPending

\* Finishing a pending broadcast keeps the counters exact.
LEMMA FinishCounts ==
    ASSUME ProtocolInv, NEW e \in Pending, Finish(e), Pending' = Pending \ {e}
    PROVE  CountsPending' /\ count' \in [Events -> Nat]
<1> USE DEF ProtocolInv
<1>1. Pending \in SUBSET Events
  BY PendingEvents
<1>2. ASSUME NEW b \in Events
      PROVE  /\ count'[b] = Cardinality({d \in Pending' : b \in ChainOf[d]})
             /\ count'[b] \in Nat
  <2>1. Cardinality(Marking(Pending \ {e}, b)) =
            Cardinality(Marking(Pending, b)) - (IF b \in ChainOf[e] THEN 1 ELSE 0)
    BY <1>1, MarkingRemove
  <2>2. count[b] = Cardinality(Marking(Pending, b)) /\ count[b] \in Nat
    BY DEF CountsPending, Marking, TypeOK
  <2>3. count'[b] = IF b \in ChainOf[e] THEN count[b] - 1 ELSE count[b]
    BY DEF Finish
  <2>4. Pending \ {e} \in SUBSET Events
    BY <1>1
  <2>5. Cardinality(Marking(Pending \ {e}, b)) \in Nat
    BY <2>4, MarkingFinite
  <2> QED
    BY <2>1, <2>2, <2>3, <2>5 DEF Marking
<1>3. count' = [b \in Events |-> count'[b]]
  BY DEF Finish
<1> QED
  BY <1>2, <1>3 DEF CountsPending

\* A cancelled broadcast.
LEMMA CancelInv ==
    ASSUME ProtocolInv, NEW t \in Threads, Cancel(t)
    PROVE  ProtocolInv'
<1> USE DEF ProtocolInv
<1>0. DerivedLast'
  BY DerivedLastStep
<1>1. Queued' = Queued /\ evaluating \in Pending /\ Pending' = Pending \ {evaluating}
  BY DEF Cancel, Queued, Pending, PendingOnce
<1>2. CountsPending' /\ count' \in [Events -> Nat]
  BY <1>1, FinishCounts DEF Cancel
<1>3. TypeOK' /\ StepWithinQueue' /\ NothingAbandoned' /\ (evaluating' # NIL => holder' # NIL)
  BY <1>2, ProtocolAssumption DEF Cancel, TypeOK, StepWithinQueue, NothingAbandoned
<1>4. NIL \notin Queued
  BY PendingEvents, ProtocolAssumption DEF Pending
<1>5. PendingOnce'
  BY <1>1, <1>4 DEF Cancel, PendingOnce
<1> QED
  BY <1>0, <1>2, <1>3, <1>5

\* An accepted broadcast stays pending, now in the queue.
LEMMA AcceptInv ==
    ASSUME ProtocolInv, NEW t \in Threads, Accept(t)
    PROVE  ProtocolInv'
<1> USE DEF ProtocolInv
<1>0. DerivedLast'
  BY DerivedLastStep
<1>1. /\ evaluating \in Events /\ queue \in Seq(Events)
      /\ evaluating \notin Elements(queue) /\ Distinct(queue)
      /\ queue' = Append(queue, evaluating)
  BY PendingEvents DEF Accept, TypeOK, PendingOnce, Distinct
<1>2. /\ queue' \in Seq(Events)
      /\ Elements(queue') = Elements(queue) \cup {evaluating}
      /\ Distinct(queue')
      /\ Len(queue') = Len(queue) + 1
  BY <1>1, ElementsAppend
<1>3. TypeOK'
  BY <1>2 DEF Accept, TypeOK
<1>4. StepWithinQueue' /\ NothingAbandoned' /\ (evaluating' # NIL => holder' # NIL)
  BY <1>1, <1>2, ProtocolAssumption DEF Accept, TypeOK, StepWithinQueue, NothingAbandoned
<1>5. Queued = Elements(queue) /\ Queued' = Elements(queue')
  BY DEF Queued, Elements
<1>6. Pending' = Pending
  BY <1>1, <1>2, <1>5 DEF Accept, Pending
<1>7. CountsPending'
  BY <1>6 DEF Accept, CountsPending
<1>8. NIL \notin Queued'
  BY <1>1, <1>2, <1>5, <1>6, PendingEvents, ProtocolAssumption DEF Pending
<1>9. PendingOnce'
  BY <1>2, <1>8 DEF Accept, PendingOnce, Distinct
<1> QED
  BY <1>0, <1>3, <1>4, <1>7, <1>9

\* A dequeued event.
LEMMA RetireInv ==
    ASSUME ProtocolInv, NEW t \in Threads, Retire(t)
    PROVE  ProtocolInv'
<1> USE DEF ProtocolInv
<1>1. queue \in Seq(Events) /\ queue # <<>> /\ Distinct(queue)
  BY DEF Retire, TypeOK, StepWithinQueue, PendingOnce, Distinct
<1>2. /\ queue' \in Seq(Events)
      /\ Head(queue) \in Elements(queue)
      /\ Elements(queue') = Elements(queue) \ {Head(queue)}
      /\ Distinct(queue')
      /\ Len(queue') = Len(queue) - 1
  BY <1>1, ElementsTail DEF Retire
<1>3. Queued = Elements(queue) /\ Queued' = Elements(queue')
  BY DEF Queued, Elements
<1>4. Head(queue) \in Pending /\ Pending' = Pending \ {Head(queue)}
  BY <1>2, <1>3 DEF Retire, Pending
<1>5. CountsPending' /\ count' \in [Events -> Nat]
  BY <1>4, FinishCounts DEF Retire
<1>6. TypeOK'
  BY <1>2, <1>5 DEF Retire, TypeOK
<1>7. StepWithinQueue' /\ NothingAbandoned' /\ (evaluating' # NIL => holder' # NIL)
  BY <1>1, <1>2, ProtocolAssumption DEF Retire, TypeOK, StepWithinQueue, NothingAbandoned
<1>8. PendingOnce'
  BY <1>2, <1>3 DEF Retire, PendingOnce, Distinct
<1>9. DerivedLast'
  BY <1>1, DerivedLastStep
<1> QED
  BY <1>5, <1>6, <1>7, <1>8, <1>9

\* The steps that broadcast and dequeue nothing.
LEMMA ControlInv ==
    ASSUME ProtocolInv, NEW t \in Threads,
           Acquire(t) \/ Start(t) \/ MicroStep(t) \/ Stop(t) \/ Release(t)
    PROVE  ProtocolInv'
<1> USE DEF ProtocolInv
<1>0. DerivedLast'
  BY DerivedLastStep
<1>1. UNCHANGED <<evaluating, queue, count>>
  BY DEF Acquire, Start, MicroStep, Stop, Release
<1>2. Queued' = Queued /\ Pending' = Pending
  BY <1>1 DEF Queued, Pending
<1>3. CountsPending' /\ PendingOnce'
  BY <1>1, <1>2 DEF CountsPending, PendingOnce
<1>4. holder' \in Threads \cup {NIL} /\ running' \in BOOLEAN
  BY DEF TypeOK, Acquire, Start, MicroStep, Stop, Release
<1>5. left' \in Nat /\ StepWithinQueue'
  BY DEF TypeOK, StepWithinQueue, Acquire, Start, MicroStep, Stop, Release
<1>6. TypeOK'
  BY <1>1, <1>4, <1>5 DEF TypeOK
<1>7. CASE Release(t)
  <2>1. left = 0
    BY <1>7 DEF TypeOK, StepWithinQueue, Release
  <2> QED
    BY <1>0, <1>3, <1>5, <1>6, <1>7, <2>1 DEF Release, NothingAbandoned
<1>8. CASE Acquire(t) \/ Start(t) \/ MicroStep(t) \/ Stop(t)
  <2>1. holder' # NIL
    BY <1>8, ProtocolAssumption DEF Acquire, Start, MicroStep, Stop
  <2> QED
    BY <1>0, <1>3, <1>5, <1>6, <2>1 DEF NothingAbandoned
<1> QED
  BY <1>7, <1>8

\* Every step of the protocol preserves the invariant.
LEMMA NextInv == ProtocolInv /\ [Next]_protocolVars => ProtocolInv'
<1> SUFFICES ASSUME ProtocolInv, [Next]_protocolVars PROVE ProtocolInv'
  OBVIOUS
<1>1. ASSUME NEW t \in Threads, NEW e \in Events, Begin(t, e) PROVE ProtocolInv'
  BY <1>1, BeginInv
<1>2. ASSUME NEW t \in Threads, Cancel(t) PROVE ProtocolInv'
  BY <1>2, CancelInv
<1>3. ASSUME NEW t \in Threads, Accept(t) PROVE ProtocolInv'
  BY <1>3, AcceptInv
<1>4. ASSUME NEW t \in Threads, Retire(t) PROVE ProtocolInv'
  BY <1>4, RetireInv
<1>5. ASSUME NEW t \in Threads,
             Acquire(t) \/ Start(t) \/ MicroStep(t) \/ Stop(t) \/ Release(t)
      PROVE  ProtocolInv'
  BY <1>5, ControlInv
<1>6. CASE UNCHANGED protocolVars
  <2>1. Queued' = Queued /\ Pending' = Pending
    BY <1>6 DEF Queued, Pending, protocolVars
  <2> QED
    BY <1>6, <2>1 DEF ProtocolInv, TypeOK, CountsPending, PendingOnce, DerivedLast,
       StepWithinQueue, NothingAbandoned, protocolVars
<1> QED
  BY <1>1, <1>2, <1>3, <1>4, <1>5, <1>6 DEF Next

\* The life of every event: it is pending at most once, in progress exactly
\* while it or a derived event is pending, and never abandoned.
THEOREM ProtocolInvariant == Spec => []ProtocolInv
  BY InitInv, NextInv, PTL DEF Spec

\* The queue of a machine is bounded by its number of events, however often user
\* code broadcasts.
THEOREM QueueIsBounded == Spec => []QueueBounded
<1>1. ProtocolInv => QueueBounded
  <2> SUFFICES ASSUME ProtocolInv PROVE QueueBounded
    OBVIOUS
  <2>1. /\ queue \in Seq(Events) /\ Len(queue) \in Nat
        /\ \A i, j \in 1 .. Len(queue) : i # j => queue[i] # queue[j]
    BY DEF ProtocolInv, TypeOK, PendingOnce
  <2> DEFINE place == [i \in 1 .. Len(queue) |-> queue[i]]
  <2>2. /\ place \in [1 .. Len(queue) -> Events]
        /\ \A i, j \in 1 .. Len(queue) : i # j => place[i] # place[j]
    BY <2>1
  <2>3. IsFiniteSet(1 .. Len(queue)) /\ Cardinality(1 .. Len(queue)) = Len(queue)
    <3>1. ASSUME NEW n \in Nat
          PROVE  IsFiniteSet(1 .. n) /\ Cardinality(1 .. n) = n
      BY FS_Interval
    <3> QED
      BY <2>1, <3>1
  <2>4. IsFiniteSet(Events) /\ Cardinality(Events) \in Nat
    BY ProtocolAssumption, FS_CardinalityType
  <2>5. ~ (Cardinality(Events) < Cardinality(1 .. Len(queue)))
    <3>1. SUFFICES ASSUME Cardinality(Events) < Cardinality(1 .. Len(queue)) PROVE FALSE
      OBVIOUS
    <3> HIDE DEF place
    <3>2. \E x, y \in 1 .. Len(queue) : x # y /\ place[x] = place[y]
      BY <3>1, <2>2, <2>3, <2>4, FS_PigeonHole
    <3> QED
      BY <3>2, <2>2
  <2> QED
    BY <2>1, <2>3, <2>4, <2>5 DEF QueueBounded
<1> QED
  BY <1>1, ProtocolInvariant, PTL

\* A micro-step removes only the events that were queued when it began, and no
\* event is queued twice.
THEOREM QueueIsFIFO == Spec => FirstInFirstOut
<1>1. ProtocolInv /\ [Next]_protocolVars =>
          [ \/ left > 0 /\ queue' = Tail(queue)
            \/ \E e \in Events : e \notin Queued /\ queue' = Append(queue, e) ]_queue
  <2> SUFFICES ASSUME ProtocolInv, Next, queue' # queue
               PROVE  \/ left > 0 /\ queue' = Tail(queue)
                      \/ \E e \in Events : e \notin Queued /\ queue' = Append(queue, e)
    BY DEF protocolVars
  <2>1. PICK t \in Threads : Accept(t) \/ Retire(t)
    BY DEF Next, Acquire, Begin, Cancel, Start, MicroStep, Stop, Release
  <2>2. CASE Accept(t)
    BY <2>2 DEF Accept, ProtocolInv, PendingOnce, TypeOK
  <2>3. CASE Retire(t)
    BY <2>3 DEF Retire
  <2> QED
    BY <2>1, <2>2, <2>3
<1> QED
  BY <1>1, ProtocolInvariant, PTL DEF Spec, FirstInFirstOut

=============================================================================
