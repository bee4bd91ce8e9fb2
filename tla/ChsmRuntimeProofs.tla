-------------------------- MODULE ChsmRuntimeProofs --------------------------
(***************************************************************************)
(* The C++ run-time library for any machine and any number of threads:     *)
(* RuntimeInv is an inductive invariant.  With it the library is type-     *)
(* correct, broadcasts exclude each other and the algorithm is not         *)
(* re-entered, whatever the user code of the machine broadcasts and        *)
(* whether or not clients keep enter() and exit() apart from broadcasts.   *)
(*                                                                         *)
(* The library implements the event protocol.  That proof looks at the     *)
(* call stacks only through the frames of broadcast() and of algorithm():  *)
(* of each there is at most one, and every action replaces it, removes it  *)
(* or leaves it alone.                                                     *)
(***************************************************************************)
EXTENDS RuntimeRefinement, FiniteSetTheorems, TLAPS

-----------------------------------------------------------------------------
(* Counting the frames that have yet to release the mutex.                 *)

Releases(s) == {i \in 1 .. Len(s) : s[i].pc = "unlock"}

\* Moving a set of positions up or down a stack does not change its size.
LEMMA ShiftCardinality ==
    ASSUME NEW S \in SUBSET Int, IsFiniteSet(S), NEW k \in Int
    PROVE  /\ IsFiniteSet({i + k : i \in S})
           /\ Cardinality({i + k : i \in S}) = Cardinality(S)
<1> DEFINE T == {i + k : i \in S}
           f == [i \in S |-> i + k]
<1>1. f \in Bijection(S, T)
  <2>1. f \in [S -> T]
    OBVIOUS
  <2>2. \A a, b \in S : f[a] = f[b] => a = b
    OBVIOUS
  <2>3. \A y \in T : \E x \in S : f[x] = y
    OBVIOUS
  <2> HIDE DEF f, T
  <2> QED
    BY <2>1, <2>2, <2>3 DEF Bijection, Injection, Surjection, IsInjective
<1> HIDE DEF f, T
<1>2. ExistsBijection(S, T)
  BY <1>1 DEF ExistsBijection
<1>3. IsFiniteSet(T) /\ Cardinality(T) = Cardinality(S)
  BY <1>2, FS_Bijection
<1> QED
  BY <1>3 DEF T

\* A stack is finite, and so is what it has yet to release.
LEMMA ReleasesFinite ==
    ASSUME NEW s \in Seq(Frame)
    PROVE  /\ Releases(s) \in SUBSET Int
           /\ IsFiniteSet(Releases(s))
           /\ Cardinality(Releases(s)) \in Nat
<1>1. Len(s) \in Nat
  OBVIOUS
<1>2. IsFiniteSet(1 .. Len(s))
  BY <1>1, FS_Interval
<1>3. Releases(s) \in SUBSET (1 .. Len(s))
  BY DEF Releases
<1>4. IsFiniteSet(Releases(s))
  BY <1>2, <1>3, FS_Subset
<1> QED
  BY <1>1, <1>3, <1>4, FS_CardinalityType

-----------------------------------------------------------------------------
(* Replacing the running frame.                                            *)

\* r is the stack s with its running frame replaced by some frames.
Replaces(r, s, frames) ==
    /\ r \in Seq(Frame)
    /\ Len(r) = Len(frames) + Len(s) - 1
    /\ \A i \in 1 .. Len(frames) : r[i] = frames[i]
    /\ \A i \in 2 .. Len(s) : r[i + Len(frames) - 1] = s[i]

\* Become replaces the running frame.
LEMMA ConcatReplaces ==
    ASSUME NEW s \in Seq(Frame), s # <<>>, NEW frames \in Seq(Frame)
    PROVE  Replaces(frames \o Tail(s), s, frames)
<1>1. /\ Tail(s) \in Seq(Frame)
      /\ Len(s) \in Nat /\ Len(s) > 0 /\ Len(frames) \in Nat
      /\ Len(Tail(s)) = Len(s) - 1
      /\ \A i \in 1 .. Len(s) - 1 : Tail(s)[i] = s[i + 1]
  OBVIOUS
<1> DEFINE r == frames \o Tail(s)
<1>2. /\ r \in Seq(Frame)
      /\ Len(r) = Len(frames) + Len(s) - 1
      /\ \A i \in 1 .. Len(frames) : r[i] = frames[i]
      /\ \A i \in Len(frames) + 1 .. Len(r) : r[i] = Tail(s)[i - Len(frames)]
  BY <1>1
<1> HIDE DEF r
<1>3. ASSUME NEW i \in 2 .. Len(s)
      PROVE  r[i + Len(frames) - 1] = s[i]
  <2>0. Len(s) \in Nat /\ Len(frames) \in Nat /\ Len(r) = Len(frames) + Len(s) - 1
    BY <1>1, <1>2
  <2>1. PICK k \in Len(frames) + 1 .. Len(r) : k = i + Len(frames) - 1
    <3>1. i + Len(frames) - 1 \in Len(frames) + 1 .. Len(r)
      BY <2>0
    <3> QED
      BY <3>1
  <2>2. PICK m \in 1 .. Len(s) - 1 : m = i - 1
    BY <2>0
  <2>3. k - Len(frames) = m /\ m + 1 = i
    BY <2>0, <2>1, <2>2
  <2>4. r[k] = Tail(s)[m]
    BY <1>2, <2>3
  <2>5. Tail(s)[m] = s[m + 1]
    BY <1>1
  <2> QED
    BY <2>1, <2>3, <2>4, <2>5
<1> QED
  BY <1>2, <1>3 DEF Replaces, r

\* Where the frames of the new stack come from.
LEMMA ReplacesCases ==
    ASSUME NEW s \in Seq(Frame), s # <<>>, NEW frames \in Seq(Frame), NEW r,
           Replaces(r, s, frames), NEW i \in 1 .. Len(r)
    PROVE  \/ i \in 1 .. Len(frames) /\ r[i] = frames[i]
           \/ \E j \in 2 .. Len(s) : i = j + Len(frames) - 1 /\ r[i] = s[j]
<1>1. Len(s) \in Nat /\ Len(s) > 0 /\ Len(frames) \in Nat
  OBVIOUS
<1>2. CASE i <= Len(frames)
  BY <1>1, <1>2 DEF Replaces
<1>3. CASE i > Len(frames)
  <2>1. i - Len(frames) + 1 \in 2 .. Len(s) /\ i = (i - Len(frames) + 1) + Len(frames) - 1
    BY <1>1, <1>3 DEF Replaces
  <2> QED
    BY <2>1 DEF Replaces
<1> QED
  BY <1>1, <1>2, <1>3

\* The number of releases changes by those of the frames replaced.
LEMMA ReleasesReplace ==
    ASSUME NEW s \in Seq(Frame), s # <<>>, NEW frames \in Seq(Frame), NEW r,
           Replaces(r, s, frames)
    PROVE  Cardinality(Releases(r)) =
               Cardinality(Releases(s)) + Cardinality(Releases(frames))
                   - (IF s[1].pc = "unlock" THEN 1 ELSE 0)
<1>1. Len(s) \in Nat /\ Len(s) > 0 /\ Len(frames) \in Nat
  OBVIOUS
<1> DEFINE below == Releases(s) \ {1}
           moved == {i + (Len(frames) - 1) : i \in below}
<1>2. Releases(r) = Releases(frames) \cup moved
  <2>1. ASSUME NEW i \in Releases(r) PROVE i \in Releases(frames) \cup moved
    <3>1. i \in 1 .. Len(r) /\ r[i].pc = "unlock"
      BY DEF Releases
    <3>2. \/ i \in 1 .. Len(frames) /\ r[i] = frames[i]
          \/ \E j \in 2 .. Len(s) : i = j + Len(frames) - 1 /\ r[i] = s[j]
      BY <3>1, ReplacesCases
    <3>3. CASE i \in 1 .. Len(frames) /\ r[i] = frames[i]
      BY <3>1, <3>3 DEF Releases
    <3>4. CASE \E j \in 2 .. Len(s) : i = j + Len(frames) - 1 /\ r[i] = s[j]
      <4>1. PICK j \in 2 .. Len(s) : i = j + Len(frames) - 1 /\ r[i] = s[j]
        BY <3>4
      <4>2. j \in below
        BY <4>1, <3>1, <1>1 DEF Releases
      <4>3. i = j + (Len(frames) - 1)
        BY <4>1, <1>1
      <4> QED
        BY <4>2, <4>3
    <3> QED
      BY <3>2, <3>3, <3>4
  <2>2. ASSUME NEW i \in Releases(frames) PROVE i \in Releases(r)
    BY <1>1 DEF Releases, Replaces
  <2>3. ASSUME NEW i \in moved PROVE i \in Releases(r)
    <3>1. PICK j \in below : i = j + (Len(frames) - 1)
      OBVIOUS
    <3>2. j \in 2 .. Len(s) /\ s[j].pc = "unlock"
      BY <3>1, <1>1 DEF Releases
    <3>3. i = j + Len(frames) - 1 /\ i \in 1 .. Len(r)
      BY <3>1, <3>2, <1>1 DEF Replaces
    <3> QED
      BY <3>2, <3>3 DEF Releases, Replaces
  <2> QED
    BY <2>1, <2>2, <2>3
<1>3. Releases(frames) \cap moved = {}
  <2>1. \A j \in below : j > 1 /\ j \in Int
    BY <1>1 DEF Releases
  <2> QED
    BY <2>1, <1>1 DEF Releases
<1>4. /\ IsFiniteSet(below) /\ below \in SUBSET Int
      /\ Cardinality(below) = Cardinality(Releases(s)) - (IF s[1].pc = "unlock" THEN 1 ELSE 0)
  <2>1. 1 \in Releases(s) <=> s[1].pc = "unlock"
    BY <1>1 DEF Releases
  <2>2. IsFiniteSet(Releases(s)) /\ Releases(s) \in SUBSET Int /\ Cardinality(Releases(s)) \in Nat
    BY ReleasesFinite
  <2>3. CASE 1 \in Releases(s)
    <3>1. IsFiniteSet(below) /\ Cardinality(below) = Cardinality(Releases(s)) - 1
      BY <2>2, <2>3, FS_RemoveElement
    <3> QED
      BY <3>1, <2>1, <2>2, <2>3
  <2>4. CASE 1 \notin Releases(s)
    <3>1. below = Releases(s)
      BY <2>4
    <3> HIDE DEF below
    <3> QED
      BY <3>1, <2>1, <2>2, <2>4
  <2> QED
    BY <2>3, <2>4
<1>5. IsFiniteSet(moved) /\ Cardinality(moved) = Cardinality(below)
  <2>1. Len(frames) - 1 \in Int
    BY <1>1
  <2> HIDE DEF below
  <2> DEFINE k == Len(frames) - 1
  <2> HIDE DEF k
  <2>2. /\ IsFiniteSet({i + k : i \in below})
        /\ Cardinality({i + k : i \in below}) = Cardinality(below)
    BY <1>4, <2>1, ShiftCardinality DEF k
  <2> QED
    BY <2>2 DEF k
<1>6. Cardinality(Releases(frames) \cup moved) =
          Cardinality(Releases(frames)) + Cardinality(moved) - Cardinality(Releases(frames) \cap moved)
  <2> HIDE DEF moved
  <2> QED
    BY <1>5, ReleasesFinite, FS_Union
<1>7. Cardinality(Releases(frames) \cap moved) = 0
  BY <1>3, FS_EmptySet
<1> HIDE DEF moved, below
<1> QED
  BY <1>2, <1>4, <1>5, <1>6, <1>7, ReleasesFinite

-----------------------------------------------------------------------------
(* What a step of the running frame has to respect.                        *)

\* A frame that can continue the running frame of t: it relies on the mutex or
\* on the algorithm only if the running frame does.
Continues(t, f) ==
    /\ f \in Frame /\ FrameTyped(f)
    /\ f.pc # "unlock"
    /\ f.pc \in LockedPCs => Top(t).pc \in LockedPCs
    /\ f.pc \in AlgorithmPCs => Top(t).pc \in AlgorithmPCs
    /\ f.pc \in StepPCs => f.n <= Len(event_queue_')

\* A frame that any code can push, and a sequence of them: nothing is called
\* that waits for the mutex, unless at once.
PlainFrame(f) == f \in Frame /\ FrameTyped(f) /\ f.pc \notin LockedPCs

Callable(frames) ==
    /\ frames \in Seq(Frame)
    /\ \A i \in 1 .. Len(frames) : PlainFrame(frames[i]) /\ (i > 1 => frames[i].pc # "lock")

\* Frames that are called, the last of them possibly continuing the running one.
Quiet(t, frames) ==
    /\ frames \in Seq(Frame)
    /\ \A i \in 1 .. Len(frames) :
          \/ PlainFrame(frames[i])
          \/ i = Len(frames) /\ Continues(t, frames[i])

\* A step that replaces the running frame by such frames.
Orderly(t) == \E frames : Quiet(t, frames) /\ Become(t, frames)

\* The effect of Become on the stacks.
LEMMA BecomeReplaces ==
    ASSUME TypeOK, NEW t \in Threads, stack[t] # <<>>,
           NEW frames \in Seq(Frame), Become(t, frames)
    PROVE  /\ stack' \in [Threads -> Seq(Frame)]
           /\ Replaces(stack'[t], stack[t], frames)
           /\ \A u \in Threads \ {t} : stack'[u] = stack[u]
<1>1. stack \in [Threads -> Seq(Frame)] /\ stack[t] \in Seq(Frame)
  BY DEF TypeOK
<1>2. Replaces(frames \o Tail(stack[t]), stack[t], frames)
  BY <1>1, ConcatReplaces
<1>3. frames \o Tail(stack[t]) \in Seq(Frame)
  BY <1>2 DEF Replaces
<1> QED
  BY <1>1, <1>2, <1>3 DEF Become

\* The running frame is the first of its stack.
LEMMA TopIsFirst ==
    ASSUME TypeOK, NEW t \in Threads, stack[t] # <<>>
    PROVE  /\ stack[t] \in Seq(Frame) /\ Len(stack[t]) \in Nat /\ Len(stack[t]) > 0
           /\ Top(t) = stack[t][1] /\ Top(t) \in Frame
<1>1. stack[t] \in Seq(Frame)
  BY DEF TypeOK
<1> QED
  BY <1>1 DEF Top

\* Where the frames of the stacks come from after such a step.
LEMMA BecomeFrames ==
    ASSUME TypeOK, NEW t \in Threads, stack[t] # <<>>,
           NEW frames \in Seq(Frame), Become(t, frames)
    PROVE  /\ Len(frames) \in Nat /\ Len(stack[t]) \in Nat /\ Len(stack[t]) > 0
           /\ stack'[t] \in Seq(Frame) /\ Len(stack'[t]) = Len(frames) + Len(stack[t]) - 1
           /\ Top(t) = stack[t][1]
           /\ \A j \in 2 .. Len(stack[t]) : stack'[t][j + Len(frames) - 1] = stack[t][j]
           /\ \A i \in 1 .. Len(frames) : stack'[t][i] = frames[i]
           /\ \A i \in 1 .. Len(stack'[t]) :
                 \/ i \in 1 .. Len(frames) /\ stack'[t][i] = frames[i]
                 \/ \E j \in 2 .. Len(stack[t]) :
                       i = j + Len(frames) - 1 /\ stack'[t][i] = stack[t][j]
           /\ \A u \in Threads \ {t} : stack'[u] = stack[u]
<1> DEFINE s == stack[t]
           r == stack'[t]
<1>1. /\ stack' \in [Threads -> Seq(Frame)]
      /\ Replaces(r, s, frames)
      /\ \A u \in Threads \ {t} : stack'[u] = stack[u]
  BY BecomeReplaces
<1>2. s # <<>> /\ s \in Seq(Frame) /\ Len(s) \in Nat /\ Len(s) > 0 /\ Top(t) = s[1]
  BY TopIsFirst
<1> HIDE DEF s, r
<1>3. \A i \in 1 .. Len(r) :
         \/ i \in 1 .. Len(frames) /\ r[i] = frames[i]
         \/ \E j \in 2 .. Len(s) : i = j + Len(frames) - 1 /\ r[i] = s[j]
  BY <1>1, <1>2, ReplacesCases
<1> QED
  BY <1>1, <1>2, <1>3 DEF Replaces, r, s

\* Each part of StackInv, with the least that a step needs to keep it.
LEMMA FramesTypedStep ==
    ASSUME TypeOK, NEW t \in Threads, stack[t] # <<>>,
           NEW frames \in Seq(Frame), Become(t, frames), FramesTyped,
           \A i \in 1 .. Len(frames) : FrameTyped(frames[i])
    PROVE  FramesTyped'
<1>1. ASSUME NEW i \in 1 .. Len(stack'[t]) PROVE FrameTyped(stack'[t][i])
  <2>1. \A j \in 2 .. Len(stack[t]) : FrameTyped(stack[t][j])
    BY BecomeFrames DEF FramesTyped
  <2>2. \/ i \in 1 .. Len(frames) /\ stack'[t][i] = frames[i]
        \/ \E j \in 2 .. Len(stack[t]) :
              i = j + Len(frames) - 1 /\ stack'[t][i] = stack[t][j]
    BY BecomeFrames
  <2>3. CASE i \in 1 .. Len(frames) /\ stack'[t][i] = frames[i]
    BY <2>3
  <2>4. CASE \E j \in 2 .. Len(stack[t]) : stack'[t][i] = stack[t][j]
    BY <2>1, <2>4
  <2> QED
    BY <2>2, <2>3, <2>4
<1>2. ASSUME NEW u \in Threads, NEW i \in 1 .. Len(stack'[u]) PROVE FrameTyped(stack'[u][i])
  <2>1. CASE u = t
    BY <2>1, <1>1
  <2>2. CASE u # t
    <3>1. stack'[u] = stack[u]
      BY <2>2, BecomeFrames
    <3> QED
      BY <3>1, <1>2 DEF FramesTyped
  <2> QED
    BY <2>1, <2>2
<1> QED
  BY <1>2 DEF FramesTyped, FrameTyped, InList

\* Broadcasts keep excluding each other if no release is added or removed and only
\* a frame that relies on the mutex continues with one that does.
LEMMA ExcludeStep ==
    ASSUME TypeOK, NEW t \in Threads, stack[t] # <<>>,
           NEW frames \in Seq(Frame), Become(t, frames), BroadcastsExclude,
           Top(t).pc # "unlock", UNCHANGED <<owner, depth>>,
           \A i \in 1 .. Len(frames) :
               /\ frames[i].pc # "unlock"
               /\ frames[i].pc \in LockedPCs => Top(t).pc \in LockedPCs
    PROVE  BroadcastsExclude'
<1> DEFINE s == stack[t]
           r == stack'[t]
<1>1. Cardinality(Releases(r)) = Cardinality(Releases(s))
  <2>1. Cardinality(Releases(frames)) = 0
    <3>1. Releases(frames) = {}
      BY DEF Releases
    <3> QED
      BY <3>1, FS_EmptySet
  <2>2. s \in Seq(Frame) /\ s # <<>> /\ s[1].pc # "unlock" /\ Replaces(r, s, frames)
    BY BecomeReplaces, TopIsFirst
  <2> HIDE DEF s, r
  <2>3. Cardinality(Releases(s)) \in Nat
    BY <2>2, ReleasesFinite
  <2> QED
    BY <2>1, <2>2, <2>3, ReleasesReplace
<1>2. ASSUME NEW i \in 1 .. Len(r), r[i].pc \in LockedPCs PROVE owner = t
  <2>1. /\ 1 \in 1 .. Len(s) /\ Top(t) = s[1]
        /\ \A j \in 2 .. Len(s) : j \in 1 .. Len(s)
    BY BecomeFrames
  <2>2. \A k \in 1 .. Len(s) : s[k].pc \in LockedPCs => owner = t
    BY DEF BroadcastsExclude, HasFrame
  <2>3. CASE i \in 1 .. Len(frames) /\ r[i] = frames[i]
    BY <1>2, <2>1, <2>2, <2>3
  <2>4. CASE \E j \in 2 .. Len(s) : i = j + Len(frames) - 1 /\ r[i] = s[j]
    BY <1>2, <2>1, <2>2, <2>4
  <2> QED
    BY <2>3, <2>4, BecomeFrames
<1>3. owner = t => depth = Cardinality(Releases(s))
  BY DEF BroadcastsExclude, Releases
<1>4. ASSUME NEW u \in Threads
      PROVE  /\ HasFrame(u, LockedPCs)' => owner' = u
             /\ owner' = u => depth' = Cardinality(Releases(stack'[u]))
  <2>1. CASE u = t
    BY <2>1, <1>1, <1>2, <1>3 DEF HasFrame, LockedPCs
  <2>2. CASE u # t
    <3>1. stack'[u] = stack[u]
      BY <2>2, BecomeFrames
    <3> QED
      BY <3>1 DEF BroadcastsExclude, HasFrame, Releases, LockedPCs
  <2> QED
    BY <2>1, <2>2
<1> QED
  BY <1>4 DEF BroadcastsExclude, Releases

\* A new frame that relies on the mutex is above a release, its own or the one
\* the running frame was above.
LEMMA ReleasedStep ==
    ASSUME TypeOK, NEW t \in Threads, stack[t] # <<>>,
           NEW frames \in Seq(Frame), Become(t, frames), ReleasedBelow,
           \A i \in 1 .. Len(frames) : frames[i].pc \in LockedPCs \ {"unlock"} =>
               \/ i = Len(frames) /\ Top(t).pc \in LockedPCs \ {"unlock"}
               \/ i + 1 \in 1 .. Len(frames) /\ frames[i + 1].pc = "unlock"
    PROVE  ReleasedBelow'
<1> DEFINE s == stack[t]
           r == stack'[t]
<1>1. /\ Len(frames) \in Nat /\ Len(s) \in Nat /\ Len(s) > 0
      /\ Len(r) = Len(frames) + Len(s) - 1 /\ Top(t) = s[1]
      /\ \A j \in 2 .. Len(s) : r[j + Len(frames) - 1] = s[j]
      /\ \A i \in 1 .. Len(frames) : r[i] = frames[i]
      /\ \A i \in 1 .. Len(r) :
            \/ i \in 1 .. Len(frames) /\ r[i] = frames[i]
            \/ \E j \in 2 .. Len(s) : i = j + Len(frames) - 1 /\ r[i] = s[j]
  BY BecomeFrames
<1>2. \A k \in 1 .. Len(s) : s[k].pc \in LockedPCs \ {"unlock"} =>
          k + 1 \in 1 .. Len(s) /\ s[k + 1].pc = "unlock"
  BY DEF ReleasedBelow
<1> HIDE DEF s, r
<1>3. ASSUME NEW j \in 1 .. Len(s), s[j].pc \in LockedPCs \ {"unlock"}
      PROVE  j + Len(frames) \in 1 .. Len(r) /\ r[j + Len(frames)].pc = "unlock"
  <2>1. j + 1 \in 2 .. Len(s) /\ s[j + 1].pc = "unlock"
    BY <1>1, <1>2, <1>3
  <2>2. (j + 1) + Len(frames) - 1 = j + Len(frames)
    BY <1>1
  <2>3. r[(j + 1) + Len(frames) - 1] = s[j + 1]
    BY <2>1, <1>1
  <2>4. j + Len(frames) \in 1 .. Len(r)
    BY <2>1, <1>1
  <2> QED
    BY <2>1, <2>2, <2>3, <2>4
<1>4. ASSUME NEW i \in 1 .. Len(r), r[i].pc \in LockedPCs \ {"unlock"}
      PROVE  i + 1 \in 1 .. Len(r) /\ r[i + 1].pc = "unlock"
  <2>1. CASE i \in 1 .. Len(frames) /\ r[i] = frames[i]
    <3>1. CASE i = Len(frames) /\ Top(t).pc \in LockedPCs \ {"unlock"}
      <4>1. 1 \in 1 .. Len(s) /\ 1 + Len(frames) = i + 1
        BY <3>1, <1>1
      <4> QED
        BY <4>1, <3>1, <1>1, <1>3
    <3>2. CASE i + 1 \in 1 .. Len(frames) /\ frames[i + 1].pc = "unlock"
      <4>1. i + 1 \in 1 .. Len(r)
        BY <3>2, <1>1
      <4> QED
        BY <4>1, <3>2, <1>1
    <3> QED
      BY <3>1, <3>2, <2>1, <1>4
  <2>2. CASE \E j \in 2 .. Len(s) : i = j + Len(frames) - 1 /\ r[i] = s[j]
    <3>1. PICK j \in 2 .. Len(s) : i = j + Len(frames) - 1 /\ r[i] = s[j]
      BY <2>2
    <3>2. j \in 1 .. Len(s) /\ i + 1 = j + Len(frames)
      BY <3>1, <1>1
    <3> QED
      BY <3>1, <3>2, <1>3, <1>4
  <2> QED
    BY <2>1, <2>2, <1>1
<1>5. ASSUME NEW u \in Threads, u # t, NEW i \in 1 .. Len(stack'[u]),
             stack'[u][i].pc \in LockedPCs \ {"unlock"}
      PROVE  i + 1 \in 1 .. Len(stack'[u]) /\ stack'[u][i + 1].pc = "unlock"
  <2>1. stack'[u] = stack[u]
    BY <1>5, BecomeFrames
  <2> QED
    BY <2>1, <1>5 DEF ReleasedBelow
<1> QED
  BY <1>4, <1>5 DEF ReleasedBelow, r, LockedPCs

\* Only the algorithm's frame is continued by a frame of the algorithm.
LEMMA OneAlgorithmStep ==
    ASSUME TypeOK, NEW t \in Threads, stack[t] # <<>>,
           NEW frames \in Seq(Frame), Become(t, frames), OneAlgorithm, UNCHANGED in_progress_,
           \A i \in 1 .. Len(frames) : frames[i].pc \in AlgorithmPCs =>
               i = Len(frames) /\ Top(t).pc \in AlgorithmPCs
    PROVE  OneAlgorithm'
<1> DEFINE s == stack[t]
           r == stack'[t]
<1>1. /\ Len(frames) \in Nat /\ Len(s) \in Nat /\ Len(s) > 0
      /\ Len(r) = Len(frames) + Len(s) - 1 /\ Top(t) = s[1]
      /\ \A i \in 1 .. Len(r) :
            \/ i \in 1 .. Len(frames) /\ r[i] = frames[i]
            \/ \E j \in 2 .. Len(s) : i = j + Len(frames) - 1 /\ r[i] = s[j]
  BY BecomeFrames
<1>2. \A i \in 1 .. Len(s) : s[i].pc \in AlgorithmPCs =>
          in_progress_ /\ \A j \in 1 .. Len(s) : s[j].pc \in AlgorithmPCs => i = j
  BY DEF OneAlgorithm
<1> HIDE DEF s, r
<1>3. ASSUME NEW i \in 1 .. Len(r), r[i].pc \in AlgorithmPCs
      PROVE  \E j \in 1 .. Len(s) : i = j + Len(frames) - 1 /\ s[j].pc \in AlgorithmPCs
  <2>1. CASE i \in 1 .. Len(frames) /\ r[i] = frames[i]
    <3>1. 1 \in 1 .. Len(s) /\ i = 1 + Len(frames) - 1 /\ s[1].pc \in AlgorithmPCs
      BY <2>1, <1>1, <1>3
    <3> QED
      BY <3>1
  <2>2. CASE \E j \in 2 .. Len(s) : i = j + Len(frames) - 1 /\ r[i] = s[j]
    <3>1. PICK j \in 2 .. Len(s) : i = j + Len(frames) - 1 /\ r[i] = s[j]
      BY <2>2
    <3>2. j \in 1 .. Len(s)
      BY <1>1
    <3> QED
      BY <3>1, <3>2, <1>3
  <2> QED
    BY <2>1, <2>2, <1>1
<1>4. ASSUME NEW i \in 1 .. Len(r), r[i].pc \in AlgorithmPCs
      PROVE  in_progress_ /\ \A j \in 1 .. Len(r) : r[j].pc \in AlgorithmPCs => i = j
  BY <1>1, <1>2, <1>3, <1>4
<1>5. ASSUME NEW u \in Threads, NEW i \in 1 .. Len(stack'[u]), stack'[u][i].pc \in AlgorithmPCs
      PROVE  in_progress_ /\ \A j \in 1 .. Len(stack'[u]) : stack'[u][j].pc \in AlgorithmPCs => i = j
  <2>1. CASE u = t
    BY <2>1, <1>4, <1>5 DEF r
  <2>2. CASE u # t
    <3>1. stack'[u] = stack[u]
      BY <2>2, BecomeFrames
    <3> QED
      BY <3>1, <1>5 DEF OneAlgorithm
  <2> QED
    BY <2>1, <2>2
<1> QED
  BY <1>5 DEF OneAlgorithm, AlgorithmPCs

\* The queue may grow under a micro-step.
LEMMA WithinQueueStep ==
    ASSUME TypeOK, NEW t \in Threads, stack[t] # <<>>,
           NEW frames \in Seq(Frame), Become(t, frames), StepWithinQueue,
           event_queue_' \in Seq(Events), Len(event_queue_') >= Len(event_queue_),
           \A i \in 1 .. Len(frames) : frames[i].pc \in StepPCs =>
               frames[i].n <= Len(event_queue_')
    PROVE  StepWithinQueue'
<1>1. Len(event_queue_) \in Nat /\ Len(event_queue_') \in Nat
  BY DEF TypeOK
<1>2. ASSUME NEW u \in Threads, NEW j \in 1 .. Len(stack[u]), stack[u][j].pc \in StepPCs
      PROVE  stack[u][j].n <= Len(event_queue_')
  <2>1. stack[u] \in Seq(Frame) /\ stack[u][j] \in Frame
    BY DEF TypeOK
  <2>2. stack[u][j].n \in Nat /\ stack[u][j].n <= Len(event_queue_)
    BY <2>1, <1>2 DEF StepWithinQueue, Frame
  <2> QED
    BY <2>2, <1>1
<1>3. ASSUME NEW i \in 1 .. Len(stack'[t]), stack'[t][i].pc \in StepPCs
      PROVE  stack'[t][i].n <= Len(event_queue_')
  <2>1. CASE i \in 1 .. Len(frames) /\ stack'[t][i] = frames[i]
    BY <2>1, <1>3
  <2>2. CASE \E j \in 2 .. Len(stack[t]) : stack'[t][i] = stack[t][j]
    <3>1. PICK j \in 2 .. Len(stack[t]) : stack'[t][i] = stack[t][j]
      BY <2>2
    <3>2. j \in 1 .. Len(stack[t])
      BY BecomeFrames
    <3> QED
      BY <3>1, <3>2, <1>2, <1>3
  <2> QED
    BY <2>1, <2>2, BecomeFrames
<1>4. ASSUME NEW u \in Threads, u # t, NEW i \in 1 .. Len(stack'[u]), stack'[u][i].pc \in StepPCs
      PROVE  stack'[u][i].n <= Len(event_queue_')
  <2>1. stack'[u] = stack[u]
    BY <1>4, BecomeFrames
  <2> QED
    BY <2>1, <1>2, <1>4
<1> QED
  BY <1>3, <1>4 DEF StepWithinQueue, StepPCs, AlgorithmPCs

\* A step that replaces the running frame by quiet ones, leaves the mutex and
\* machine::in_progress_ alone and removes no event keeps the stacks in order.
LEMMA QuietStep ==
    ASSUME RuntimeInv, NEW t \in Threads, stack[t] # <<>>, Top(t).pc # "unlock",
           NEW frames, Quiet(t, frames), Become(t, frames),
           UNCHANGED <<in_progress_, owner, depth>>,
           event_queue_' \in Seq(Events), Len(event_queue_') >= Len(event_queue_)
    PROVE  stack' \in [Threads -> Seq(Frame)] /\ StackInv'
<1>1. TypeOK /\ StackInv /\ frames \in Seq(Frame)
  BY DEF RuntimeInv, Quiet
<1>2. \A i \in 1 .. Len(frames) :
         /\ FrameTyped(frames[i])
         /\ frames[i].pc # "unlock"
         /\ frames[i].pc \in LockedPCs => i = Len(frames) /\ Top(t).pc \in LockedPCs
         /\ frames[i].pc \in AlgorithmPCs => i = Len(frames) /\ Top(t).pc \in AlgorithmPCs
         /\ frames[i].pc \in StepPCs => frames[i].n <= Len(event_queue_')
  BY DEF Quiet, PlainFrame, Continues, LockedPCs, AlgorithmPCs, StepPCs
<1>3. stack' \in [Threads -> Seq(Frame)]
  BY <1>1, BecomeReplaces
<1>4. FramesTyped'
  BY <1>1, <1>2, FramesTypedStep DEF StackInv
<1>5. BroadcastsExclude'
  BY <1>1, <1>2, ExcludeStep DEF StackInv
<1>6. ReleasedBelow'
  BY <1>1, <1>2, ReleasedStep DEF StackInv
<1>7. OneAlgorithm'
  BY <1>1, <1>2, OneAlgorithmStep DEF StackInv
<1>8. StepWithinQueue'
  BY <1>1, <1>2, WithinQueueStep DEF StackInv
<1> QED
  BY <1>1, <1>3, <1>4, <1>5, <1>6, <1>7, <1>8 DEF StackInv

\* TypeOK without the stacks.
DataTyped ==
    /\ state_ \in [States -> {INACTIVE, ACTIVE, DISABLED}]
    /\ active_child_ \in [States -> StateOrNil]
    /\ last_child_ \in [States -> StateOrNil]
    /\ taken_ \in [Transitions -> EventOrNil]
    /\ target_ \in [Transitions -> StateOrNil]
    /\ in_progress \in [Events -> Nat]
    /\ param_block_ \in [Events -> EventOrNil]
    /\ ret \in [Threads -> BOOLEAN]

\* A step that in addition keeps the data typed keeps the invariant ...
LEMMA OrderlyData ==
    ASSUME RuntimeInv, NEW t \in Threads, stack[t] # <<>>, Top(t).pc # "unlock",
           Orderly(t), DataTyped',
           UNCHANGED <<in_progress_, owner, depth>>,
           event_queue_' \in Seq(Events), Len(event_queue_') >= Len(event_queue_)
    PROVE  RuntimeInv'
<1>1. PICK frames : Quiet(t, frames) /\ Become(t, frames)
  BY DEF Orderly
<1>2. stack' \in [Threads -> Seq(Frame)] /\ StackInv'
  BY <1>1, QuietStep
<1>3. TypeOK'
  BY <1>2 DEF RuntimeInv, TypeOK, DataTyped
<1> QED
  BY <1>2, <1>3 DEF RuntimeInv

\* ... as does one that leaves all data alone.
LEMMA OrderlyStep ==
    ASSUME RuntimeInv, NEW t \in Threads, stack[t] # <<>>, Top(t).pc # "unlock",
           Orderly(t), ret' \in [Threads -> BOOLEAN],
           UNCHANGED <<treeVars, markVars, queueVars, lockVars>>
    PROVE  RuntimeInv'
<1>1. /\ UNCHANGED <<in_progress_, owner, depth>>
      /\ event_queue_' \in Seq(Events) /\ Len(event_queue_') >= Len(event_queue_)
  BY DEF queueVars, lockVars, RuntimeInv, TypeOK
<1>2. DataTyped'
  BY DEF DataTyped, RuntimeInv, TypeOK, treeVars, markVars, queueVars
<1> QED
  BY <1>1, <1>2, OrderlyData

\* The ways the library's code proceeds are orderly.
LEMMA PlainContinues ==
    ASSUME NEW t, NEW f, PlainFrame(f)
    PROVE  Continues(t, f)
BY DEF PlainFrame, Continues, LockedPCs, AlgorithmPCs, StepPCs

\* Goto, CallThen and a return push frames in that order only.
LEMMA GotoOrderly ==
    ASSUME NEW t \in Threads, NEW f, Continues(t, f), Goto(t, f)
    PROVE  Orderly(t) /\ ret' = ret
<1>1. Quiet(t, <<f>>)
  BY DEF Quiet, Continues
<1> QED
  BY <1>1 DEF Orderly, Goto

\* The called frames are plain and the continuation is the last.
LEMMA CallOrderly ==
    ASSUME NEW t \in Threads, NEW frames, Callable(frames),
           NEW f, Continues(t, f), CallThen(t, frames, f)
    PROVE  Orderly(t) /\ ret' = ret
<1> DEFINE all == Append(frames, f)
<1>1. /\ frames \in Seq(Frame) /\ f \in Frame /\ Len(frames) \in Nat
      /\ all \in Seq(Frame) /\ Len(all) = Len(frames) + 1
      /\ all[Len(all)] = f
      /\ \A i \in 1 .. Len(frames) : all[i] = frames[i]
  BY DEF Callable, Continues
<1> HIDE DEF all
<1>2. ASSUME NEW i \in 1 .. Len(all)
      PROVE  PlainFrame(all[i]) \/ (i = Len(all) /\ Continues(t, all[i]))
  <2>1. CASE i = Len(all)
    BY <2>1, <1>1
  <2>2. CASE i # Len(all)
    <3>1. i \in 1 .. Len(frames)
      BY <2>2, <1>1
    <3> QED
      BY <3>1, <1>1 DEF Callable
  <2> QED
    BY <2>1, <2>2
<1>3. Quiet(t, all)
  BY <1>1, <1>2 DEF Quiet
<1> QED
  BY <1>3 DEF Orderly, CallThen, all

\* A return pushes nothing.
LEMMA ReturnOrderly ==
    ASSUME NEW t \in Threads, Become(t, <<>>)
    PROVE  Orderly(t)
<1>1. Quiet(t, <<>>)
  BY DEF Quiet
<1> QED
  BY <1>1 DEF Orderly

-----------------------------------------------------------------------------
(* The frames that the library pushes.                                     *)

\* F0 is a plain frame.
LEMMA EmptyFrame == F0 \in Frame /\ F0.pc = "return_true" /\ PlainFrame(F0)
<1>1. F0 \in Frame
  BY DEF F0, Frame, PCs, StateOrNil, EventOrNil
<1>2. F0.pc = "return_true"
  BY DEF F0
<1> QED
  BY <1>1, <1>2 DEF PlainFrame, FrameTyped, StatePCs, EventPCs, IteratorPCs, StepPCs,
     AlgorithmPCs, LockedPCs

\* A call of a method of a state is a plain frame.
LEMMA StateFrames ==
    ASSUME NEW pc \in StatePCs \ {"set_enter_children", "set_exit_children"},
           NEW s \in States, NEW c \in StateOrNil
    PROVE  PlainFrame(StateFrame(pc, s, c)) /\ StateFrame(pc, s, c).pc # "lock"
<1> DEFINE f == StateFrame(pc, s, c)
<1>1. f \in Frame /\ f.pc = pc /\ f.s = s
  BY DEF StateFrame, F0, Frame, PCs, StatePCs, StateOrNil, EventOrNil
<1> HIDE DEF f
<1>2. PlainFrame(f) /\ f.pc # "lock"
  BY <1>1 DEF PlainFrame, FrameTyped, StatePCs, EventPCs, IteratorPCs, StepPCs,
     AlgorithmPCs, LockedPCs
<1> QED
  BY <1>2 DEF f

\* A broadcast that has yet to lock the mutex is a plain frame.
LEMMA LockFrames ==
    ASSUME NEW e \in Events
    PROVE  PlainFrame(EventFrame("lock", e))
<1> DEFINE f == EventFrame("lock", e)
<1>1. f \in Frame /\ f.pc = "lock" /\ f.e = e
  BY DEF EventFrame, F0, Frame, PCs, StateOrNil, EventOrNil
<1> HIDE DEF f
<1>2. PlainFrame(f)
  BY <1>1 DEF PlainFrame, FrameTyped, StatePCs, EventPCs, IteratorPCs, StepPCs,
     AlgorithmPCs, LockedPCs
<1> QED
  BY <1>2 DEF f

\* A block of user code is a plain frame.
LEMMA UserFrames ==
    ASSUME NEW events \in SUBSET Events
    PROVE  PlainFrame(UserFrame(events)) /\ UserFrame(events).pc # "lock"
<1> DEFINE f == UserFrame(events)
<1>1. f \in Frame /\ f.pc = "user"
  BY UserCodeAssumption DEF UserFrame, F0, Frame, PCs, StateOrNil, EventOrNil
<1> HIDE DEF f
<1>2. PlainFrame(f) /\ f.pc # "lock"
  BY <1>1 DEF PlainFrame, FrameTyped, StatePCs, EventPCs, IteratorPCs, StepPCs,
     AlgorithmPCs, LockedPCs
<1> QED
  BY <1>2 DEF f

\* A single plain frame can be called.
LEMMA OneCallable ==
    ASSUME NEW f, PlainFrame(f)
    PROVE  Callable(<<f>>)
BY DEF Callable, PlainFrame

\* The virtual enter() of any class can be called from anywhere.
LEMMA EnterCallable ==
    ASSUME NEW s \in States, NEW from_child \in StateOrNil
    PROVE  Callable(EnterCall(s, from_child))
<1> DEFINE a == StateFrame("state_enter", s, NIL)
           b == StateFrame("cluster_enter", s, from_child)
           c == StateFrame("set_enter", s, NIL)
<1>1. PlainFrame(a) /\ PlainFrame(b) /\ PlainFrame(c) /\ b.pc # "lock" /\ c.pc # "lock"
  BY StateFrames DEF StatePCs, StateOrNil
<1>2. EnterCall(s, from_child) \in {<<a>> \o <<b>>, <<a>> \o <<c>>, <<a>> \o <<>>}
  BY DEF EnterCall
<1> HIDE DEF a, b, c
<1>3. a \in Frame /\ b \in Frame /\ c \in Frame
  BY <1>1 DEF PlainFrame
<1>4. ASSUME NEW d \in Frame, PlainFrame(d), d.pc # "lock"
      PROVE  Callable(<<a>> \o <<d>>)
  <2> DEFINE r == <<a>> \o <<d>>
  <2>1. r \in Seq(Frame) /\ Len(r) = 2 /\ r[1] = a /\ r[2] = d
    BY <1>3
  <2> HIDE DEF r
  <2>2. \A i \in 1 .. Len(r) : PlainFrame(r[i]) /\ (i > 1 => r[i].pc # "lock")
    BY <2>1, <1>1, <1>4
  <2> QED
    BY <2>1, <2>2 DEF Callable, r
<1>5. <<a>> \o <<>> = <<a>>
  BY <1>3
<1>6. Callable(<<a>>)
  BY <1>1, OneCallable
<1> QED
  BY <1>1, <1>2, <1>3, <1>4, <1>5, <1>6

\* The virtual exit() of any class can be called from anywhere.
LEMMA ExitCallable ==
    ASSUME NEW s \in States, NEW to \in StateOrNil
    PROVE  Callable(ExitCall(s, to))
<1> DEFINE a == StateFrame("cluster_exit", s, to)
           b == StateFrame("set_exit", s, to)
           c == StateFrame("state_exit", s, to)
<1>1. PlainFrame(a) /\ PlainFrame(b) /\ PlainFrame(c)
  BY StateFrames DEF StatePCs
<1>2. ExitCall(s, to) \in {<<a>>, <<b>>, <<c>>}
  BY DEF ExitCall
<1> HIDE DEF a, b, c
<1> QED
  BY <1>1, <1>2, OneCallable

\* The broadcast of an enter or exit event can be called from anywhere.
LEMMA BroadcastCallable ==
    ASSUME NEW e \in EventOrNil
    PROVE  Callable(LockBroadcast(e))
<1>1. CASE e = NIL
  BY <1>1 DEF LockBroadcast, Callable
<1>2. CASE e # NIL
  <2>1. Callable(<<EventFrame("lock", e)>>)
    BY <1>2, LockFrames, OneCallable DEF EventOrNil
  <2> QED
    BY <1>2, <2>1 DEF LockBroadcast
<1> QED
  BY <1>1, <1>2

-----------------------------------------------------------------------------
(* What a client calls.                                                    *)

\* A call by an idle client thread.
LEMMA CallKeepsInv ==
    ASSUME RuntimeInv, NEW t \in Threads, NEW frames, Callable(frames), Call(t, frames)
    PROVE  RuntimeInv'
<1>1. /\ stack[t] = <<>>
      /\ stack' \in [Threads -> Seq(Frame)]
      /\ stack'[t] = frames
      /\ \A u \in Threads \ {t} : stack'[u] = stack[u]
  BY DEF Call, Idle, Callable, RuntimeInv, TypeOK
<1>2. /\ UNCHANGED <<treeVars, markVars, event_queue_, in_progress_, in_progress, param_block_>>
      /\ UNCHANGED <<owner, depth, ret>>
  BY DEF Call, queueVars, lockVars
<1>3. TypeOK'
  BY <1>1, <1>2 DEF RuntimeInv, TypeOK, treeVars, markVars
<1>4. \A i \in 1 .. Len(frames) :
         /\ FrameTyped(frames[i]) /\ frames[i].pc \notin LockedPCs
         /\ frames[i].pc \notin AlgorithmPCs /\ frames[i].pc \notin StepPCs
         /\ frames[i].pc # "unlock"
  BY DEF Callable, PlainFrame, LockedPCs, AlgorithmPCs, StepPCs
<1>5. FramesTyped'
  BY <1>1, <1>4 DEF RuntimeInv, StackInv, FramesTyped, FrameTyped, InList
<1>6. BroadcastsExclude'
  <2>1. Releases(frames) = {} /\ Releases(stack[t]) = {}
    BY <1>1, <1>4 DEF Releases
  <2>2. ASSUME NEW u \in Threads
        PROVE  /\ HasFrame(u, LockedPCs)' => owner' = u
               /\ owner' = u => depth' = Cardinality(Releases(stack'[u]))
    <3>1. /\ HasFrame(u, LockedPCs) => owner = u
          /\ owner = u => depth = Cardinality(Releases(stack[u]))
      BY DEF RuntimeInv, StackInv, BroadcastsExclude, Releases
    <3>2. CASE u = t
      BY <3>1, <3>2, <2>1, <1>1, <1>2, <1>4 DEF HasFrame, LockedPCs
    <3>3. CASE u # t
      BY <3>1, <3>3, <1>1, <1>2 DEF HasFrame, LockedPCs
    <3> QED
      BY <3>2, <3>3
  <2> QED
    BY <2>2 DEF BroadcastsExclude, Releases
<1>7. (owner = NIL => depth = 0)'
  BY <1>2 DEF RuntimeInv, StackInv
<1>8. ReleasedBelow'
  BY <1>1, <1>4 DEF RuntimeInv, StackInv, ReleasedBelow, LockedPCs
<1>9. OneAlgorithm'
  BY <1>1, <1>2, <1>4 DEF RuntimeInv, StackInv, OneAlgorithm, AlgorithmPCs
<1>10. StepWithinQueue'
  BY <1>1, <1>2, <1>4 DEF RuntimeInv, StackInv, StepWithinQueue, StepPCs, AlgorithmPCs
<1> QED
  BY <1>3, <1>5, <1>6, <1>7, <1>8, <1>9, <1>10 DEF RuntimeInv, StackInv

\* The stacks stay in order while a step changes only other variables.
LEMMA StackInvUnchanged ==
    ASSUME StackInv, UNCHANGED <<stack, owner, depth, in_progress_, event_queue_>>
    PROVE  StackInv'
<1>1. FramesTyped'
  BY DEF StackInv, FramesTyped, FrameTyped, InList
<1>2. BroadcastsExclude'
  BY DEF StackInv, BroadcastsExclude, HasFrame, LockedPCs
<1>3. ReleasedBelow' /\ (owner = NIL => depth = 0)'
  BY DEF StackInv, ReleasedBelow, LockedPCs
<1>4. OneAlgorithm'
  BY DEF StackInv, OneAlgorithm, AlgorithmPCs
<1>5. StepWithinQueue'
  BY DEF StackInv, StepWithinQueue, StepPCs, AlgorithmPCs
<1> QED
  BY <1>1, <1>2, <1>3, <1>4, <1>5 DEF StackInv

\* Every call a client can make keeps the invariant.
LEMMA ClientKeepsInv ==
    ASSUME RuntimeInv, NEW t \in Threads, Client(t)
    PROVE  RuntimeInv'
<1>1. ASSUME NEW e \in Events, CallEvent(t, e) PROVE RuntimeInv'
  <2>1. Callable(<<EventFrame("lock", e)>>)
    BY LockFrames, OneCallable
  <2> QED
    BY <1>1, <2>1, CallKeepsInv DEF CallEvent
<1>2. CASE CallEnter(t)
  <2>1. Callable(EnterCall(Root, NIL))
    BY HierarchyAssumption, EnterCallable DEF StateOrNil
  <2> QED
    BY <1>2, <2>1, CallKeepsInv DEF CallEnter
<1>3. CASE CallExit(t)
  <2>1. Callable(ExitCall(Root, NIL))
    BY HierarchyAssumption, ExitCallable DEF StateOrNil
  <2> QED
    BY <1>3, <2>1, CallKeepsInv DEF CallExit
<1>4. ASSUME NEW s \in States, CallClear(t, s) \/ CallDeepClear(t, s) PROVE RuntimeInv'
  <2>1. \A d \in States : HasDefault(d) => Head(Children[d]) \in States
    BY HierarchyAssumption DEF HasDefault
  <2>2. last_child_' \in [States -> StateOrNil]
    <3>1. last_child_ \in [States -> StateOrNil]
      BY DEF RuntimeInv, TypeOK
    <3>2. CASE CallClear(t, s)
      BY <3>1, <3>2, <2>1 DEF CallClear, StateOrNil
    <3>3. CASE CallDeepClear(t, s)
      BY <3>1, <3>3, <2>1 DEF CallDeepClear, StateOrNil
    <3> QED
      BY <1>4, <3>2, <3>3
  <2>3. UNCHANGED <<state_, active_child_, markVars, queueVars, lockVars, callVars>>
    BY <1>4 DEF CallClear, CallDeepClear
  <2>4. TypeOK'
    BY <2>2, <2>3 DEF RuntimeInv, TypeOK, markVars, queueVars, lockVars, callVars
  <2>5. StackInv'
    BY <2>3, StackInvUnchanged DEF RuntimeInv, queueVars, lockVars, callVars
  <2> QED
    BY <2>4, <2>5 DEF RuntimeInv
<1> QED
  BY <1>1, <1>2, <1>3, <1>4 DEF Client

-----------------------------------------------------------------------------
(* The running frame.                                                      *)

\* What the invariant says of the running frame.
LEMMA TopTyped ==
    ASSUME RuntimeInv, NEW t \in Threads, NEW pc, At(t, pc)
    PROVE  /\ stack[t] # <<>> /\ Top(t) \in Frame /\ FrameTyped(Top(t)) /\ Top(t).pc = pc
           /\ pc \in StepPCs => Top(t).n <= Len(event_queue_)
<1>1. stack[t] # <<>> /\ Top(t).pc = pc
  BY DEF At
<1>2. 1 \in 1 .. Len(stack[t]) /\ Top(t) = stack[t][1] /\ Top(t) \in Frame
  BY <1>1, TopIsFirst DEF RuntimeInv
<1> QED
  BY <1>1, <1>2 DEF RuntimeInv, StackInv, FramesTyped, StepWithinQueue

\* Continuing the running frame, or calling and then continuing it.
LEMMA GotoKeepsInv ==
    ASSUME RuntimeInv, NEW t \in Threads, stack[t] # <<>>, Top(t).pc # "unlock",
           NEW f, Continues(t, f), Goto(t, f),
           UNCHANGED <<treeVars, markVars, queueVars, lockVars>>
    PROVE  RuntimeInv'
<1>1. Orderly(t) /\ ret' = ret
  BY GotoOrderly
<1> QED
  BY <1>1, OrderlyStep DEF RuntimeInv, TypeOK

\* The same with a call in between.
LEMMA CallThenKeepsInv ==
    ASSUME RuntimeInv, NEW t \in Threads, stack[t] # <<>>, Top(t).pc # "unlock",
           NEW frames, Callable(frames), NEW f, Continues(t, f), CallThen(t, frames, f),
           UNCHANGED <<treeVars, markVars, queueVars, lockVars>>
    PROVE  RuntimeInv'
<1>1. Orderly(t) /\ ret' = ret
  BY CallOrderly
<1> QED
  BY <1>1, OrderlyStep DEF RuntimeInv, TypeOK

-----------------------------------------------------------------------------
(* User code, and entering and exiting states: all that a machine does     *)
(* without touching the mutex, the queue, the marks or the algorithm.      *)

\* A step of a frame that does not rely on the mutex, and that pushes none.
Plainly(t) == \E frames : Callable(frames) /\ Become(t, frames)

PlainStep(t) ==
    /\ stack[t] # <<>> /\ Top(t).pc \notin LockedPCs
    /\ Plainly(t)
    /\ DataTyped'
    /\ UNCHANGED <<markVars, queueVars, lockVars>>

\* Such a step keeps the invariant.
LEMMA PlainKeepsInv ==
    ASSUME RuntimeInv, NEW t \in Threads, PlainStep(t)
    PROVE  RuntimeInv'
<1>1. PICK frames : Callable(frames) /\ Become(t, frames)
  BY DEF PlainStep, Plainly
<1>2. Quiet(t, frames)
  BY <1>1 DEF Quiet, Callable
<1>3. stack[t] # <<>> /\ Top(t).pc # "unlock" /\ Orderly(t)
  BY <1>1, <1>2 DEF PlainStep, Orderly, LockedPCs
<1>4. /\ UNCHANGED <<in_progress_, owner, depth>>
      /\ event_queue_' \in Seq(Events) /\ Len(event_queue_') >= Len(event_queue_)
  BY DEF PlainStep, queueVars, lockVars, RuntimeInv, TypeOK
<1> QED
  BY <1>3, <1>4, OrderlyData DEF PlainStep

\* Returning, continuing and calling are plain if the frames are.
LEMMA ReturnPlainly ==
    ASSUME NEW t \in Threads, Become(t, <<>>)
    PROVE  Plainly(t)
<1>1. Callable(<<>>)
  BY DEF Callable
<1> QED
  BY <1>1 DEF Plainly

\* Continuing with a plain frame.
LEMMA GotoPlainly ==
    ASSUME NEW t \in Threads, NEW f, PlainFrame(f), Goto(t, f)
    PROVE  Plainly(t) /\ ret' = ret
  BY OneCallable DEF Plainly, Goto

\* A plain frame below a call can be called with it.
LEMMA AppendCallable ==
    ASSUME NEW frames, Callable(frames), NEW f, PlainFrame(f), f.pc # "lock"
    PROVE  Callable(Append(frames, f))
<1>1. /\ frames \in Seq(Frame) /\ f \in Frame
      /\ \A i \in 1 .. Len(frames) : PlainFrame(frames[i]) /\ (i > 1 => frames[i].pc # "lock")
  BY DEF Callable, PlainFrame
<1>2. /\ Append(frames, f) \in Seq(Frame) /\ Len(Append(frames, f)) = Len(frames) + 1
      /\ \A i \in 1 .. Len(frames) : Append(frames, f)[i] = frames[i]
      /\ Append(frames, f)[Len(frames) + 1] = f /\ Len(frames) \in Nat
  BY <1>1
<1>3. ASSUME NEW i \in 1 .. Len(frames) + 1
      PROVE  PlainFrame(Append(frames, f)[i]) /\ (i > 1 => Append(frames, f)[i].pc # "lock")
  <2>1. CASE i = Len(frames) + 1
    BY <2>1, <1>2
  <2>2. CASE i # Len(frames) + 1
    <3>1. i \in 1 .. Len(frames)
      BY <2>2, <1>2
    <3> QED
      BY <3>1, <1>1, <1>2
  <2> QED
    BY <2>1, <2>2
<1> QED
  BY <1>2, <1>3 DEF Callable

\* Calling and then continuing with a plain frame.
LEMMA CallPlainly ==
    ASSUME NEW t \in Threads, NEW frames, Callable(frames), NEW f, PlainFrame(f),
           f.pc # "lock", CallThen(t, frames, f)
    PROVE  Plainly(t) /\ ret' = ret
<1>1. Callable(Append(frames, f))
  BY AppendCallable
<1> QED
  BY <1>1 DEF Plainly, CallThen

\* A plain step that changes only the state tree ...
LEMMA TreeStepIsPlain ==
    ASSUME RuntimeInv, NEW t \in Threads, stack[t] # <<>>, Top(t).pc \notin LockedPCs,
           Plainly(t), ret' \in [Threads -> BOOLEAN],
           state_' \in [States -> {INACTIVE, ACTIVE, DISABLED}],
           active_child_' \in [States -> StateOrNil], last_child_' \in [States -> StateOrNil],
           UNCHANGED <<markVars, queueVars, lockVars>>
    PROVE  PlainStep(t)
<1>1. DataTyped'
  BY DEF DataTyped, RuntimeInv, TypeOK, markVars, queueVars, lockVars
<1> QED
  BY <1>1 DEF PlainStep

\* ... or nothing but its own stack.
LEMMA StillStepIsPlain ==
    ASSUME RuntimeInv, NEW t \in Threads, stack[t] # <<>>, Top(t).pc \notin LockedPCs,
           Plainly(t), ret' \in [Threads -> BOOLEAN],
           UNCHANGED <<treeVars, markVars, queueVars, lockVars>>
    PROVE  PlainStep(t)
<1>1. /\ state_' \in [States -> {INACTIVE, ACTIVE, DISABLED}]
      /\ active_child_' \in [States -> StateOrNil] /\ last_child_' \in [States -> StateOrNil]
      /\ UNCHANGED <<markVars, queueVars, lockVars>>
  BY DEF RuntimeInv, TypeOK, treeVars
<1> QED
  BY <1>1, TreeStepIsPlain

\* Returning a result from a plain frame.
LEMMA ReturnIsPlain ==
    ASSUME RuntimeInv, NEW t \in Threads, stack[t] # <<>>, Top(t).pc \notin LockedPCs,
           NEW b \in BOOLEAN, Return(t, b),
           UNCHANGED <<treeVars, markVars, queueVars, lockVars>>
    PROVE  PlainStep(t)
<1>1. Plainly(t) /\ ret' \in [Threads -> BOOLEAN]
  BY ReturnPlainly DEF Return, RuntimeInv, TypeOK
<1> QED
  BY <1>1, StillStepIsPlain

\* Continuing a plain frame, or calling and then continuing it.
LEMMA GotoIsPlain ==
    ASSUME RuntimeInv, NEW t \in Threads, stack[t] # <<>>, Top(t).pc \notin LockedPCs,
           NEW f, PlainFrame(f), Goto(t, f),
           UNCHANGED <<treeVars, markVars, queueVars, lockVars>>
    PROVE  PlainStep(t)
<1>1. Plainly(t) /\ ret' \in [Threads -> BOOLEAN]
  BY GotoPlainly DEF RuntimeInv, TypeOK
<1> QED
  BY <1>1, StillStepIsPlain

\* The same with a call in between.
LEMMA CallIsPlain ==
    ASSUME RuntimeInv, NEW t \in Threads, stack[t] # <<>>, Top(t).pc \notin LockedPCs,
           NEW frames, Callable(frames), NEW f, PlainFrame(f), f.pc # "lock",
           CallThen(t, frames, f),
           UNCHANGED <<treeVars, markVars, queueVars, lockVars>>
    PROVE  PlainStep(t)
<1>1. Plainly(t) /\ ret' \in [Threads -> BOOLEAN]
  BY CallPlainly DEF RuntimeInv, TypeOK
<1> QED
  BY <1>1, StillStepIsPlain

\* User code broadcasts or returns.
LEMMA UserCodeIsPlain ==
    ASSUME RuntimeInv, NEW t \in Threads, UserCode(t)
    PROVE  PlainStep(t)
<1> USE DEF LockedPCs
<1>1. CASE UserBroadcast(t)
  <2>1. /\ stack[t] # <<>> /\ Top(t) \in Frame /\ Top(t).pc = "user" /\ Top(t).i > 0
        /\ UNCHANGED <<treeVars, markVars, queueVars, lockVars>>
    BY <1>1, TopTyped DEF UserBroadcast
  <2> DEFINE f == [Top(t) EXCEPT !.i = @ - 1]
  <2>2. PICK e \in Top(t).emits : CallThen(t, <<EventFrame("lock", e)>>, f)
    BY <1>1 DEF UserBroadcast
  <2>3. e \in Events
    BY <2>1, <2>2 DEF Frame
  <2>4. f \in Frame /\ f.pc = "user"
    BY <2>1 DEF Frame
  <2> HIDE DEF f
  <2>5. PlainFrame(f)
    BY <2>4 DEF PlainFrame, FrameTyped, StatePCs, EventPCs, IteratorPCs, StepPCs,
       AlgorithmPCs, LockedPCs
  <2>6. Callable(<<EventFrame("lock", e)>>) /\ PlainFrame(f) /\ f.pc # "lock"
    BY <2>3, <2>4, <2>5, LockFrames, OneCallable
  <2> QED
    BY <2>1, <2>2, <2>6, CallIsPlain
<1>2. CASE UserReturn(t)
  <2>1. stack[t] # <<>> /\ Top(t).pc = "user"
    BY <1>2, TopTyped DEF UserReturn
  <2> QED
    BY <1>2, <2>1, ReturnIsPlain DEF UserReturn
<1> QED
  BY <1>1, <1>2 DEF UserCode

\* Entering states, clusters and sets.
LEMMA EnterStepIsPlain ==
    ASSUME RuntimeInv, NEW t \in Threads, EnterStep(t)
    PROVE  PlainStep(t)
<1> USE DEF StateOrNil, LockedPCs
<1> DEFINE f == Top(t)
           s == f.s
<1>0. /\ \A x \in States : Parent[x] # NIL => Parent[x] \in States
      /\ \A x \in States : IsCluster(x) \in BOOLEAN
      /\ \A x \in States : \A i \in 1 .. Len(Children[x]) : Children[x][i] \in States
  BY HierarchyAssumption DEF IsCluster
<1>a. ASSUME NEW pc \in {"activate", "parent_entered", "switch_active_child"}, s \in States
      PROVE  PlainFrame(StateFrame(pc, s, NIL)) /\ StateFrame(pc, s, NIL).pc # "lock"
  BY <1>a, StateFrames DEF StatePCs
<1>1. CASE StateEnter(t)
  <2>1. /\ stack[t] # <<>> /\ f.pc = "state_enter" /\ s \in States
        /\ UNCHANGED <<treeVars, markVars, queueVars, lockVars>>
    BY <1>1, TopTyped DEF StateEnter, FrameTyped, StatePCs
  <2> DEFINE p == Parent[s]
  <2>2. \/ Return(t, FALSE)
        \/ Goto(t, StateFrame("activate", s, NIL))
        \/ /\ p # NIL
           /\ CallThen(t, EnterCall(p, s), StateFrame("parent_entered", s, NIL))
        \/ Goto(t, StateFrame("switch_active_child", s, NIL))
    BY <1>1 DEF StateEnter
  <2>3. p # NIL => Callable(EnterCall(p, s))
    BY <2>1, <1>0, EnterCallable
  <2> HIDE DEF p
  <2>4. CASE Return(t, FALSE)
    BY <2>1, <2>4, ReturnIsPlain
  <2>5. CASE Goto(t, StateFrame("activate", s, NIL))
    BY <2>1, <2>5, <1>a, GotoIsPlain
  <2>6. CASE p # NIL /\ CallThen(t, EnterCall(p, s), StateFrame("parent_entered", s, NIL))
    BY <2>1, <2>3, <2>6, <1>a, CallIsPlain
  <2>7. CASE Goto(t, StateFrame("switch_active_child", s, NIL))
    BY <2>1, <2>7, <1>a, GotoIsPlain
  <2> QED
    BY <2>2, <2>4, <2>5, <2>6, <2>7
<1>2. CASE ParentEntered(t)
  <2>1. /\ stack[t] # <<>> /\ f.pc = "parent_entered" /\ s \in States
        /\ UNCHANGED <<treeVars, markVars, queueVars, lockVars>>
    BY <1>2, TopTyped DEF ParentEntered, FrameTyped, StatePCs
  <2>2. Return(t, FALSE) \/ Goto(t, StateFrame("activate", s, NIL))
    BY <1>2 DEF ParentEntered
  <2>3. CASE Return(t, FALSE)
    BY <2>1, <2>3, ReturnIsPlain
  <2>4. CASE Goto(t, StateFrame("activate", s, NIL))
    BY <2>1, <2>4, <1>a, GotoIsPlain
  <2> QED
    BY <2>2, <2>3, <2>4
<1>b. /\ state_ \in [States -> {INACTIVE, ACTIVE, DISABLED}]
      /\ active_child_ \in [States -> StateOrNil] /\ last_child_ \in [States -> StateOrNil]
      /\ ret \in [Threads -> BOOLEAN]
  BY DEF RuntimeInv, TypeOK
<1>3. CASE SwitchActiveChildTo(t)
  <2>1. /\ stack[t] # <<>> /\ f.pc = "switch_active_child" /\ s \in States
        /\ UNCHANGED <<markVars, queueVars, lockVars>>
    BY <1>3, TopTyped DEF SwitchActiveChildTo, FrameTyped, StatePCs
  <2> DEFINE p == Parent[s]
  <2>2. /\ \/ Return(t, FALSE)
           \/ Goto(t, StateFrame("activate", s, NIL))
        /\ \/ UNCHANGED treeVars
           \/ /\ active_child_' = [active_child_ EXCEPT ![p] = s]
              /\ last_child_' = [last_child_ EXCEPT ![p] = s]
              /\ UNCHANGED state_
    BY <1>3 DEF SwitchActiveChildTo
  <2>3. /\ state_' \in [States -> {INACTIVE, ACTIVE, DISABLED}]
        /\ active_child_' \in [States -> StateOrNil] /\ last_child_' \in [States -> StateOrNil]
    BY <2>1, <2>2, <1>b DEF treeVars
  <2>4. Plainly(t) /\ ret' \in [Threads -> BOOLEAN]
    <3>1. CASE Return(t, FALSE)
      BY <3>1, <1>b, ReturnPlainly DEF Return
    <3>2. CASE Goto(t, StateFrame("activate", s, NIL))
      BY <3>2, <2>1, <1>a, <1>b, GotoPlainly
    <3> QED
      BY <3>1, <3>2, <2>2
  <2> QED
    BY <2>1, <2>3, <2>4, TreeStepIsPlain
<1>4. CASE Activate(t)
  <2>1. /\ stack[t] # <<>> /\ f.pc = "activate" /\ s \in States
        /\ UNCHANGED <<active_child_, last_child_, markVars, queueVars, lockVars>>
        /\ state_' = [state_ EXCEPT ![s] = ACTIVE]
        /\ CallThen(t, LockBroadcast(EnterEvent[s]), UserFrame(EnterEmits[s]))
    BY <1>4, TopTyped DEF Activate, FrameTyped, StatePCs
  <2>2. state_' \in [States -> {INACTIVE, ACTIVE, DISABLED}]
    BY <2>1, <1>b
  <2>3. Callable(LockBroadcast(EnterEvent[s]))
    BY <2>1, EventAssumption, BroadcastCallable
  <2>4. PlainFrame(UserFrame(EnterEmits[s])) /\ UserFrame(EnterEmits[s]).pc # "lock"
    BY <2>1, UserCodeAssumption, UserFrames
  <2>5. Plainly(t) /\ ret' = ret
    BY <2>1, <2>3, <2>4, CallPlainly
  <2> QED
    BY <2>1, <2>2, <2>5, TreeStepIsPlain, <1>b
<1>5. CASE ClusterEnter(t)
  <2> DEFINE child == ChildToEnter(s, f.c)
  <2>1. /\ stack[t] # <<>> /\ f.pc = "cluster_enter" /\ s \in States /\ f.c \in StateOrNil
        /\ UNCHANGED <<markVars, queueVars, lockVars>>
    BY <1>5, TopTyped DEF ClusterEnter, FrameTyped, StatePCs, Frame
  <2>2. \/ Return(t, ret[t]) /\ UNCHANGED treeVars
        \/ /\ Children[s] # <<>>
           /\ active_child_' = [active_child_ EXCEPT ![s] = child]
           /\ last_child_' = [last_child_ EXCEPT ![s] = child]
           /\ UNCHANGED state_
           /\ Return(t, TRUE) \/ CallThen(t, EnterCall(child, NIL), F0)
    BY <1>5 DEF ClusterEnter
  <2>3. CASE Return(t, ret[t]) /\ UNCHANGED treeVars
    BY <2>1, <2>3, <1>b, ReturnIsPlain
  <2>4. CASE /\ Children[s] # <<>>
             /\ active_child_' = [active_child_ EXCEPT ![s] = child]
             /\ last_child_' = [last_child_ EXCEPT ![s] = child]
             /\ UNCHANGED state_
             /\ Return(t, TRUE) \/ CallThen(t, EnterCall(child, NIL), F0)
    <3>1. child \in States
      <4>1. Head(Children[s]) \in States
        BY <2>1, <2>4, HierarchyAssumption
      <4> QED
        BY <4>1, <2>1, <1>b DEF ChildToEnter
    <3> HIDE DEF child
    <3>2. /\ state_' \in [States -> {INACTIVE, ACTIVE, DISABLED}]
          /\ active_child_' \in [States -> StateOrNil] /\ last_child_' \in [States -> StateOrNil]
      BY <3>1, <2>1, <2>4, <1>b
    <3>3. Plainly(t) /\ ret' \in [Threads -> BOOLEAN]
      <4>1. CASE Return(t, TRUE)
        BY <4>1, <1>b, ReturnPlainly DEF Return
      <4>2. CASE CallThen(t, EnterCall(child, NIL), F0)
        <5>1. Callable(EnterCall(child, NIL)) /\ PlainFrame(F0) /\ F0.pc # "lock"
          BY <3>1, EnterCallable, EmptyFrame
        <5> QED
          BY <5>1, <4>2, <1>b, CallPlainly
      <4> QED
        BY <4>1, <4>2, <2>4
    <3> QED
      BY <3>2, <3>3, <2>1, TreeStepIsPlain
  <2> QED
    BY <2>2, <2>3, <2>4
<1>6. CASE SetEnter(t)
  <2> DEFINE g == [f EXCEPT !.pc = "set_enter_children", !.i = 1]
  <2>1. /\ stack[t] # <<>> /\ f \in Frame /\ f.pc = "set_enter" /\ s \in States
        /\ UNCHANGED <<treeVars, markVars, queueVars, lockVars>>
    BY <1>6, TopTyped DEF SetEnter, FrameTyped, StatePCs
  <2>2. Return(t, FALSE) \/ Goto(t, g)
    BY <1>6 DEF SetEnter
  <2>3. g \in Frame /\ g.pc = "set_enter_children" /\ g.s = s /\ g.i = 1
    BY <2>1 DEF Frame, PCs
  <2> HIDE DEF g
  <2>4. PlainFrame(g)
    BY <2>1, <2>3 DEF PlainFrame, FrameTyped, StatePCs, EventPCs, IteratorPCs, StepPCs,
       AlgorithmPCs, LockedPCs
  <2>5. CASE Return(t, FALSE)
    BY <2>1, <2>5, ReturnIsPlain
  <2>6. CASE Goto(t, g)
    BY <2>1, <2>4, <2>6, GotoIsPlain
  <2> QED
    BY <2>2, <2>5, <2>6
<1>7. CASE SetEnterChildren(t)
  <2> DEFINE g == [f EXCEPT !.i = @ + 1]
             kid == Children[s][f.i]
  <2>1. /\ stack[t] # <<>> /\ f \in Frame /\ f.pc = "set_enter_children" /\ s \in States
        /\ f.i \in Nat /\ f.i > 0
        /\ UNCHANGED <<treeVars, markVars, queueVars, lockVars>>
    BY <1>7, TopTyped DEF SetEnterChildren, FrameTyped, StatePCs, Frame
  <2>2. \/ Return(t, TRUE)
        \/ ~ (f.i > Len(Children[s])) /\ CallThen(t, EnterCall(kid, NIL), g)
    BY <1>7 DEF SetEnterChildren
  <2>3. ~ (f.i > Len(Children[s])) => kid \in States
    BY <2>1, HierarchyAssumption
  <2>4. g \in Frame /\ g.pc = "set_enter_children" /\ g.s = s /\ g.i > 0
    BY <2>1 DEF Frame
  <2> HIDE DEF g, kid
  <2>5. PlainFrame(g)
    BY <2>1, <2>4 DEF PlainFrame, FrameTyped, StatePCs, EventPCs, IteratorPCs, StepPCs,
       AlgorithmPCs, LockedPCs
  <2>6. CASE Return(t, TRUE)
    BY <2>1, <2>6, ReturnIsPlain
  <2>7. CASE ~ (f.i > Len(Children[s])) /\ CallThen(t, EnterCall(kid, NIL), g)
    <3>1. Callable(EnterCall(kid, NIL)) /\ PlainFrame(g) /\ g.pc # "lock"
      BY <2>3, <2>4, <2>5, <2>7, EnterCallable
    <3> QED
      BY <3>1, <2>1, <2>7, CallIsPlain
  <2> QED
    BY <2>2, <2>6, <2>7
<1>8. CASE ReturnTrue(t)
  <2>1. stack[t] # <<>> /\ f.pc = "return_true"
    BY <1>8, TopTyped DEF ReturnTrue
  <2> QED
    BY <1>8, <2>1, ReturnIsPlain DEF ReturnTrue
<1> QED
  BY <1>1, <1>2, <1>3, <1>4, <1>5, <1>6, <1>7, <1>8 DEF EnterStep

\* Exiting states, clusters and sets.
LEMMA ExitStepIsPlain ==
    ASSUME RuntimeInv, NEW t \in Threads, ExitStep(t)
    PROVE  PlainStep(t)
<1> USE DEF StateOrNil, LockedPCs
<1> DEFINE f == Top(t)
           s == f.s
<1>a. /\ state_ \in [States -> {INACTIVE, ACTIVE, DISABLED}]
      /\ active_child_ \in [States -> StateOrNil] /\ last_child_ \in [States -> StateOrNil]
      /\ ret \in [Threads -> BOOLEAN]
  BY DEF RuntimeInv, TypeOK
<1>1. CASE StateExit(t)
  <2> DEFINE g == [f EXCEPT !.pc = "exit_parent"]
             called == Append(LockBroadcast(ExitEvent[s]), UserFrame(ExitEmits[s]))
  <2>1. /\ stack[t] # <<>> /\ f \in Frame /\ f.pc = "state_exit" /\ s \in States
        /\ UNCHANGED <<active_child_, last_child_, markVars, queueVars, lockVars>>
    BY <1>1, TopTyped DEF StateExit, FrameTyped, StatePCs
  <2>2. \/ Return(t, FALSE) /\ UNCHANGED state_
        \/ state_' = [state_ EXCEPT ![s] = INACTIVE] /\ CallThen(t, called, g)
    BY <1>1 DEF StateExit
  <2>3. state_' \in [States -> {INACTIVE, ACTIVE, DISABLED}]
    BY <2>1, <2>2, <1>a
  <2>4. g \in Frame /\ g.pc = "exit_parent" /\ g.s = s
    BY <2>1 DEF Frame, PCs
  <2>5. Callable(called)
    <3>1. Callable(LockBroadcast(ExitEvent[s]))
      BY <2>1, EventAssumption, BroadcastCallable
    <3>2. PlainFrame(UserFrame(ExitEmits[s])) /\ UserFrame(ExitEmits[s]).pc # "lock"
      BY <2>1, UserCodeAssumption, UserFrames
    <3> QED
      BY <3>1, <3>2, AppendCallable
  <2> HIDE DEF g, called
  <2>6. PlainFrame(g)
    BY <2>1, <2>4 DEF PlainFrame, FrameTyped, StatePCs, EventPCs, IteratorPCs, StepPCs,
       AlgorithmPCs, LockedPCs
  <2>7. Plainly(t) /\ ret' \in [Threads -> BOOLEAN]
    <3>1. CASE Return(t, FALSE)
      BY <3>1, <1>a, ReturnPlainly DEF Return
    <3>2. CASE CallThen(t, called, g)
      BY <3>2, <2>4, <2>5, <2>6, <1>a, CallPlainly
    <3> QED
      BY <3>1, <3>2, <2>2
  <2> QED
    BY <2>1, <2>3, <2>7, <1>a, TreeStepIsPlain
<1>2. CASE ExitParent(t)
  <2> DEFINE p == Parent[s]
  <2>1. /\ stack[t] # <<>> /\ f.pc = "exit_parent" /\ s \in States /\ f.c \in StateOrNil
        /\ UNCHANGED <<treeVars, markVars, queueVars, lockVars>>
    BY <1>2, TopTyped DEF ExitParent, FrameTyped, StatePCs, Frame
  <2>2. \/ p # NIL /\ CallThen(t, ExitCall(p, f.c), F0)
        \/ Return(t, TRUE)
    BY <1>2 DEF ExitParent
  <2>3. p # NIL => Callable(ExitCall(p, f.c))
    BY <2>1, HierarchyAssumption, ExitCallable
  <2> HIDE DEF p
  <2>4. CASE p # NIL /\ CallThen(t, ExitCall(p, f.c), F0)
    BY <2>1, <2>3, <2>4, EmptyFrame, CallIsPlain
  <2>5. CASE Return(t, TRUE)
    BY <2>1, <2>5, ReturnIsPlain
  <2> QED
    BY <2>2, <2>4, <2>5
<1>3. CASE ClusterExit(t)
  <2> DEFINE child == active_child_[s]
  <2>1. /\ stack[t] # <<>> /\ f.pc = "cluster_exit" /\ s \in States /\ f.c \in StateOrNil
        /\ UNCHANGED <<treeVars, markVars, queueVars, lockVars>>
    BY <1>3, TopTyped DEF ClusterExit, FrameTyped, StatePCs, Frame
  <2>2. \/ Return(t, FALSE)
        \/ child # NIL /\ CallThen(t, ExitCall(child, NIL), StateFrame("state_exit", s, f.c))
    BY <1>3 DEF ClusterExit
  <2>3. child # NIL => Callable(ExitCall(child, NIL))
    BY <2>1, <1>a, ExitCallable
  <2>4. PlainFrame(StateFrame("state_exit", s, f.c)) /\ StateFrame("state_exit", s, f.c).pc # "lock"
    BY <2>1, StateFrames DEF StatePCs
  <2> HIDE DEF child
  <2>5. CASE Return(t, FALSE)
    BY <2>1, <2>5, ReturnIsPlain
  <2>6. CASE child # NIL /\ CallThen(t, ExitCall(child, NIL), StateFrame("state_exit", s, f.c))
    BY <2>1, <2>3, <2>4, <2>6, CallIsPlain
  <2> QED
    BY <2>2, <2>5, <2>6
<1>4. CASE SetExit(t)
  <2> DEFINE g == [f EXCEPT !.pc = "set_exit_children", !.i = 1]
  <2>1. /\ stack[t] # <<>> /\ f \in Frame /\ f.pc = "set_exit" /\ s \in States
        /\ UNCHANGED <<treeVars, markVars, queueVars, lockVars>>
    BY <1>4, TopTyped DEF SetExit, FrameTyped, StatePCs
  <2>2. Return(t, FALSE) \/ Goto(t, g)
    BY <1>4 DEF SetExit
  <2>3. g \in Frame /\ g.pc = "set_exit_children" /\ g.s = s /\ g.i = 1
    BY <2>1 DEF Frame, PCs
  <2> HIDE DEF g
  <2>4. PlainFrame(g)
    BY <2>1, <2>3 DEF PlainFrame, FrameTyped, StatePCs, EventPCs, IteratorPCs, StepPCs,
       AlgorithmPCs, LockedPCs
  <2>5. CASE Return(t, FALSE)
    BY <2>1, <2>5, ReturnIsPlain
  <2>6. CASE Goto(t, g)
    BY <2>1, <2>4, <2>6, GotoIsPlain
  <2> QED
    BY <2>2, <2>5, <2>6
<1>5. CASE SetExitChildren(t)
  <2> DEFINE g == [f EXCEPT !.i = @ + 1]
             kid == Children[s][f.i]
  <2>1. /\ stack[t] # <<>> /\ f \in Frame /\ f.pc = "set_exit_children" /\ s \in States
        /\ f.i \in Nat /\ f.i > 0 /\ f.c \in StateOrNil
        /\ UNCHANGED <<treeVars, markVars, queueVars, lockVars>>
    BY <1>5, TopTyped DEF SetExitChildren, FrameTyped, StatePCs, Frame
  <2>2. \/ Goto(t, StateFrame("state_exit", s, f.c))
        \/ ~ (f.i > Len(Children[s])) /\ CallThen(t, ExitCall(kid, NIL), g)
    BY <1>5 DEF SetExitChildren
  <2>3. ~ (f.i > Len(Children[s])) => kid \in States
    BY <2>1, HierarchyAssumption
  <2>4. g \in Frame /\ g.pc = "set_exit_children" /\ g.s = s /\ g.i > 0
    BY <2>1 DEF Frame
  <2> HIDE DEF g, kid
  <2>5. PlainFrame(g) /\ PlainFrame(StateFrame("state_exit", s, f.c))
    <3>1. PlainFrame(g)
      BY <2>1, <2>4 DEF PlainFrame, FrameTyped, StatePCs, EventPCs, IteratorPCs, StepPCs,
         AlgorithmPCs, LockedPCs
    <3> QED
      BY <3>1, <2>1, StateFrames DEF StatePCs
  <2>6. CASE Goto(t, StateFrame("state_exit", s, f.c))
    BY <2>1, <2>5, <2>6, GotoIsPlain
  <2>7. CASE ~ (f.i > Len(Children[s])) /\ CallThen(t, ExitCall(kid, NIL), g)
    <3>1. Callable(ExitCall(kid, NIL)) /\ PlainFrame(g) /\ g.pc # "lock"
      BY <2>3, <2>4, <2>5, <2>7, ExitCallable
    <3> QED
      BY <3>1, <2>1, <2>7, CallIsPlain
  <2> QED
    BY <2>2, <2>6, <2>7
<1> QED
  BY <1>1, <1>2, <1>3, <1>4, <1>5 DEF ExitStep

-----------------------------------------------------------------------------
(* The mutex.                                                              *)

\* Locking pushes one release and counts it.
LEMMA LockKeepsInv ==
    ASSUME RuntimeInv, NEW t \in Threads, Lock(t)
    PROVE  RuntimeInv'
<1> DEFINE s == stack[t]
           r == stack'[t]
           a == EventFrame("broadcast", Top(t).e)
           b == EventFrame("unlock", NIL)
           frames == Append(<<a>>, b)
<1>1. /\ TypeOK /\ StackInv /\ s # <<>> /\ Top(t).pc = "lock" /\ Top(t).e \in Events
      /\ owner \in {NIL, t} /\ owner' = t /\ depth' = depth + 1
      /\ Become(t, frames) /\ ret' = ret
      /\ UNCHANGED <<treeVars, markVars, queueVars>>
  BY TopTyped DEF RuntimeInv, Lock, CallThen, FrameTyped, EventPCs
<1>2. /\ a \in Frame /\ a.pc = "broadcast" /\ a.e \in Events
      /\ b \in Frame /\ b.pc = "unlock"
  BY <1>1 DEF EventFrame, F0, Frame, PCs, StateOrNil, EventOrNil
<1> HIDE DEF a, b
<1>3. frames \in Seq(Frame) /\ Len(frames) = 2 /\ frames[1] = a /\ frames[2] = b
  BY <1>2
<1> HIDE DEF frames
<1>4. /\ FrameTyped(frames[1]) /\ FrameTyped(frames[2])
  BY <1>2, <1>3 DEF FrameTyped, StatePCs, EventPCs, IteratorPCs, StepPCs, AlgorithmPCs
<1>5. \A i \in 1 .. Len(frames) : i \in {1, 2}
  BY <1>3
<1>6. /\ event_queue_' = event_queue_ /\ in_progress_' = in_progress_
      /\ event_queue_' \in Seq(Events) /\ Len(event_queue_') >= Len(event_queue_)
  BY <1>1 DEF queueVars, TypeOK
<1>7. TypeOK'
  <2>1. stack' \in [Threads -> Seq(Frame)]
    BY <1>1, <1>3, BecomeReplaces
  <2> QED
    BY <1>1, <2>1 DEF TypeOK, treeVars, markVars, queueVars
<1>8. FramesTyped'
  BY <1>1, <1>3, <1>4, <1>5, FramesTypedStep DEF StackInv
<1>9. ReleasedBelow'
  <2>1. \A i \in 1 .. Len(frames) : frames[i].pc \in LockedPCs \ {"unlock"} =>
            i + 1 \in 1 .. Len(frames) /\ frames[i + 1].pc = "unlock"
    BY <1>2, <1>3, <1>5
  <2> QED
    BY <1>1, <1>3, <2>1, ReleasedStep DEF StackInv
<1>10. OneAlgorithm'
  <2>1. \A i \in 1 .. Len(frames) : frames[i].pc \notin AlgorithmPCs
    BY <1>2, <1>3, <1>5 DEF AlgorithmPCs
  <2> QED
    BY <1>1, <1>3, <1>6, <2>1, OneAlgorithmStep DEF StackInv
<1>11. StepWithinQueue'
  <2>1. \A i \in 1 .. Len(frames) : frames[i].pc \notin StepPCs
    BY <1>2, <1>3, <1>5 DEF StepPCs, AlgorithmPCs
  <2> QED
    BY <1>1, <1>3, <1>6, <2>1, WithinQueueStep DEF StackInv
<1>12. BroadcastsExclude'
  <2>1. depth = Cardinality(Releases(s))
    <3>1. CASE owner = t
      BY <3>1, <1>1 DEF StackInv, BroadcastsExclude, Releases
    <3>2. CASE owner = NIL
      <4>1. owner # t /\ depth = 0
        BY <3>2, <1>1, ThreadAssumption DEF StackInv
      <4>2. Releases(s) = {}
        BY <4>1, <1>1 DEF StackInv, BroadcastsExclude, HasFrame, Releases, LockedPCs
      <4> QED
        BY <4>1, <4>2, FS_EmptySet
    <3> QED
      BY <3>1, <3>2, <1>1
  <2>2. Cardinality(Releases(r)) = Cardinality(Releases(s)) + 1
    <3>1. Cardinality(Releases(frames)) = 1
      <4>1. Releases(frames) = {2}
        BY <1>2, <1>3, <1>5 DEF Releases
      <4> QED
        BY <4>1, FS_Singleton
    <3>2. s \in Seq(Frame) /\ s[1].pc # "unlock" /\ Replaces(r, s, frames)
      BY <1>1, <1>3, BecomeReplaces, TopIsFirst
    <3>3. Cardinality(Releases(s)) \in Nat
      BY <3>2, ReleasesFinite
    <3> HIDE DEF s, r
    <3> QED
      BY <1>1, <1>3, <3>1, <3>2, <3>3, ReleasesReplace
  <2>3. ASSUME NEW u \in Threads
        PROVE  /\ HasFrame(u, LockedPCs)' => owner' = u
               /\ owner' = u => depth' = Cardinality(Releases(stack'[u]))
    <3>1. CASE u = t
      BY <3>1, <2>1, <2>2, <1>1
    <3>2. CASE u # t
      <4>1. stack'[u] = stack[u]
        BY <3>2, <1>1, <1>3, BecomeFrames
      <4>2. owner # u
        BY <3>2, <1>1, ThreadAssumption
      <4>3. ~ HasFrame(u, LockedPCs)'
        BY <4>1, <4>2, <1>1 DEF StackInv, BroadcastsExclude, HasFrame, LockedPCs
      <4> QED
        BY <4>3, <3>2, <1>1
    <3> QED
      BY <3>1, <3>2
  <2> QED
    BY <2>3 DEF BroadcastsExclude, Releases
<1>13. (owner = NIL => depth = 0)'
  BY <1>1, ThreadAssumption
<1> QED
  BY <1>7, <1>8, <1>9, <1>10, <1>11, <1>12, <1>13 DEF RuntimeInv, StackInv

\* Unlocking pops one release; with the last one no frame relies on the mutex.
LEMMA UnlockKeepsInv ==
    ASSUME RuntimeInv, NEW t \in Threads, Unlock(t)
    PROVE  RuntimeInv'
<1> DEFINE s == stack[t]
           r == stack'[t]
           none == <<>>
<1>1. /\ TypeOK /\ StackInv /\ s # <<>> /\ Top(t).pc = "unlock"
      /\ depth' = depth - 1 /\ owner' = (IF depth = 1 THEN NIL ELSE owner)
      /\ Become(t, none) /\ ret' = ret
      /\ UNCHANGED <<treeVars, markVars, queueVars>>
  BY TopTyped DEF RuntimeInv, Unlock, ReturnVoid
<1>2. none \in Seq(Frame) /\ Len(none) = 0 /\ \A i \in 1 .. Len(none) : FALSE
  OBVIOUS
<1> HIDE DEF none
<1>3. /\ event_queue_' = event_queue_ /\ in_progress_' = in_progress_
      /\ event_queue_' \in Seq(Events) /\ Len(event_queue_') >= Len(event_queue_)
  BY <1>1 DEF queueVars, TypeOK
<1>4. s \in Seq(Frame) /\ 1 \in 1 .. Len(s) /\ s[1].pc = "unlock" /\ Replaces(r, s, none)
  <2>1. Replaces(r, s, none)
    BY <1>1, <1>2, BecomeReplaces
  <2>2. s \in Seq(Frame) /\ Len(s) \in Nat /\ Len(s) > 0 /\ Top(t) = s[1]
    BY <1>1, TopIsFirst
  <2> QED
    BY <2>1, <2>2, <1>1
<1>5. owner = t /\ depth = Cardinality(Releases(s))
  BY <1>1, <1>4 DEF StackInv, BroadcastsExclude, HasFrame, Releases, LockedPCs
<1>6. /\ r \in Seq(Frame) /\ Cardinality(Releases(r)) \in Nat
      /\ depth \in Nat /\ depth' = Cardinality(Releases(r))
  <2>1. Cardinality(Releases(none)) = 0
    <3>1. Releases(none) = {}
      BY <1>2 DEF Releases
    <3> QED
      BY <3>1, FS_EmptySet
  <2>2. r \in Seq(Frame)
    BY <1>4 DEF Replaces
  <2>3. Cardinality(Releases(s)) \in Nat /\ Cardinality(Releases(r)) \in Nat
    BY <1>4, <2>2, ReleasesFinite
  <2> HIDE DEF s, r
  <2>4. Cardinality(Releases(r)) =
            Cardinality(Releases(s)) + Cardinality(Releases(none)) - 1
    BY <1>1, <1>2, <1>4, ReleasesReplace
  <2> QED
    BY <1>1, <1>5, <2>1, <2>2, <2>3, <2>4
<1>7. TypeOK'
  <2>1. stack' \in [Threads -> Seq(Frame)]
    BY <1>1, <1>2, BecomeReplaces
  <2>2. depth' \in Nat /\ owner' \in Threads \cup {NIL}
    BY <1>1, <1>5, <1>6
  <2> QED
    BY <1>1, <2>1, <2>2 DEF TypeOK, treeVars, markVars, queueVars
<1>8. FramesTyped'
  BY <1>1, <1>2, FramesTypedStep DEF StackInv
<1>9. ReleasedBelow'
  BY <1>1, <1>2, ReleasedStep DEF StackInv
<1>10. OneAlgorithm'
  BY <1>1, <1>2, <1>3, OneAlgorithmStep DEF StackInv
<1>11. StepWithinQueue'
  BY <1>1, <1>2, <1>3, WithinQueueStep DEF StackInv
<1>12. BroadcastsExclude'
  <2>1. ASSUME depth = 1, HasFrame(t, LockedPCs)' PROVE FALSE
    <3>1. Releases(r) = {}
      <4>1. Cardinality(Releases(r)) = 0 /\ IsFiniteSet(Releases(r))
        BY <2>1, <1>1, <1>6, ReleasesFinite
      <4> QED
        BY <4>1, FS_EmptySet
    <3>2. \A i \in 1 .. Len(r) : r[i].pc # "unlock"
      BY <3>1 DEF Releases
    <3>3. PICK i \in 1 .. Len(r) : r[i].pc \in LockedPCs
      BY <2>1 DEF HasFrame, LockedPCs
    <3>4. i + 1 \in 1 .. Len(r) /\ r[i + 1].pc = "unlock"
      BY <1>9, <3>2, <3>3 DEF ReleasedBelow, LockedPCs
    <3> QED
      BY <3>2, <3>4
  <2>2. ASSUME NEW u \in Threads
        PROVE  /\ HasFrame(u, LockedPCs)' => owner' = u
               /\ owner' = u => depth' = Cardinality(Releases(stack'[u]))
    <3>1. CASE u = t
      BY <3>1, <2>1, <1>1, <1>5, <1>6
    <3>2. CASE u # t
      <4>1. stack'[u] = stack[u]
        BY <3>2, <1>1, <1>2, BecomeReplaces
      <4>2. owner # u /\ owner' # u
        BY <3>2, <1>1, <1>5, ThreadAssumption
      <4>3. ~ HasFrame(u, LockedPCs)'
        BY <4>1, <4>2, <1>1 DEF StackInv, BroadcastsExclude, HasFrame, LockedPCs
      <4> QED
        BY <4>2, <4>3
    <3> QED
      BY <3>1, <3>2
  <2> QED
    BY <2>2 DEF BroadcastsExclude, Releases
<1>13. (owner = NIL => depth = 0)'
  BY <1>1, <1>5, <1>6, ThreadAssumption
<1> QED
  BY <1>7, <1>8, <1>9, <1>10, <1>11, <1>12, <1>13 DEF RuntimeInv, StackInv

-----------------------------------------------------------------------------
(* Broadcasting an event.                                                  *)

\* The iterator refers to a transition while it is in its list.
LEMMA CurTransitionTyped ==
    ASSUME NEW f \in Frame, f.list \in Events, f.i > 0, InList(f)
    PROVE  CurTransition(f) \in Transitions
<1>1. f.i \in 1 .. Len(TransitionList[f.list])
  BY TransitionAssumption DEF InList, Frame
<1> QED
  BY <1>1, TransitionAssumption DEF CurTransition

\* The counters stay natural numbers.
LEMMA CountersTyped ==
    ASSUME in_progress \in [Events -> Nat], NEW e
    PROVE  Marked(e) \in [Events -> Nat] /\ Unmarked(e) \in [Events -> Nat]
<1>1. Marked(e) \in [Events -> Nat]
  BY DEF Marked
<1>2. Unmarked(e) \in [Events -> Nat]
  BY DEF Unmarked
<1> QED
  BY <1>1, <1>2

\* A frame that finds transitions continues one of a broadcast.
LEMMA FindContinues ==
    ASSUME NEW t, Top(t).pc \in {"precondition", "find_transition"},
           NEW g \in Frame, g.pc = "find_transition", g.e \in Events,
           g.list \in Events, g.i > 0
    PROVE  Continues(t, g)
BY DEF Continues, FrameTyped, StatePCs, EventPCs, IteratorPCs, StepPCs, AlgorithmPCs, LockedPCs

\* A base event is an event.
LEMMA BaseTyped ==
    ASSUME NEW e \in Events, Base[e] # NIL
    PROVE  Base[e] \in Events
BY EventAssumption DEF EventOrNil

\* Finding transitions marks them, sets targets and disables states.
LEMMA FindKeepsInv ==
    ASSUME RuntimeInv, NEW t \in Threads,
           FindSkip(t) \/ FindInternal(t) \/ FindAborted(t) \/ FindExternal(t)
    PROVE  RuntimeInv'
<1> DEFINE f == Top(t)
           tr == CurTransition(f)
           g == NextTransition(f)
           h == [g EXCEPT !.found = TRUE]
<1>1. /\ TypeOK /\ StackInv /\ stack[t] # <<>> /\ f \in Frame /\ f.pc = "find_transition"
      /\ f.e \in Events /\ f.list \in Events /\ f.i > 0 /\ InList(f)
  BY TopTyped DEF RuntimeInv, FindSkip, FindInternal, FindAborted, FindExternal, AtTransition,
     FrameTyped, EventPCs, IteratorPCs
<1>2. tr \in Transitions
  BY <1>1, CurTransitionTyped
<1>3. Continues(t, g) /\ Continues(t, h)
  <2>1. /\ g \in Frame /\ g.pc = "find_transition" /\ g.e \in Events
        /\ g.list \in Events /\ g.i > 0
    BY <1>1 DEF NextTransition, Frame
  <2>2. /\ h \in Frame /\ h.pc = "find_transition" /\ h.e \in Events
        /\ h.list \in Events /\ h.i > 0
    <3> HIDE DEF g
    <3> QED
      BY <2>1 DEF Frame
  <2> HIDE DEF g, h
  <2>3. Continues(t, g)
    BY <1>1, <2>1, FindContinues
  <2>4. Continues(t, h)
    BY <1>1, <2>2, FindContinues
  <2> QED
    BY <2>3, <2>4
<1> HIDE DEF g, h
<1>4. /\ Goto(t, g) \/ Goto(t, h)
      /\ UNCHANGED <<active_child_, last_child_, queueVars, lockVars>>
  BY DEF FindSkip, FindInternal, FindAborted, FindExternal, treeVars, g, h
<1>5. Orderly(t) /\ ret' = ret
  BY <1>3, <1>4, GotoOrderly
<1>6. taken_' \in [Transitions -> EventOrNil]
  <2>1. \/ taken_' = taken_
        \/ taken_' = [taken_ EXCEPT ![tr] = IF @ = NIL THEN f.e ELSE @]
    BY DEF FindSkip, FindInternal, FindAborted, FindExternal, MarkTaken, markVars
  <2> HIDE DEF tr
  <2> QED
    BY <1>1, <1>2, <2>1 DEF TypeOK, EventOrNil
<1>7. target_' \in [Transitions -> StateOrNil]
  <2>1. \/ target_' = target_
        \/ \E to \in PossibleTargets(tr) \ {NIL} : target_' = [target_ EXCEPT ![tr] = to]
    BY DEF FindSkip, FindInternal, FindAborted, FindExternal, markVars
  <2>2. PossibleTargets(tr) \subseteq StateOrNil
    BY <1>2, TransitionAssumption DEF PossibleTargets
  <2> HIDE DEF tr
  <2> QED
    BY <1>1, <1>2, <2>1, <2>2 DEF TypeOK
<1>8. state_' \in [States -> {INACTIVE, ACTIVE, DISABLED}]
  <2>1. state_' = state_ \/ state_' = [state_ EXCEPT ![From[tr]] = DISABLED]
    BY DEF FindSkip, FindInternal, FindAborted, FindExternal, treeVars
  <2> HIDE DEF tr
  <2> QED
    BY <1>1, <2>1 DEF TypeOK
<1>9. DataTyped'
  BY <1>1, <1>4, <1>5, <1>6, <1>7, <1>8 DEF DataTyped, TypeOK, queueVars
<1>10. /\ UNCHANGED <<in_progress_, owner, depth>>
       /\ event_queue_' \in Seq(Events) /\ Len(event_queue_') >= Len(event_queue_)
  BY <1>1, <1>4 DEF queueVars, lockVars, TypeOK
<1> QED
  BY <1>1, <1>5, <1>9, <1>10, OrderlyData

\* Cancelling a broadcast.
LEMMA CancelKeepsInv ==
    ASSUME RuntimeInv, NEW t \in Threads, stack[t] # <<>>, Top(t).pc # "unlock", Cancel(t)
    PROVE  RuntimeInv'
<1>1. Orderly(t) /\ ret' = ret
  BY ReturnOrderly DEF Cancel, ReturnVoid
<1>2. in_progress' \in [Events -> Nat]
  BY CountersTyped DEF Cancel, RuntimeInv, TypeOK
<1>3. DataTyped'
  BY <1>1, <1>2 DEF DataTyped, Cancel, RuntimeInv, TypeOK, treeVars, markVars
<1>4. /\ UNCHANGED <<in_progress_, owner, depth>>
      /\ event_queue_' \in Seq(Events) /\ Len(event_queue_') >= Len(event_queue_)
  BY DEF Cancel, lockVars, RuntimeInv, TypeOK
<1> QED
  BY <1>1, <1>3, <1>4, OrderlyData

\* Returning nothing from the running frame.
LEMMA ReturnVoidKeepsInv ==
    ASSUME RuntimeInv, NEW t \in Threads, stack[t] # <<>>, Top(t).pc # "unlock",
           ReturnVoid(t), UNCHANGED <<treeVars, markVars, queueVars, lockVars>>
    PROVE  RuntimeInv'
<1>1. Orderly(t) /\ ret' \in [Threads -> BOOLEAN]
  BY ReturnOrderly DEF ReturnVoid, RuntimeInv, TypeOK
<1> QED
  BY <1>1, OrderlyStep

\* A frame of a micro-step continues another one of it.
LEMMA StepContinues ==
    ASSUME RuntimeInv, NEW t \in Threads, NEW pc \in StepPCs, At(t, pc),
           NEW g \in Frame, g.pc \in StepPCs, g.q > 0, g.n = Top(t).n,
           g.pc \in IteratorPCs => g.list \in Events /\ g.i > 0,
           g.pc \in {"action", "unmark"} => InList(g),
           event_queue_' = event_queue_
    PROVE  Continues(t, g)
<1>1. Top(t).pc \in StepPCs /\ Top(t).n <= Len(event_queue_)
  BY TopTyped
<1>2. g.pc \notin StatePCs
  BY DEF StatePCs, StepPCs, AlgorithmPCs
<1>3. g.pc \notin EventPCs
  BY DEF EventPCs, StepPCs, AlgorithmPCs
<1>4. g.pc \notin {"set_enter_children", "set_exit_children"}
  BY <1>2 DEF StatePCs
<1>5. FrameTyped(g)
  BY <1>2, <1>3, <1>4 DEF FrameTyped
<1> QED
  BY <1>1, <1>5 DEF Continues, StepPCs, AlgorithmPCs, LockedPCs

\* Proceeding to the transitions of the base event.
LEMMA BumpKeepsInv ==
    ASSUME RuntimeInv, NEW t \in Threads, Bump(t)
    PROVE  RuntimeInv'
<1> DEFINE f == Top(t)
           g == [f EXCEPT !.list = Base[f.list], !.i = 1]
<1>1. PICK pc \in {"find_transition", "exit_from", "enter_to"} : At(t, pc)
  BY DEF Bump
<1>2. /\ stack[t] # <<>> /\ f \in Frame /\ f.pc = pc /\ FrameTyped(f)
      /\ Base[f.list] # NIL /\ Goto(t, g)
      /\ UNCHANGED <<treeVars, markVars, queueVars, lockVars>>
  BY <1>1, TopTyped DEF Bump, CanBump
<1>3. f.list \in Events /\ Base[f.list] \in Events
  BY <1>1, <1>2, BaseTyped DEF FrameTyped, IteratorPCs
<1>4. /\ g \in Frame /\ g.pc = pc /\ g.list \in Events /\ g.i > 0
      /\ g.e = f.e /\ g.q = f.q /\ g.n = f.n
  <2>1. Base[f.list] \in EventOrNil
    BY <1>3 DEF EventOrNil
  <2>2. g.pc = pc
    BY <1>2 DEF Frame
  <2>3. PICK l \in EventOrNil : l = Base[f.list]
    BY <2>1
  <2>4. g = [f EXCEPT !.list = l, !.i = 1]
    BY <2>3
  <2> HIDE DEF f, g
  <2>5. /\ g \in Frame /\ g.list = l /\ g.i = 1
        /\ g.e = f.e /\ g.q = f.q /\ g.n = f.n
    BY <1>2, <2>4 DEF Frame
  <2> QED
    BY <1>3, <2>2, <2>3, <2>5
<1> HIDE DEF g
<1>5. Continues(t, g)
  <2>1. CASE pc = "find_transition"
    <3>1. f.e \in Events
      BY <2>1, <1>2 DEF FrameTyped, EventPCs
    <3> QED
      BY <2>1, <3>1, <1>2, <1>4, FindContinues
  <2>2. CASE pc # "find_transition"
    <3>1. pc \in StepPCs /\ g.pc \notin {"action", "unmark"}
      BY <2>2, <1>4 DEF StepPCs, AlgorithmPCs
    <3>2. g.q > 0 /\ event_queue_' = event_queue_
      BY <3>1, <1>2, <1>4 DEF FrameTyped, queueVars
    <3> QED
      BY <3>1, <3>2, <1>1, <1>4, StepContinues
  <2> QED
    BY <2>1, <2>2
<1>6. f.pc # "unlock"
  BY <1>2
<1> QED
  BY <1>2, <1>5, <1>6, GotoKeepsInv

\* All of event::broadcast() and what it calls.
LEMMA BroadcastStepKeepsInv ==
    ASSUME RuntimeInv, NEW t \in Threads, BroadcastStep(t)
    PROVE  RuntimeInv'
<1> DEFINE f == Top(t)
<1>1. CASE BroadcastDropped(t)
  <2>1. stack[t] # <<>> /\ f.pc = "broadcast"
    BY <1>1, TopTyped DEF BroadcastDropped
  <2> QED
    BY <1>1, <2>1, ReturnVoidKeepsInv DEF BroadcastDropped
<1>2. CASE Broadcast(t)
  <2> DEFINE e == f.e
             g == EventFrame("precondition", e)
  <2>1. /\ stack[t] # <<>> /\ f.pc = "broadcast" /\ e \in Events
        /\ in_progress' = Marked(e) /\ param_block_' = [param_block_ EXCEPT ![e] = ParamBlock(e)]
        /\ Goto(t, g)
        /\ UNCHANGED <<treeVars, markVars, event_queue_, in_progress_, lockVars>>
    BY <1>2, TopTyped DEF Broadcast, FrameTyped, EventPCs
  <2>2. g \in Frame /\ g.pc = "precondition" /\ g.e \in Events
    BY <2>1 DEF EventFrame, F0, Frame, PCs, StateOrNil, EventOrNil
  <2> HIDE DEF g
  <2>3. Continues(t, g)
    BY <2>1, <2>2 DEF Continues, FrameTyped, StatePCs, EventPCs, IteratorPCs, StepPCs,
       AlgorithmPCs, LockedPCs
  <2>4. Orderly(t) /\ ret' = ret
    BY <2>1, <2>3, GotoOrderly
  <2>5. in_progress' \in [Events -> Nat]
    BY <2>1, CountersTyped DEF RuntimeInv, TypeOK
  <2>6. param_block_' \in [Events -> EventOrNil]
    BY <2>1 DEF RuntimeInv, TypeOK, ParamBlock, EventOrNil
  <2>7. DataTyped'
    BY <2>1, <2>4, <2>5, <2>6 DEF DataTyped, RuntimeInv, TypeOK, treeVars, markVars
  <2>8. /\ UNCHANGED <<in_progress_, owner, depth>>
        /\ event_queue_' \in Seq(Events) /\ Len(event_queue_') >= Len(event_queue_)
    BY <2>1 DEF lockVars, RuntimeInv, TypeOK
  <2> QED
    BY <2>1, <2>4, <2>7, <2>8, OrderlyData
<1>3. CASE PreconditionFalse(t)
  <2>1. stack[t] # <<>> /\ f.pc = "precondition"
    BY <1>3, TopTyped DEF PreconditionFalse
  <2> QED
    BY <1>3, <2>1, CancelKeepsInv DEF PreconditionFalse
<1>4. CASE PreconditionTrue(t)
  <2> DEFINE g == [f EXCEPT !.pc = "find_transition", !.list = f.e, !.i = 1]
  <2>1. /\ stack[t] # <<>> /\ f \in Frame /\ f.pc = "precondition" /\ f.e \in Events
        /\ Goto(t, g) /\ UNCHANGED <<treeVars, markVars, queueVars, lockVars>>
    BY <1>4, TopTyped DEF PreconditionTrue, FrameTyped, EventPCs
  <2>2. /\ g \in Frame /\ g.pc = "find_transition" /\ g.e \in Events
        /\ g.list \in Events /\ g.i > 0
    <3>1. f.e \in EventOrNil
      BY <2>1 DEF EventOrNil
    <3>2. g.pc = "find_transition"
      BY <2>1 DEF Frame
    <3>3. PICK l \in EventOrNil : l = f.e
      BY <3>1
    <3>4. g = [f EXCEPT !.pc = "find_transition", !.list = l, !.i = 1]
      BY <3>3
    <3> HIDE DEF f, g
    <3>5. g \in Frame /\ g.list = l /\ g.i = 1 /\ g.e = f.e
      BY <2>1, <3>4 DEF Frame, PCs
    <3> QED
      BY <2>1, <3>2, <3>3, <3>5
  <2> HIDE DEF g
  <2>3. Continues(t, g)
    BY <2>1, <2>2, FindContinues
  <2> QED
    BY <2>1, <2>3, GotoKeepsInv
<1>5. CASE FoundTransition(t)
  <2> DEFINE g == EventFrame("algorithm", NIL)
  <2>1. /\ stack[t] # <<>> /\ f.pc = "find_transition" /\ f.e \in Events
        /\ event_queue_' = Append(event_queue_, f.e) /\ Goto(t, g)
        /\ UNCHANGED <<treeVars, markVars, in_progress_, in_progress, param_block_, lockVars>>
    BY <1>5, TopTyped DEF FoundTransition, FrameTyped, EventPCs
  <2>2. g \in Frame /\ g.pc = "algorithm"
    BY DEF EventFrame, F0, Frame, PCs, StateOrNil, EventOrNil
  <2> HIDE DEF g
  <2>3. Continues(t, g)
    BY <2>1, <2>2 DEF Continues, FrameTyped, StatePCs, EventPCs, IteratorPCs, StepPCs,
       AlgorithmPCs, LockedPCs
  <2>4. Orderly(t) /\ ret' = ret
    BY <2>1, <2>3, GotoOrderly
  <2>5. DataTyped'
    BY <2>1, <2>4 DEF DataTyped, RuntimeInv, TypeOK, treeVars, markVars
  <2>6. /\ UNCHANGED <<in_progress_, owner, depth>>
        /\ event_queue_' \in Seq(Events) /\ Len(event_queue_') >= Len(event_queue_)
    BY <2>1 DEF lockVars, RuntimeInv, TypeOK
  <2> QED
    BY <2>1, <2>4, <2>5, <2>6, OrderlyData
<1>6. CASE FoundNone(t)
  <2>1. stack[t] # <<>> /\ f.pc = "find_transition"
    BY <1>6, TopTyped DEF FoundNone
  <2> QED
    BY <1>6, <2>1, CancelKeepsInv DEF FoundNone
<1> QED
  BY <1>1, <1>2, <1>3, <1>4, <1>5, <1>6, LockKeepsInv, UnlockKeepsInv, BumpKeepsInv, FindKeepsInv
     DEF BroadcastStep

-----------------------------------------------------------------------------
(* The algorithm.                                                          *)

\* The frame of the algorithm is the only one, of all threads.
LEMMA OnlyAlgorithm ==
    ASSUME RuntimeInv, NEW t \in Threads, NEW pc \in AlgorithmPCs, At(t, pc),
           NEW u \in Threads, NEW i \in 1 .. Len(stack[u]), stack[u][i].pc \in AlgorithmPCs
    PROVE  u = t /\ i = 1
<1>1. 1 \in 1 .. Len(stack[t]) /\ stack[t][1].pc \in AlgorithmPCs
  BY TopIsFirst DEF RuntimeInv, At
<1>2. stack[t][1].pc \in LockedPCs /\ stack[u][i].pc \in LockedPCs
  BY <1>1 DEF AlgorithmPCs, LockedPCs
<1>3. owner = t /\ owner = u
  BY <1>1, <1>2 DEF RuntimeInv, StackInv, BroadcastsExclude, HasFrame
<1> QED
  BY <1>1, <1>3 DEF RuntimeInv, StackInv, OneAlgorithm

\* When it is replaced, the algorithm's frames are those it is replaced by.
LEMMA AlgorithmReplaced ==
    ASSUME TypeOK, NEW t \in Threads, stack[t] # <<>>,
           NEW frames \in Seq(Frame), Become(t, frames),
           \A u \in Threads : \A i \in 1 .. Len(stack[u]) :
               stack[u][i].pc \in AlgorithmPCs => u = t /\ i = 1,
           NEW u \in Threads, NEW i \in 1 .. Len(stack'[u]), stack'[u][i].pc \in AlgorithmPCs
    PROVE  u = t /\ i \in 1 .. Len(frames) /\ stack'[u][i] = frames[i]
<1>1. CASE u # t
  <2>1. stack'[u] = stack[u]
    BY <1>1, BecomeFrames
  <2> QED
    BY <2>1, <1>1
<1>2. CASE u = t
  <2>1. CASE i \in 1 .. Len(frames) /\ stack'[t][i] = frames[i]
    BY <2>1, <1>2
  <2>2. CASE \E j \in 2 .. Len(stack[t]) : stack'[t][i] = stack[t][j]
    <3>1. PICK j \in 2 .. Len(stack[t]) : stack'[t][i] = stack[t][j]
      BY <2>2
    <3>2. j \in 1 .. Len(stack[t]) /\ j # 1
      BY BecomeFrames
    <3> QED
      BY <3>1, <3>2, <1>2
  <2> QED
    BY <2>1, <2>2, <1>2, BecomeFrames
<1> QED
  BY <1>1, <1>2

\* What beginning, continuing or ending the algorithm leaves in order.
LEMMA AlgorithmFrame ==
    ASSUME RuntimeInv, NEW t \in Threads, stack[t] # <<>>, Top(t).pc \in LockedPCs \ {"unlock"},
           NEW frames \in Seq(Frame), Len(frames) <= 1, Become(t, frames),
           UNCHANGED <<owner, depth>>,
           \A i \in 1 .. Len(frames) :
               FrameTyped(frames[i]) /\ frames[i].pc \in LockedPCs \ {"unlock"}
    PROVE  /\ stack' \in [Threads -> Seq(Frame)]
           /\ FramesTyped' /\ BroadcastsExclude' /\ ReleasedBelow'
           /\ (owner = NIL => depth = 0)'
<1>1. TypeOK /\ StackInv
  BY DEF RuntimeInv
<1>2. stack' \in [Threads -> Seq(Frame)]
  BY <1>1, BecomeReplaces
<1>3. FramesTyped'
  BY <1>1, FramesTypedStep DEF StackInv
<1>4. BroadcastsExclude'
  BY <1>1, ExcludeStep DEF StackInv
<1>5. ReleasedBelow'
  <2>1. \A i \in 1 .. Len(frames) : i = Len(frames)
    OBVIOUS
  <2> QED
    BY <1>1, <2>1, ReleasedStep DEF StackInv
<1> QED
  BY <1>1, <1>2, <1>3, <1>4, <1>5 DEF StackInv

\* The frame of algorithm() between two micro-steps.
LEMMA MicroStepFrame ==
    LET g == EventFrame("micro_step", NIL)
    IN  g \in Frame /\ g.pc = "micro_step" /\ FrameTyped(g)
<1> DEFINE g == EventFrame("micro_step", NIL)
<1>1. g \in Frame /\ g.pc = "micro_step"
  BY DEF EventFrame, F0, Frame, PCs, StateOrNil, EventOrNil
<1> HIDE DEF g
<1>2. FrameTyped(g)
  BY <1>1 DEF FrameTyped, StatePCs, EventPCs, IteratorPCs, StepPCs, AlgorithmPCs
<1> QED
  BY <1>1, <1>2 DEF g

\* Beginning: no other frame is in the algorithm, as in_progress_ was false.
LEMMA AlgorithmBeginKeepsInv ==
    ASSUME RuntimeInv, NEW t \in Threads, AlgorithmBegin(t)
    PROVE  RuntimeInv'
<1> DEFINE g == EventFrame("micro_step", NIL)
           frames == <<g>>
<1>1. /\ TypeOK /\ StackInv /\ stack[t] # <<>> /\ Top(t).pc = "algorithm" /\ ~ in_progress_
      /\ in_progress_' = TRUE /\ Become(t, frames) /\ ret' = ret
      /\ UNCHANGED <<treeVars, markVars, event_queue_, in_progress, param_block_, lockVars>>
  BY TopTyped DEF RuntimeInv, AlgorithmBegin, Goto
<1>2. g \in Frame /\ g.pc = "micro_step" /\ FrameTyped(g)
  BY MicroStepFrame
<1> HIDE DEF g
<1>3. frames \in Seq(Frame) /\ Len(frames) = 1 /\ frames[1] = g /\ \A i \in 1 .. Len(frames) : i = 1
  BY <1>2
<1> HIDE DEF frames
<1>4. /\ stack' \in [Threads -> Seq(Frame)]
      /\ FramesTyped' /\ BroadcastsExclude' /\ ReleasedBelow'
      /\ (owner = NIL => depth = 0)'
  <2>1. \A i \in 1 .. Len(frames) :
            FrameTyped(frames[i]) /\ frames[i].pc \in LockedPCs \ {"unlock"}
    BY <1>2, <1>3 DEF LockedPCs
  <2>2. Top(t).pc \in LockedPCs \ {"unlock"}
    BY <1>1 DEF LockedPCs
  <2>3. Len(frames) <= 1
    BY <1>3
  <2>4. UNCHANGED <<owner, depth>>
    BY <1>1 DEF lockVars
  <2> QED
    BY <1>1, <1>3, <2>1, <2>2, <2>3, <2>4, AlgorithmFrame
<1>5. OneAlgorithm'
  <2>1. \A u \in Threads : \A i \in 1 .. Len(stack[u]) :
            stack[u][i].pc \in AlgorithmPCs => u = t /\ i = 1
    BY <1>1 DEF StackInv, OneAlgorithm
  <2>2. \A u \in Threads : \A i \in 1 .. Len(stack'[u]) :
            stack'[u][i].pc \in AlgorithmPCs => i = 1
    BY <1>1, <1>3, <2>1, AlgorithmReplaced
  <2> QED
    BY <1>1, <2>2 DEF OneAlgorithm, AlgorithmPCs
<1>6. StepWithinQueue'
  <2>1. \A i \in 1 .. Len(frames) : frames[i].pc \notin StepPCs
    BY <1>2, <1>3 DEF StepPCs
  <2>2. event_queue_' \in Seq(Events) /\ Len(event_queue_') >= Len(event_queue_)
    BY <1>1 DEF TypeOK
  <2> QED
    BY <1>1, <1>3, <2>1, <2>2, WithinQueueStep DEF StackInv
<1>7. TypeOK'
  BY <1>1, <1>4 DEF TypeOK, treeVars, markVars, lockVars
<1> QED
  BY <1>4, <1>5, <1>6, <1>7 DEF RuntimeInv, StackInv

\* Ending: the only frame of the algorithm goes, so in_progress_ may be false.
LEMMA AlgorithmEndKeepsInv ==
    ASSUME RuntimeInv, NEW t \in Threads, AlgorithmEnd(t)
    PROVE  RuntimeInv'
<1> DEFINE none == <<>>
<1>1. /\ TypeOK /\ StackInv /\ At(t, "micro_step")
      /\ stack[t] # <<>> /\ Top(t).pc = "micro_step"
      /\ in_progress_' = FALSE /\ Become(t, none) /\ ret' = ret
      /\ UNCHANGED <<treeVars, markVars, event_queue_, in_progress, param_block_, lockVars>>
  BY TopTyped DEF RuntimeInv, AlgorithmEnd, ReturnVoid
<1>2. none \in Seq(Frame) /\ Len(none) <= 1 /\ \A i \in 1 .. Len(none) : FALSE
  OBVIOUS
<1> HIDE DEF none
<1>3. /\ stack' \in [Threads -> Seq(Frame)]
      /\ FramesTyped' /\ BroadcastsExclude' /\ ReleasedBelow'
      /\ (owner = NIL => depth = 0)'
  <2>1. Top(t).pc \in LockedPCs \ {"unlock"}
    BY <1>1 DEF LockedPCs
  <2>2. UNCHANGED <<owner, depth>>
    BY <1>1 DEF lockVars
  <2> QED
    BY <1>1, <1>2, <2>1, <2>2, AlgorithmFrame
<1>4. \A u \in Threads : \A i \in 1 .. Len(stack'[u]) : stack'[u][i].pc \notin AlgorithmPCs
  <2>1. \A u \in Threads : \A i \in 1 .. Len(stack[u]) :
            stack[u][i].pc \in AlgorithmPCs => u = t /\ i = 1
    BY <1>1, OnlyAlgorithm DEF AlgorithmPCs
  <2> QED
    BY <1>1, <1>2, <2>1, AlgorithmReplaced
<1>5. OneAlgorithm' /\ StepWithinQueue'
  BY <1>4 DEF OneAlgorithm, StepWithinQueue, StepPCs, AlgorithmPCs
<1>6. TypeOK'
  BY <1>1, <1>3 DEF TypeOK, treeVars, markVars, lockVars
<1> QED
  BY <1>3, <1>5, <1>6 DEF RuntimeInv, StackInv

\* Dequeuing: no other frame counts on the event that goes.
LEMMA Phase3DequeueKeepsInv ==
    ASSUME RuntimeInv, NEW t \in Threads, Phase3Dequeue(t)
    PROVE  RuntimeInv'
<1> DEFINE f == Top(t)
           g == [f EXCEPT !.n = @ - 1]
           frames == <<g>>
<1>1. /\ TypeOK /\ StackInv /\ At(t, "phase3")
      /\ stack[t] # <<>> /\ f \in Frame /\ f.pc = "phase3" /\ FrameTyped(f)
      /\ f.n > 0 /\ f.n <= Len(event_queue_)
      /\ in_progress' = Unmarked(Head(event_queue_)) /\ event_queue_' = Tail(event_queue_)
      /\ Become(t, frames) /\ ret' = ret
      /\ UNCHANGED <<treeVars, markVars, in_progress_, param_block_, lockVars>>
  BY TopTyped DEF RuntimeInv, Phase3Dequeue, Goto, StepPCs, AlgorithmPCs
<1>2. f.n \in Nat /\ f.q > 0
  BY <1>1 DEF Frame, FrameTyped, StepPCs, AlgorithmPCs
<1>3. g \in Frame /\ g.pc = "phase3" /\ g.q > 0 /\ g.n = f.n - 1
  <2>1. PICK m \in Nat : m = f.n - 1
    BY <1>1, <1>2
  <2>2. g = [f EXCEPT !.n = m]
    BY <2>1
  <2>3. g.pc = f.pc /\ g.q = f.q /\ g.n = m
    BY <1>1, <2>2 DEF Frame
  <2>4. g \in Frame
    <3> HIDE DEF f, g
    <3> QED
      BY <1>1, <2>2 DEF Frame
  <2> QED
    BY <1>1, <1>2, <2>1, <2>3, <2>4
<1> HIDE DEF f, g
<1>4. FrameTyped(g)
  BY <1>3 DEF FrameTyped, StatePCs, EventPCs, IteratorPCs
<1>5. frames \in Seq(Frame) /\ Len(frames) = 1 /\ frames[1] = g /\ \A i \in 1 .. Len(frames) : i = 1
  BY <1>3
<1> HIDE DEF frames
<1>6. /\ event_queue_' \in Seq(Events) /\ Len(event_queue_) \in Nat
      /\ Len(event_queue_') = Len(event_queue_) - 1
  BY <1>1, <1>2 DEF TypeOK
<1>7. /\ stack' \in [Threads -> Seq(Frame)]
      /\ FramesTyped' /\ BroadcastsExclude' /\ ReleasedBelow'
      /\ (owner = NIL => depth = 0)'
  <2>1. \A i \in 1 .. Len(frames) :
            FrameTyped(frames[i]) /\ frames[i].pc \in LockedPCs \ {"unlock"}
    BY <1>3, <1>4, <1>5 DEF LockedPCs
  <2>2. Top(t).pc \in LockedPCs \ {"unlock"}
    BY <1>1 DEF LockedPCs, f
  <2>3. Len(frames) <= 1
    BY <1>5
  <2>4. UNCHANGED <<owner, depth>>
    BY <1>1 DEF lockVars
  <2> QED
    BY <1>1, <1>5, <2>1, <2>2, <2>3, <2>4, AlgorithmFrame
<1>8. OneAlgorithm'
  <2>1. \A i \in 1 .. Len(frames) : frames[i].pc \in AlgorithmPCs =>
            i = Len(frames) /\ Top(t).pc \in AlgorithmPCs
    BY <1>1, <1>5 DEF AlgorithmPCs, f
  <2> QED
    BY <1>1, <1>5, <2>1, OneAlgorithmStep DEF StackInv
<1>9. StepWithinQueue'
  <2>1. \A u \in Threads : \A i \in 1 .. Len(stack[u]) :
            stack[u][i].pc \in AlgorithmPCs => u = t /\ i = 1
    BY <1>1, OnlyAlgorithm DEF AlgorithmPCs
  <2>2. ASSUME NEW u \in Threads, NEW i \in 1 .. Len(stack'[u]), stack'[u][i].pc \in StepPCs
        PROVE  stack'[u][i].n <= Len(event_queue_')
    <3>1. stack'[u][i].pc \in AlgorithmPCs
      BY <2>2 DEF StepPCs
    <3>2. stack'[u][i] = g
      BY <3>1, <2>1, <1>1, <1>5, AlgorithmReplaced
    <3> QED
      BY <3>2, <1>1, <1>2, <1>3, <1>6
  <2> QED
    BY <2>2 DEF StepWithinQueue, StepPCs, AlgorithmPCs
<1>10. TypeOK'
  <2>1. in_progress' \in [Events -> Nat]
    BY <1>1, CountersTyped DEF TypeOK
  <2> QED
    BY <1>1, <1>6, <1>7, <2>1 DEF TypeOK, treeVars, markVars, lockVars
<1> QED
  BY <1>7, <1>8, <1>9, <1>10 DEF RuntimeInv, StackInv

\* The steps of a micro-step that move the algorithm's frame on.
LEMMA PhaseKeepsInv ==
    ASSUME RuntimeInv, NEW t \in Threads,
           \/ Phase1End(t) \/ NextPhase1Event(t) \/ NextPhase2Event(t)
           \/ Phase2End(t) \/ Phase3End(t) \/ MicroStep(t)
    PROVE  RuntimeInv'
<1> DEFINE f == Top(t)
<1>1. UNCHANGED <<treeVars, markVars, queueVars, lockVars>> /\ event_queue_' = event_queue_
  BY DEF Phase1End, NextPhase1Event, NextPhase2Event, NextEvent, Phase2End, Phase3End, MicroStep,
     queueVars
<1>2. ASSUME NEW pc \in StepPCs, At(t, pc), NEW next \in {"phase1", "phase2", "phase3"},
             NEW q \in Nat, q > 0, Goto(t, [f EXCEPT !.pc = next, !.q = q])
      PROVE  RuntimeInv'
  <2> DEFINE g == [f EXCEPT !.pc = next, !.q = q]
  <2>1. stack[t] # <<>> /\ f \in Frame /\ f.pc = pc
    BY <1>2, TopTyped
  <2>2. g \in Frame /\ g.pc = next /\ g.q = q /\ g.n = f.n
    BY <2>1 DEF Frame, PCs
  <2>3. Goto(t, g)
    BY <1>2
  <2> HIDE DEF g
  <2>4. /\ g.pc \in StepPCs /\ g.pc \notin IteratorPCs /\ g.pc \notin {"action", "unmark"}
        /\ f.pc # "unlock"
    BY <2>1, <2>2 DEF StepPCs, AlgorithmPCs, IteratorPCs
  <2>5. Continues(t, g)
    BY <1>1, <1>2, <2>2, <2>4, StepContinues
  <2> QED
    BY <1>1, <2>1, <2>3, <2>4, <2>5, GotoKeepsInv
<1>3. ASSUME NEW pc \in StepPCs, At(t, pc)
      PROVE  f \in Frame /\ f.q \in Nat /\ f.q > 0 /\ f.q + 1 \in Nat /\ f.q + 1 > 0
  BY <1>3, TopTyped DEF FrameTyped, Frame
<1>4. CASE Phase1End(t)
  <2>1. At(t, "phase1") /\ Goto(t, [f EXCEPT !.pc = "phase2", !.q = 1])
    BY <1>4 DEF Phase1End
  <2>2. "phase1" \in StepPCs /\ 1 \in Nat /\ 1 > 0
    BY DEF StepPCs, AlgorithmPCs
  <2> QED
    BY <1>2, <2>1, <2>2
<1>5. CASE NextPhase1Event(t)
  <2>1. At(t, "exit_from") /\ Goto(t, [f EXCEPT !.pc = "phase1", !.q = f.q + 1])
    BY <1>5 DEF NextPhase1Event, NextEvent
  <2>2. "exit_from" \in StepPCs
    BY DEF StepPCs, AlgorithmPCs
  <2> QED
    BY <1>2, <1>3, <2>1, <2>2
<1>6. CASE NextPhase2Event(t)
  <2>1. At(t, "enter_to") /\ Goto(t, [f EXCEPT !.pc = "phase2", !.q = f.q + 1])
    BY <1>6 DEF NextPhase2Event, NextEvent
  <2>2. "enter_to" \in StepPCs
    BY DEF StepPCs, AlgorithmPCs
  <2> QED
    BY <1>2, <1>3, <2>1, <2>2
<1>7. CASE Phase2End(t)
  <2>1. At(t, "phase2") /\ Goto(t, [f EXCEPT !.pc = "phase3"])
    BY <1>7 DEF Phase2End
  <2>2. "phase2" \in StepPCs
    BY DEF StepPCs, AlgorithmPCs
  <2>3. [f EXCEPT !.pc = "phase3"] = [f EXCEPT !.pc = "phase3", !.q = f.q]
    BY <1>3, <2>1, <2>2 DEF Frame
  <2>4. Goto(t, [f EXCEPT !.pc = "phase3", !.q = f.q])
    BY <2>1, <2>3
  <2>5. f.q \in Nat /\ f.q > 0
    BY <1>3, <2>1, <2>2
  <2> QED
    BY <1>2, <2>1, <2>2, <2>4, <2>5
<1>8. CASE Phase3End(t)
  <2> DEFINE g == EventFrame("micro_step", NIL)
  <2>1. stack[t] # <<>> /\ f.pc = "phase3" /\ Goto(t, g)
    BY <1>8, TopTyped DEF Phase3End
  <2>2. g \in Frame /\ g.pc = "micro_step" /\ FrameTyped(g)
    BY MicroStepFrame
  <2> HIDE DEF g
  <2>3. Continues(t, g)
    BY <2>1, <2>2 DEF Continues, StepPCs, AlgorithmPCs, LockedPCs
  <2> QED
    BY <1>1, <2>1, <2>3, GotoKeepsInv
<1>9. CASE MicroStep(t)
  <2> DEFINE g == [F0 EXCEPT !.pc = "phase1", !.q = 1, !.n = Len(event_queue_)]
  <2>1. stack[t] # <<>> /\ f.pc = "micro_step" /\ Goto(t, g)
    BY <1>9, TopTyped DEF MicroStep
  <2>2. Len(event_queue_) \in Nat
    BY DEF RuntimeInv, TypeOK
  <2>3. g \in Frame /\ g.pc = "phase1" /\ g.q = 1 /\ g.n = Len(event_queue_)
    BY <2>2 DEF F0, Frame, PCs, StateOrNil, EventOrNil
  <2> HIDE DEF g
  <2>4. FrameTyped(g)
    BY <2>3 DEF FrameTyped, StatePCs, EventPCs, IteratorPCs
  <2>5. Continues(t, g)
    BY <1>1, <2>1, <2>2, <2>3, <2>4 DEF Continues, AlgorithmPCs, LockedPCs
  <2> QED
    BY <1>1, <2>1, <2>5, GotoKeepsInv
<1> QED
  BY <1>4, <1>5, <1>6, <1>7, <1>8, <1>9

\* Phases I and II, one transition at a time.
LEMMA TransitionKeepsInv ==
    ASSUME RuntimeInv, NEW t \in Threads,
           \/ ExitSkip(t) \/ ExitDominated(t) \/ InternalAction(t) \/ ExitFrom(t) \/ Action(t)
           \/ EnterSkip(t) \/ EnterTo(t) \/ Unmark(t)
    PROVE  RuntimeInv'
<1> DEFINE f == Top(t)
           tr == CurTransition(f)
           g == NextTransition(f)
<1>1. /\ UNCHANGED <<treeVars, target_, queueVars, lockVars>>
      /\ event_queue_' = event_queue_
  BY DEF ExitSkip, ExitDominated, InternalAction, ExitFrom, Action, EnterSkip, EnterTo, Unmark,
     queueVars, markVars
<1>2. PICK pc \in {"exit_from", "action", "enter_to", "unmark"} : At(t, pc)
  BY DEF ExitSkip, ExitDominated, InternalAction, ExitFrom, Action, EnterSkip, EnterTo, Unmark,
     AtTransition
<1>3. /\ TypeOK /\ stack[t] # <<>> /\ f \in Frame /\ f.pc = pc /\ pc \in StepPCs
      /\ f.list \in Events /\ f.i > 0 /\ f.q > 0 /\ f.i \in Nat /\ f.pc # "unlock"
      /\ pc \in {"action", "unmark"} => InList(f)
  BY <1>2, TopTyped DEF RuntimeInv, FrameTyped, IteratorPCs, StepPCs, AlgorithmPCs, Frame
<1>4. InList(f)
  <2>1. CASE pc \in {"action", "unmark"}
    BY <2>1, <1>3
  <2>2. CASE pc \in {"exit_from", "enter_to"}
    BY <2>2, <1>2 DEF ExitSkip, ExitDominated, InternalAction, ExitFrom, Action, EnterSkip,
       EnterTo, Unmark, AtTransition, At
  <2> QED
    BY <2>1, <2>2
<1>5. tr \in Transitions /\ From[tr] \in States /\ ActionEmits[tr] \in SUBSET Events
  BY <1>3, <1>4, CurTransitionTyped, TransitionAssumption, UserCodeAssumption
\* The frames that the iteration continues with.
<1>6. ASSUME NEW next \in {"exit_from", "enter_to"}, NEW h, h = [g EXCEPT !.pc = next]
      PROVE  Continues(t, h)
  <2>1. /\ g \in Frame /\ g.list = f.list /\ g.i = f.i + 1 /\ g.q = f.q /\ g.n = f.n
    BY <1>3 DEF NextTransition, Frame
  <2> HIDE DEF g
  <2>2. h \in Frame /\ h.pc = next /\ h.list = f.list /\ h.i = f.i + 1 /\ h.q = f.q /\ h.n = f.n
    BY <1>6, <2>1 DEF Frame, PCs
  <2>3. h.pc \in StepPCs /\ h.pc \notin {"action", "unmark"} /\ h.i > 0
    BY <1>3, <2>2 DEF StepPCs, AlgorithmPCs
  <2> QED
    BY <1>1, <1>2, <1>3, <2>2, <2>3, StepContinues
<1>7. pc \in {"exit_from", "enter_to"} => Continues(t, g)
  <2>1. g \in Frame /\ g.pc = f.pc
    BY <1>3 DEF NextTransition, Frame
  <2>2. g = [g EXCEPT !.pc = g.pc]
    BY <2>1 DEF Frame
  <2> QED
    BY <1>3, <1>6, <2>1, <2>2
<1>8. ASSUME NEW next \in {"action", "unmark"}, NEW h, h = [f EXCEPT !.pc = next]
      PROVE  Continues(t, h)
  <2>1. h \in Frame /\ h.pc = next /\ h.list = f.list /\ h.i = f.i /\ h.q = f.q /\ h.n = f.n
    BY <1>3, <1>8 DEF Frame, PCs
  <2>2. h.pc \in StepPCs /\ h.i > 0 /\ InList(h)
    BY <1>3, <1>4, <2>1 DEF StepPCs, AlgorithmPCs, InList
  <2> QED
    BY <1>1, <1>2, <1>3, <2>1, <2>2, StepContinues
<1>9. Callable(<<UserFrame(ActionEmits[tr])>>)
  BY <1>5, UserFrames, OneCallable
<1> HIDE DEF g
\* A step that unmarks a transition.
<1>10. ASSUME NEW h, Continues(t, h), Goto(t, h), taken_' = [taken_ EXCEPT ![tr] = NIL]
       PROVE  RuntimeInv'
  <2>1. Orderly(t) /\ ret' = ret
    BY <1>10, GotoOrderly
  <2>2. taken_' \in [Transitions -> EventOrNil]
    BY <1>3, <1>5, <1>10 DEF TypeOK, EventOrNil
  <2>3. DataTyped'
    BY <1>1, <1>3, <2>1, <2>2 DEF DataTyped, TypeOK, treeVars, queueVars
  <2>4. /\ UNCHANGED <<in_progress_, owner, depth>>
        /\ event_queue_' \in Seq(Events) /\ Len(event_queue_') >= Len(event_queue_)
    BY <1>1, <1>3 DEF queueVars, lockVars, TypeOK
  <2> QED
    BY <1>3, <2>1, <2>3, <2>4, OrderlyData
<1>11. CASE ExitSkip(t) \/ EnterSkip(t)
  <2>1. Goto(t, g) /\ UNCHANGED <<treeVars, markVars, queueVars, lockVars>>
    BY <1>11 DEF ExitSkip, EnterSkip, g
  <2>2. f.pc \in {"exit_from", "enter_to"}
    BY <1>11 DEF ExitSkip, EnterSkip, AtTransition, At
  <2> QED
    BY <1>3, <1>7, <2>1, <2>2, GotoKeepsInv
<1>12. CASE ExitDominated(t)
  <2>1. Goto(t, g) /\ taken_' = [taken_ EXCEPT ![tr] = NIL]
    BY <1>12 DEF ExitDominated, g
  <2>2. f.pc = "exit_from"
    BY <1>12 DEF ExitDominated, AtTransition, At
  <2> QED
    BY <1>3, <1>7, <1>10, <2>1, <2>2
<1>13. CASE InternalAction(t)
  <2>1. /\ CallThen(t, <<UserFrame(ActionEmits[tr])>>, g)
        /\ UNCHANGED <<treeVars, markVars, queueVars, lockVars>>
    BY <1>13 DEF InternalAction, g
  <2>2. f.pc = "exit_from"
    BY <1>13 DEF InternalAction, AtTransition, At
  <2> QED
    BY <1>3, <1>7, <1>9, <2>1, <2>2, CallThenKeepsInv
<1>14. CASE ExitFrom(t)
  <2> DEFINE h == [f EXCEPT !.pc = "action"]
  <2>1. /\ CallThen(t, ExitCall(From[tr], target_[tr]), h)
        /\ UNCHANGED <<treeVars, markVars, queueVars, lockVars>>
    BY <1>14 DEF ExitFrom
  <2>2. Callable(ExitCall(From[tr], target_[tr]))
    BY <1>3, <1>5, ExitCallable DEF TypeOK
  <2>3. Continues(t, h)
    BY <1>8
  <2> HIDE DEF h
  <2> QED
    BY <1>3, <2>1, <2>2, <2>3, CallThenKeepsInv
<1>15. CASE Action(t)
  <2> DEFINE h == [g EXCEPT !.pc = "exit_from"]
  <2>1. /\ CallThen(t, <<UserFrame(ActionEmits[tr])>>, h) \/ Goto(t, h)
        /\ UNCHANGED <<treeVars, markVars, queueVars, lockVars>>
    BY <1>15 DEF Action, g
  <2>2. Continues(t, h)
    BY <1>6
  <2> HIDE DEF h
  <2>3. CASE CallThen(t, <<UserFrame(ActionEmits[tr])>>, h)
    BY <1>3, <1>9, <2>1, <2>2, <2>3, CallThenKeepsInv
  <2>4. CASE Goto(t, h)
    BY <1>3, <2>1, <2>2, <2>4, GotoKeepsInv
  <2> QED
    BY <2>1, <2>3, <2>4
<1>16. CASE EnterTo(t)
  <2> DEFINE h == [f EXCEPT !.pc = "unmark"]
  <2>1. /\ \/ Goto(t, h)
           \/ target_[tr] # NIL /\ CallThen(t, EnterCall(target_[tr], NIL), h)
        /\ UNCHANGED <<treeVars, markVars, queueVars, lockVars>>
    BY <1>16 DEF EnterTo
  <2>2. Continues(t, h)
    BY <1>8
  <2> HIDE DEF h
  <2>3. CASE Goto(t, h)
    BY <1>3, <2>1, <2>2, <2>3, GotoKeepsInv
  <2>4. CASE target_[tr] # NIL /\ CallThen(t, EnterCall(target_[tr], NIL), h)
    <3>1. Callable(EnterCall(target_[tr], NIL))
      BY <1>3, <1>5, <2>4, EnterCallable DEF TypeOK, StateOrNil
    <3> QED
      BY <1>3, <2>1, <2>2, <2>4, <3>1, CallThenKeepsInv
  <2> QED
    BY <2>1, <2>3, <2>4
<1>17. CASE Unmark(t)
  <2> DEFINE h == [g EXCEPT !.pc = "enter_to"]
  <2>1. Goto(t, h) /\ taken_' = [taken_ EXCEPT ![tr] = NIL]
    BY <1>17 DEF Unmark, g
  <2>2. Continues(t, h)
    BY <1>6
  <2> HIDE DEF h
  <2> QED
    BY <1>10, <2>1, <2>2
<1> QED
  BY <1>11, <1>12, <1>13, <1>14, <1>15, <1>16, <1>17

\* The next event of phase I or II: its index is within the queue.
LEMMA PhaseEventKeepsInv ==
    ASSUME RuntimeInv, NEW t \in Threads, Phase1Event(t) \/ Phase2Event(t)
    PROVE  RuntimeInv'
<1> DEFINE f == Top(t)
           e == event_queue_[f.q]
<1>1. PICK pc \in {"phase1", "phase2"} : At(t, pc)
  BY DEF Phase1Event, Phase2Event
<1>2. /\ TypeOK /\ stack[t] # <<>> /\ f \in Frame /\ f.pc = pc /\ f.pc # "unlock" /\ pc \in StepPCs
      /\ f.q \in Nat /\ f.q > 0 /\ f.n \in Nat /\ f.n <= Len(event_queue_) /\ f.q <= f.n
  BY <1>1, TopTyped DEF RuntimeInv, FrameTyped, StepPCs, AlgorithmPCs, Frame, Phase1Event, Phase2Event
<1>3. e \in Events
  BY <1>2 DEF TypeOK
<1>4. /\ UNCHANGED <<treeVars, markVars, event_queue_, in_progress_, in_progress, lockVars>>
      /\ Goto(t, Iterate(f, "exit_from")) \/ Goto(t, Iterate(f, "enter_to"))
  BY DEF Phase1Event, Phase2Event, queueVars
<1>5. ASSUME NEW next \in {"exit_from", "enter_to"}
      PROVE  Continues(t, Iterate(f, next))
  <2> DEFINE g == Iterate(f, next)
  <2>1. PICK x \in EventOrNil : x = e
    BY <1>3 DEF EventOrNil
  <2>2. g = [f EXCEPT !.pc = next, !.e = x, !.list = x, !.i = 1]
    BY <2>1 DEF Iterate
  <2> HIDE DEF f, g
  <2>3. /\ g \in Frame /\ g.pc = next /\ g.list = x /\ g.i = 1 /\ g.q = f.q /\ g.n = f.n
    BY <1>2, <2>2 DEF Frame, PCs
  <2>4. g.pc \in StepPCs /\ g.pc \notin {"action", "unmark"}
    BY <2>3 DEF StepPCs, AlgorithmPCs
  <2>5. g.list \in Events /\ g.i > 0 /\ g.q > 0 /\ g.n = Top(t).n
    BY <1>2, <1>3, <2>1, <2>3 DEF f
  <2> QED
    BY <1>1, <1>2, <1>4, <2>3, <2>4, <2>5, StepContinues DEF g
<1>6. Orderly(t) /\ ret' = ret
  <2>1. CASE Goto(t, Iterate(f, "exit_from"))
    BY <2>1, <1>5, GotoOrderly
  <2>2. CASE Goto(t, Iterate(f, "enter_to"))
    BY <2>2, <1>5, GotoOrderly
  <2> QED
    BY <2>1, <2>2, <1>4
<1>7. param_block_' \in [Events -> EventOrNil]
  <2>1. \/ param_block_' = param_block_
        \/ param_block_' = [b \in Events |-> IF b \in Chain(e) THEN param_block_[e]
                                             ELSE param_block_[b]]
    BY DEF Phase1Event, Phase2Event, queueVars
  <2> HIDE DEF e
  <2> QED
    BY <1>2, <1>3, <2>1 DEF TypeOK
<1>8. DataTyped'
  BY <1>2, <1>4, <1>6, <1>7 DEF DataTyped, TypeOK, treeVars, markVars
<1>9. /\ UNCHANGED <<in_progress_, owner, depth>>
      /\ event_queue_' \in Seq(Events) /\ Len(event_queue_') >= Len(event_queue_)
  BY <1>2, <1>4 DEF lockVars, TypeOK
<1> QED
  BY <1>2, <1>6, <1>8, <1>9, OrderlyData

\* All of machine::algorithm().
LEMMA AlgorithmStepKeepsInv ==
    ASSUME RuntimeInv, NEW t \in Threads, AlgorithmStep(t)
    PROVE  RuntimeInv'
<1>1. CASE AlgorithmNested(t)
  <2>1. stack[t] # <<>> /\ Top(t).pc = "algorithm"
    BY <1>1, TopTyped DEF AlgorithmNested
  <2> QED
    BY <1>1, <2>1, ReturnVoidKeepsInv DEF AlgorithmNested
<1> QED
  BY <1>1, AlgorithmBeginKeepsInv, AlgorithmEndKeepsInv, PhaseKeepsInv, PhaseEventKeepsInv,
     TransitionKeepsInv, Phase3DequeueKeepsInv DEF AlgorithmStep

-----------------------------------------------------------------------------
(* The theorems.                                                           *)

\* A machine under construction satisfies the invariant.
LEMMA InitEstablishesInv == Init => RuntimeInv
<1> SUFFICES ASSUME Init PROVE RuntimeInv
  OBVIOUS
<1>1. \A t \in Threads : stack[t] = <<>> /\ Len(stack[t]) = 0
  BY DEF Init
<1>2. TypeOK
  <2>1. /\ stack \in [Threads -> Seq(Frame)] /\ event_queue_ \in Seq(Events)
    BY DEF Init
  <2>2. /\ state_ \in [States -> {INACTIVE, ACTIVE, DISABLED}]
        /\ active_child_ \in [States -> StateOrNil] /\ last_child_ \in [States -> StateOrNil]
        /\ taken_ \in [Transitions -> EventOrNil] /\ target_ \in [Transitions -> StateOrNil]
    BY DEF Init, StateOrNil, EventOrNil
  <2>3. /\ in_progress \in [Events -> Nat] /\ param_block_ \in [Events -> EventOrNil]
        /\ in_progress_ \in BOOLEAN /\ owner \in Threads \cup {NIL} /\ depth \in Nat
        /\ ret \in [Threads -> BOOLEAN]
    BY DEF Init, EventOrNil
  <2> QED
    BY <2>1, <2>2, <2>3 DEF TypeOK
<1>3. FramesTyped /\ ReleasedBelow /\ OneAlgorithm /\ StepWithinQueue
  BY <1>1 DEF FramesTyped, ReleasedBelow, OneAlgorithm, StepWithinQueue
<1>4. BroadcastsExclude
  BY <1>1, ThreadAssumption DEF Init, BroadcastsExclude, HasFrame
<1>5. owner = NIL => depth = 0
  BY DEF Init
<1> QED
  BY <1>2, <1>3, <1>4, <1>5 DEF RuntimeInv, StackInv

\* Every step of every thread keeps the invariant.
LEMMA NextKeepsInv == RuntimeInv /\ [Next]_vars => RuntimeInv'
<1> SUFFICES ASSUME RuntimeInv, [Next]_vars PROVE RuntimeInv'
  OBVIOUS
<1>1. CASE UNCHANGED vars
  <2>1. TypeOK'
    BY <1>1 DEF RuntimeInv, TypeOK, vars, treeVars, markVars, queueVars, lockVars, callVars
  <2>2. StackInv'
    BY <1>1, StackInvUnchanged DEF RuntimeInv, vars, queueVars, lockVars, callVars
  <2> QED
    BY <2>1, <2>2 DEF RuntimeInv
<1>2. ASSUME NEW t \in Threads, Client(t) \/ Run(t) PROVE RuntimeInv'
  BY <1>2, ClientKeepsInv, UserCodeIsPlain, EnterStepIsPlain, ExitStepIsPlain, PlainKeepsInv,
     BroadcastStepKeepsInv, AlgorithmStepKeepsInv DEF Run
<1> QED
  BY <1>1, <1>2 DEF Next

\* The inductive invariant holds: the run-time library keeps its call stacks,
\* its mutex and its queue in order, for any machine and any threads.
THEOREM RuntimeInvariant == Spec => []RuntimeInv
<1>1. Init => RuntimeInv
  BY InitEstablishesInv
<1>2. RuntimeInv /\ [Next]_vars => RuntimeInv'
  BY NextKeepsInv
<1> QED
  BY <1>1, <1>2, PTL DEF Spec

\* Every variable of the library keeps the type of its declaration.
THEOREM TypeCorrect == Spec => []TypeOK
<1>1. RuntimeInv => TypeOK
  BY DEF RuntimeInv
<1> QED
  BY <1>1, RuntimeInvariant, PTL

\* machine_lock works: only the thread that holds the recursive mutex is inside
\* a broadcast, and it holds it as often as it has yet to release it.
THEOREM BroadcastsExcludeEachOther == Spec => []BroadcastsExclude
<1>1. RuntimeInv => BroadcastsExclude
  BY DEF RuntimeInv, StackInv
<1> QED
  BY <1>1, RuntimeInvariant, PTL

\* machine::algorithm() is never re-entered: machine::in_progress_ guards it.
THEOREM AlgorithmIsNotReentered == Spec => []AlgorithmNotReentered
<1>1. ASSUME RuntimeInv PROVE AlgorithmNotReentered
  <2>1. ASSUME NEW t \in Threads
        PROVE  Cardinality({i \in 1 .. Len(stack[t]) : stack[t][i].pc \in AlgorithmPCs}) <= 1
    <3> DEFINE A == {i \in 1 .. Len(stack[t]) : stack[t][i].pc \in AlgorithmPCs}
    <3>1. \A i, j \in A : i = j
      BY <1>1 DEF RuntimeInv, StackInv, OneAlgorithm
    <3>2. CASE A = {}
      BY <3>2, FS_EmptySet
    <3>3. CASE A # {}
      <4>1. PICK i \in A : TRUE
        BY <3>3
      <4>2. A = {i}
        BY <3>1, <4>1
      <4>3. Cardinality({i}) = 1
        BY FS_Singleton
      <4>4. Cardinality(A) = 1
        BY <4>2, <4>3
      <4> HIDE DEF A
      <4>5. Cardinality(A) <= 1
        BY <4>4
      <4> QED
        BY <4>5 DEF A
    <3> QED
      BY <3>2, <3>3
  <2> QED
    BY <2>1 DEF AlgorithmNotReentered
<1> QED
  BY <1>1, RuntimeInvariant, PTL


-----------------------------------------------------------------------------
(* The frames of the stacks after a step of one thread.                    *)

\* All frames but the running frame of t.
Below(t) ==
    {stack[t][i] : i \in 2 .. Len(stack[t])}
        \cup UNION {{stack[u][i] : i \in 1 .. Len(stack[u])} : u \in Threads \ {t}}

\* The frames of one thread and those of all others.
LEMMA FramesOf ==
    ASSUME NEW t \in Threads
    PROVE  Frames = {stack[t][i] : i \in 1 .. Len(stack[t])}
                        \cup UNION {{stack[u][i] : i \in 1 .. Len(stack[u])} : u \in Threads \ {t}}
<1> DEFINE A(u) == {stack[u][i] : i \in 1 .. Len(stack[u])}
<1> HIDE DEF A
<1>1. UNION {A(u) : u \in Threads} = A(t) \cup UNION {A(u) : u \in Threads \ {t}}
  OBVIOUS
<1> QED
  BY <1>1 DEF Frames, A

\* The running frame of t and all others.
LEMMA FramesSplit ==
    ASSUME TypeOK, NEW t \in Threads, stack[t] # <<>>
    PROVE  Frames = {Top(t)} \cup Below(t)
<1>1. Len(stack[t]) \in Nat /\ Len(stack[t]) > 0 /\ Top(t) = stack[t][1]
  BY TopIsFirst
<1>2. 1 .. Len(stack[t]) = {1} \cup (2 .. Len(stack[t]))
  BY <1>1
<1>3. {stack[t][i] : i \in 1 .. Len(stack[t])} = {Top(t)} \cup {stack[t][i] : i \in 2 .. Len(stack[t])}
  BY <1>1, <1>2
<1> QED
  BY <1>3, FramesOf DEF Below

\* After a step the running frame is replaced by some others.
LEMMA FramesBecome ==
    ASSUME TypeOK, NEW t \in Threads, stack[t] # <<>>,
           NEW frames \in Seq(Frame), Become(t, frames)
    PROVE  Frames' = {frames[i] : i \in 1 .. Len(frames)} \cup Below(t)
<1> DEFINE new == {frames[i] : i \in 1 .. Len(frames)}
           old == {stack[t][i] : i \in 2 .. Len(stack[t])}
<1>1. /\ Len(frames) \in Nat /\ Len(stack[t]) \in Nat /\ Len(stack[t]) > 0
      /\ Len(stack'[t]) = Len(frames) + Len(stack[t]) - 1
      /\ \A j \in 2 .. Len(stack[t]) : stack'[t][j + Len(frames) - 1] = stack[t][j]
      /\ \A i \in 1 .. Len(frames) : stack'[t][i] = frames[i]
      /\ \A i \in 1 .. Len(stack'[t]) :
            \/ i \in 1 .. Len(frames) /\ stack'[t][i] = frames[i]
            \/ \E j \in 2 .. Len(stack[t]) :
                  i = j + Len(frames) - 1 /\ stack'[t][i] = stack[t][j]
      /\ \A u \in Threads \ {t} : stack'[u] = stack[u]
  BY BecomeFrames
<1>2. {stack'[t][i] : i \in 1 .. Len(stack'[t])} = new \cup old
  <2>1. ASSUME NEW i \in 1 .. Len(stack'[t]) PROVE stack'[t][i] \in new \cup old
    BY <1>1
  <2>2. ASSUME NEW i \in 1 .. Len(frames)
        PROVE  frames[i] \in {stack'[t][k] : k \in 1 .. Len(stack'[t])}
    <3>1. i \in 1 .. Len(stack'[t])
      BY <1>1
    <3> QED
      BY <3>1, <1>1
  <2>3. ASSUME NEW j \in 2 .. Len(stack[t])
        PROVE  stack[t][j] \in {stack'[t][k] : k \in 1 .. Len(stack'[t])}
    <3>1. j + Len(frames) - 1 \in 1 .. Len(stack'[t])
      BY <1>1
    <3> QED
      BY <3>1, <1>1
  <2> QED
    BY <2>1, <2>2, <2>3
<1>3. UNION {{stack'[u][i] : i \in 1 .. Len(stack'[u])} : u \in Threads \ {t}} =
      UNION {{stack[u][i] : i \in 1 .. Len(stack[u])} : u \in Threads \ {t}}
  <2> DEFINE A(s) == {s[i] : i \in 1 .. Len(s)}
  <2> HIDE DEF A
  <2>1. {A(stack'[u]) : u \in Threads \ {t}} = {A(stack[u]) : u \in Threads \ {t}}
    BY <1>1
  <2> QED
    BY <2>1 DEF A
<1>4. Frames' = {stack'[t][i] : i \in 1 .. Len(stack'[t])} \cup
                UNION {{stack'[u][i] : i \in 1 .. Len(stack'[u])} : u \in Threads \ {t}}
  <2> DEFINE A(u) == {stack'[u][i] : i \in 1 .. Len(stack'[u])}
  <2> HIDE DEF A
  <2>1. UNION {A(u) : u \in Threads} = A(t) \cup UNION {A(u) : u \in Threads \ {t}}
    OBVIOUS
  <2> QED
    BY <2>1 DEF Frames, A
<1> QED
  BY <1>2, <1>3, <1>4 DEF Below

\* Who relies on the mutex holds it.
LEMMA LockedOwns ==
    ASSUME RuntimeInv, NEW t \in Threads, stack[t] # <<>>, Top(t).pc \in LockedPCs
    PROVE  owner = t
<1>1. 1 \in 1 .. Len(stack[t]) /\ Top(t) = stack[t][1]
  BY TopIsFirst DEF RuntimeInv
<1> QED
  BY <1>1 DEF RuntimeInv, StackInv, BroadcastsExclude, HasFrame

\* Below the running frame of a thread that holds the mutex, or may take it,
\* nobody is in broadcast() ...
LEMMA NoBroadcastBelow ==
    ASSUME RuntimeInv, BroadcastOnTop, NEW t \in Threads, owner \in {NIL, t}
    PROVE  \A f \in Below(t) : f.pc \notin BroadcastPCs
<1>1. ASSUME NEW u \in Threads \ {t}, NEW i \in 1 .. Len(stack[u])
      PROVE  stack[u][i].pc \notin BroadcastPCs
  <2>1. owner # u
    BY ThreadAssumption
  <2>2. stack[u][i].pc \notin LockedPCs
    BY <2>1 DEF RuntimeInv, StackInv, BroadcastsExclude, HasFrame
  <2> QED
    BY <2>2 DEF LockedPCs, BroadcastPCs
<1> QED
  BY <1>1 DEF BroadcastOnTop, Below

\* ... and below the running frame of algorithm() there is no other one of it.
LEMMA NoAlgorithmBelow ==
    ASSUME RuntimeInv, NEW t \in Threads, NEW pc \in AlgorithmPCs, At(t, pc)
    PROVE  \A f \in Below(t) : f.pc \notin AlgorithmPCs
<1>1. ASSUME NEW i \in 2 .. Len(stack[t]), stack[t][i].pc \in AlgorithmPCs PROVE FALSE
  <2>1. i \in 1 .. Len(stack[t]) /\ i # 1
    BY TopIsFirst DEF RuntimeInv, At
  <2> QED
    BY <2>1, <1>1, OnlyAlgorithm
<1>2. ASSUME NEW u \in Threads \ {t}, NEW i \in 1 .. Len(stack[u]), stack[u][i].pc \in AlgorithmPCs
      PROVE  FALSE
  BY <1>2, OnlyAlgorithm
<1> QED
  BY <1>1, <1>2 DEF Below

\* broadcast() stays on top if it is not called above.
LEMMA OnTopStep ==
    ASSUME TypeOK, BroadcastOnTop, NEW t \in Threads, stack[t] # <<>>,
           NEW frames \in Seq(Frame), Become(t, frames),
           \A i \in 2 .. Len(frames) : frames[i].pc \notin BroadcastPCs
    PROVE  BroadcastOnTop'
<1>1. ASSUME NEW i \in 2 .. Len(stack'[t]) PROVE stack'[t][i].pc \notin BroadcastPCs
  <2>1. /\ Len(frames) \in Nat /\ Len(stack'[t]) \in Nat
        /\ \/ i \in 1 .. Len(frames) /\ stack'[t][i] = frames[i]
           \/ \E j \in 2 .. Len(stack[t]) : stack'[t][i] = stack[t][j]
    <3>1. stack'[t] \in Seq(Frame) /\ Len(frames) \in Nat
      BY BecomeFrames
    <3>2. i \in 1 .. Len(stack'[t])
      BY <3>1
    <3> QED
      BY <3>1, <3>2, BecomeFrames
  <2> QED
    BY <2>1 DEF BroadcastOnTop
<1>2. \A u \in Threads \ {t} : stack'[u] = stack[u]
  BY BecomeFrames
<1> QED
  BY <1>1, <1>2 DEF BroadcastOnTop, BroadcastPCs

-----------------------------------------------------------------------------
(* What each kind of step does to the frames of broadcast() and of         *)
(* algorithm().                                                            *)

FramesStay ==
    BroadcastFrames' = BroadcastFrames /\ AlgorithmFrames' = AlgorithmFrames /\ BroadcastOnTop'

\* A step from and to other frames leaves them alone ...
LEMMA OtherFrames ==
    ASSUME TypeOK, BroadcastOnTop, NEW t \in Threads, stack[t] # <<>>,
           Top(t).pc \notin BroadcastPCs \cup AlgorithmPCs,
           NEW frames \in Seq(Frame), Become(t, frames),
           \A i \in 1 .. Len(frames) : frames[i].pc \notin BroadcastPCs \cup AlgorithmPCs
    PROVE  FramesStay
<1>1. Frames = {Top(t)} \cup Below(t)
  BY FramesSplit
<1>2. Frames' = {frames[i] : i \in 1 .. Len(frames)} \cup Below(t)
  BY FramesBecome
<1>3. BroadcastFrames' = BroadcastFrames
  BY <1>1, <1>2 DEF BroadcastFrames
<1>4. AlgorithmFrames' = AlgorithmFrames
  BY <1>1, <1>2 DEF AlgorithmFrames
<1>5. \A i \in 2 .. Len(frames) : frames[i].pc \notin BroadcastPCs
  OBVIOUS
<1> QED
  BY <1>3, <1>4, <1>5, OnTopStep DEF FramesStay

\* ... as do user code, entering and exiting states ...
LEMMA PlainFramesStay ==
    ASSUME RuntimeInv, BroadcastOnTop, NEW t \in Threads, PlainStep(t)
    PROVE  FramesStay
<1>1. PICK frames : Callable(frames) /\ Become(t, frames)
  BY DEF PlainStep, Plainly
<1>2. frames \in Seq(Frame) /\ \A i \in 1 .. Len(frames) : frames[i].pc \notin LockedPCs
  BY <1>1 DEF Callable, PlainFrame
<1>3. LockedPCs = BroadcastPCs \cup AlgorithmPCs \cup {"unlock"}
  BY DEF LockedPCs, BroadcastPCs, AlgorithmPCs
<1> HIDE DEF LockedPCs, BroadcastPCs, AlgorithmPCs
<1> QED
  BY <1>1, <1>2, <1>3, OtherFrames DEF PlainStep, RuntimeInv

\* ... and releasing the mutex.
LEMMA UnlockFramesStay ==
    ASSUME RuntimeInv, BroadcastOnTop, NEW t \in Threads, Unlock(t)
    PROVE  FramesStay
<1>1. stack[t] # <<>> /\ Top(t).pc = "unlock" /\ Become(t, <<>>)
  BY TopTyped DEF Unlock, ReturnVoid
<1>2. <<>> \in Seq(Frame) /\ \A i \in 1 .. Len(<<>>) : FALSE
  OBVIOUS
<1> QED
  BY <1>1, <1>2, OtherFrames DEF RuntimeInv, BroadcastPCs, AlgorithmPCs

\* A client begins with a frame that relies on nothing.
LEMMA ClientFramesStay ==
    ASSUME RuntimeInv, BroadcastOnTop, NEW t \in Threads, Client(t)
    PROVE  FramesStay /\ UNCHANGED <<markVars, queueVars, lockVars>>
<1>1. ASSUME NEW frames, Callable(frames), Call(t, frames)
      PROVE  FramesStay /\ UNCHANGED <<markVars, queueVars, lockVars>>
  <2>1. /\ stack[t] = <<>> /\ stack \in [Threads -> Seq(Frame)] /\ frames \in Seq(Frame)
        /\ stack'[t] = frames
        /\ \A u \in Threads \ {t} : stack'[u] = stack[u]
        /\ UNCHANGED <<markVars, queueVars, lockVars>>
    BY <1>1 DEF Call, Idle, Callable, RuntimeInv, TypeOK
  <2>2. \A i \in 1 .. Len(frames) : frames[i].pc \notin BroadcastPCs \cup AlgorithmPCs
    BY <1>1 DEF Callable, PlainFrame, LockedPCs, BroadcastPCs, AlgorithmPCs
  <2> DEFINE others == UNION {{stack[u][i] : i \in 1 .. Len(stack[u])} : u \in Threads \ {t}}
             others2 == UNION {{stack'[u][i] : i \in 1 .. Len(stack'[u])} : u \in Threads \ {t}}
  <2>3. others2 = others
    <3> DEFINE A(s) == {s[i] : i \in 1 .. Len(s)}
    <3> HIDE DEF A
    <3>1. {A(stack'[u]) : u \in Threads \ {t}} = {A(stack[u]) : u \in Threads \ {t}}
      BY <2>1
    <3> QED
      BY <3>1 DEF A
  <2>4. Frames = others
    <3>1. {stack[t][i] : i \in 1 .. Len(stack[t])} = {}
      BY <2>1
    <3> QED
      BY <3>1, FramesOf
  <2>5. Frames' = {frames[i] : i \in 1 .. Len(frames)} \cup others2
    <3> DEFINE A(u) == {stack'[u][i] : i \in 1 .. Len(stack'[u])}
    <3> HIDE DEF A
    <3>1. UNION {A(u) : u \in Threads} = A(t) \cup UNION {A(u) : u \in Threads \ {t}}
      OBVIOUS
    <3> QED
      BY <3>1, <2>1 DEF Frames, A
  <2> HIDE DEF others, others2
  <2>6. BroadcastFrames' = BroadcastFrames
    BY <2>2, <2>3, <2>4, <2>5 DEF BroadcastFrames
  <2>7. AlgorithmFrames' = AlgorithmFrames
    BY <2>2, <2>3, <2>4, <2>5 DEF AlgorithmFrames
  <2>8. BroadcastOnTop'
    BY <2>1, <2>2, SMTT(30) DEF BroadcastOnTop, BroadcastPCs
  <2> QED
    BY <2>1, <2>6, <2>7, <2>8 DEF FramesStay
<1>2. ASSUME NEW e \in Events, CallEvent(t, e)
      PROVE  FramesStay /\ UNCHANGED <<markVars, queueVars, lockVars>>
  BY <1>1, <1>2, LockFrames, OneCallable DEF CallEvent
<1>3. CASE CallEnter(t)
  BY <1>1, <1>3, HierarchyAssumption, EnterCallable DEF CallEnter, StateOrNil
<1>4. CASE CallExit(t)
  BY <1>1, <1>4, HierarchyAssumption, ExitCallable DEF CallExit, StateOrNil
<1>5. ASSUME NEW s \in States, CallClear(t, s) \/ CallDeepClear(t, s)
      PROVE  FramesStay /\ UNCHANGED <<markVars, queueVars, lockVars>>
  <2>1. stack' = stack /\ UNCHANGED <<markVars, queueVars, lockVars>>
    BY <1>5 DEF CallClear, CallDeepClear, callVars
  <2> QED
    BY <2>1 DEF FramesStay, BroadcastFrames, AlgorithmFrames, Frames, BroadcastOnTop
<1> QED
  BY <1>2, <1>3, <1>4, <1>5 DEF Client

\* The mutex is taken to broadcast one event.
LEMMA LockFramesMove ==
    ASSUME RuntimeInv, BroadcastOnTop, NEW t \in Threads, Lock(t)
    PROVE  /\ BroadcastFrames = {} /\ BroadcastFrames' = {EventFrame("broadcast", Top(t).e)}
           /\ EventFrame("broadcast", Top(t).e).pc = "broadcast"
           /\ AlgorithmFrames' = AlgorithmFrames /\ BroadcastOnTop'
<1> DEFINE f == Top(t)
           a == EventFrame("broadcast", f.e)
           b == EventFrame("unlock", NIL)
           frames == Append(<<a>>, b)
<1>1. /\ TypeOK /\ stack[t] # <<>> /\ f.pc = "lock" /\ f.e \in Events
      /\ Become(t, frames) /\ owner \in {NIL, t}
  BY TopTyped DEF RuntimeInv, Lock, CallThen, FrameTyped, EventPCs
<1>2. a \in Frame /\ a.pc = "broadcast" /\ b \in Frame /\ b.pc = "unlock"
  BY <1>1 DEF EventFrame, F0, Frame, PCs, StateOrNil, EventOrNil
<1> HIDE DEF a, b
<1>3. frames \in Seq(Frame) /\ Len(frames) = 2 /\ frames[1] = a /\ frames[2] = b
  BY <1>2
<1> HIDE DEF frames
<1>4. {frames[i] : i \in 1 .. Len(frames)} = {a, b}
  BY <1>3
<1>5. Frames = {f} \cup Below(t) /\ Frames' = {a, b} \cup Below(t)
  BY <1>1, <1>3, <1>4, FramesSplit, FramesBecome
<1>6. \A g \in Below(t) : g.pc \notin BroadcastPCs
  BY <1>1, NoBroadcastBelow
<1>7. BroadcastFrames = {} /\ BroadcastFrames' = {a}
  BY <1>1, <1>2, <1>5, <1>6 DEF BroadcastFrames, BroadcastPCs
<1>8. AlgorithmFrames' = AlgorithmFrames
  BY <1>1, <1>2, <1>5 DEF AlgorithmFrames, AlgorithmPCs
<1>9. BroadcastOnTop'
  <2>1. \A i \in 2 .. Len(frames) : frames[i].pc \notin BroadcastPCs
    BY <1>2, <1>3 DEF BroadcastPCs
  <2> QED
    BY <1>1, <1>3, <2>1, OnTopStep
<1> QED
  BY <1>2, <1>7, <1>8, <1>9 DEF a

\* broadcast() continues as the one frame g ...
LEMMA BroadcastFrameMoves ==
    ASSUME RuntimeInv, BroadcastOnTop, NEW t \in Threads, NEW pc \in BroadcastPCs, At(t, pc),
           NEW g \in Frame, g.pc \in BroadcastPCs, Goto(t, g)
    PROVE  /\ BroadcastFrames = {Top(t)} /\ BroadcastFrames' = {g}
           /\ AlgorithmFrames' = AlgorithmFrames /\ BroadcastOnTop'
           /\ owner = t
<1> DEFINE f == Top(t)
           frames == <<g>>
<1>1. TypeOK /\ stack[t] # <<>> /\ f.pc = pc /\ f.pc \in LockedPCs /\ Become(t, frames)
  BY TopTyped DEF RuntimeInv, Goto, BroadcastPCs, LockedPCs
<1>2. owner = t
  BY <1>1, LockedOwns
<1>3. frames \in Seq(Frame) /\ Len(frames) = 1 /\ frames[1] = g
  OBVIOUS
<1> HIDE DEF frames
<1>4. {frames[i] : i \in 1 .. Len(frames)} = {g}
  BY <1>3
<1>5. Frames = {f} \cup Below(t) /\ Frames' = {g} \cup Below(t)
  BY <1>1, <1>3, <1>4, FramesSplit, FramesBecome
<1>6. \A h \in Below(t) : h.pc \notin BroadcastPCs
  BY <1>2, NoBroadcastBelow
<1>7. BroadcastFrames = {f} /\ BroadcastFrames' = {g}
  BY <1>1, <1>5, <1>6 DEF BroadcastFrames
<1>8. AlgorithmFrames' = AlgorithmFrames
  BY <1>1, <1>5 DEF AlgorithmFrames, AlgorithmPCs, BroadcastPCs
<1>9. BroadcastOnTop'
  <2>1. \A i \in 2 .. Len(frames) : FALSE
    BY <1>3
  <2> QED
    BY <1>1, <1>3, <2>1, OnTopStep
<1> QED
  BY <1>2, <1>7, <1>8, <1>9

\* ... or returns.
LEMMA BroadcastFrameGoes ==
    ASSUME RuntimeInv, BroadcastOnTop, NEW t \in Threads, NEW pc \in BroadcastPCs, At(t, pc),
           Become(t, <<>>)
    PROVE  /\ BroadcastFrames = {Top(t)} /\ BroadcastFrames' = {}
           /\ AlgorithmFrames' = AlgorithmFrames /\ BroadcastOnTop'
           /\ owner = t
<1> DEFINE f == Top(t)
           frames == <<>>
<1>1. TypeOK /\ stack[t] # <<>> /\ f.pc = pc /\ f.pc \in LockedPCs /\ Become(t, frames)
  BY TopTyped DEF RuntimeInv, BroadcastPCs, LockedPCs
<1>2. owner = t
  BY <1>1, LockedOwns
<1>3. frames \in Seq(Frame) /\ Len(frames) = 0
  OBVIOUS
<1> HIDE DEF frames
<1>4. {frames[i] : i \in 1 .. Len(frames)} = {}
  BY <1>3
<1>5. Frames = {f} \cup Below(t) /\ Frames' = Below(t)
  BY <1>1, <1>3, <1>4, FramesSplit, FramesBecome
<1>6. \A h \in Below(t) : h.pc \notin BroadcastPCs
  BY <1>2, NoBroadcastBelow
<1>7. BroadcastFrames = {f} /\ BroadcastFrames' = {}
  BY <1>1, <1>5, <1>6 DEF BroadcastFrames
<1>8. AlgorithmFrames' = AlgorithmFrames
  BY <1>1, <1>5 DEF AlgorithmFrames, AlgorithmPCs, BroadcastPCs
<1>9. BroadcastOnTop'
  <2>1. \A i \in 2 .. Len(frames) : FALSE
    BY <1>3
  <2> QED
    BY <1>1, <1>3, <2>1, OnTopStep
<1> QED
  BY <1>2, <1>7, <1>8, <1>9

\* The steps that find transitions.
FindStep(t) ==
    \/ PreconditionTrue(t) \/ FindSkip(t) \/ FindInternal(t) \/ FindAborted(t)
    \/ FindExternal(t) \/ (Bump(t) /\ At(t, "find_transition"))

\* In such a step the frame of broadcast(), f, becomes g, which evaluates the
\* same event and looks at the same list of transitions or the next one.  A
\* transition that is marked has been found, unless it is aborted.
FindMove(t, f, g) ==
    /\ f = Top(t) /\ f \in Frame /\ f.pc \in EvaluatingPCs /\ f.e \in Events
    /\ g \in Frame /\ g.pc = "find_transition" /\ g.e = f.e
    /\ f.pc = "precondition" => g.list = f.e
    /\ f.pc = "find_transition" =>
         f.list \in Events /\ (g.list = f.list \/ (g.list = Base[f.list] /\ g.list \in Events))
    /\ f.found => g.found
    /\ g.found \/ taken_' = taken_ \/ FindAborted(t)
    /\ BroadcastFrames = {f} /\ BroadcastFrames' = {g}
    /\ AlgorithmFrames' = AlgorithmFrames /\ BroadcastOnTop'

LEMMA FindMoves ==
    ASSUME RuntimeInv, BroadcastOnTop, NEW t \in Threads, FindStep(t)
    PROVE  \E g : FindMove(t, Top(t), g)
<1> DEFINE f == Top(t)
<1> HIDE DEF f
<1>1. ASSUME NEW l \in Events, NEW i \in Nat, NEW b \in BOOLEAN, NEW pc \in EvaluatingPCs, At(t, pc),
             Goto(t, [f EXCEPT !.pc = "find_transition", !.list = l, !.i = i, !.found = b]),
             pc = "precondition" => l = f.e,
             pc = "find_transition" => f.list \in Events /\ (l = f.list \/ l = Base[f.list]),
             f.found => b, b \/ taken_' = taken_ \/ FindAborted(t)
      PROVE  \E g : FindMove(t, f, g)
  <2> DEFINE g == [f EXCEPT !.pc = "find_transition", !.list = l, !.i = i, !.found = b]
  <2>1. f \in Frame /\ f.pc = pc /\ f.e \in Events
    BY <1>1, TopTyped DEF f, FrameTyped, EventPCs, EvaluatingPCs
  <2>2. g \in Frame /\ g.pc = "find_transition" /\ g.e = f.e /\ g.list = l /\ g.found = b
    BY <2>1 DEF Frame, PCs, EventOrNil
  <2>3. Goto(t, g)
    BY <1>1
  <2> HIDE DEF g
  <2>4. pc \in BroadcastPCs /\ g.pc \in BroadcastPCs
    BY <2>2 DEF EvaluatingPCs, BroadcastPCs
  <2>5. /\ BroadcastFrames = {f} /\ BroadcastFrames' = {g}
        /\ AlgorithmFrames' = AlgorithmFrames /\ BroadcastOnTop'
    BY <1>1, <2>2, <2>3, <2>4, BroadcastFrameMoves DEF f
  <2>6. FindMove(t, f, g)
    BY <1>1, <2>1, <2>2, <2>5 DEF FindMove, f
  <2> QED
    BY <2>6
<1>2. CASE PreconditionTrue(t)
  <2>1. /\ At(t, "precondition") /\ f \in Frame /\ f.e \in Events /\ f.found \in BOOLEAN
        /\ Goto(t, [f EXCEPT !.pc = "find_transition", !.list = f.e, !.i = 1])
        /\ taken_' = taken_
    BY <1>2, TopTyped DEF PreconditionTrue, markVars, FrameTyped, EventPCs, Frame, f
  <2>2. [f EXCEPT !.pc = "find_transition", !.list = f.e, !.i = 1] =
        [f EXCEPT !.pc = "find_transition", !.list = f.e, !.i = 1, !.found = f.found]
    BY <2>1 DEF Frame
  <2>3. 1 \in Nat /\ "precondition" \in EvaluatingPCs
    BY DEF EvaluatingPCs
  <2> QED
    BY <1>1, <2>1, <2>2, <2>3 DEF f
<1>3. CASE ~ PreconditionTrue(t)
  <2>1. /\ At(t, "find_transition") /\ f \in Frame /\ f.pc = "find_transition"
        /\ f.list \in Events /\ f.i \in Nat /\ f.i + 1 \in Nat /\ f.found \in BOOLEAN
        /\ "find_transition" \in EvaluatingPCs
    BY <1>3, TopTyped DEF FindStep, FindSkip, FindInternal, FindAborted, FindExternal, AtTransition,
       FrameTyped, IteratorPCs, Frame, EvaluatingPCs, f
  <2>2. CASE Bump(t)
    <3>1. /\ Base[f.list] \in Events /\ Goto(t, [f EXCEPT !.list = Base[f.list], !.i = 1])
          /\ taken_' = taken_
      BY <2>1, <2>2, BaseTyped DEF Bump, CanBump, markVars, f
    <3>2. [f EXCEPT !.list = Base[f.list], !.i = 1] =
          [f EXCEPT !.pc = "find_transition", !.list = Base[f.list], !.i = 1, !.found = f.found]
      BY <2>1 DEF Frame
    <3>3. PICK l \in Events : l = Base[f.list]
      BY <3>1
    <3>4. Goto(t, [f EXCEPT !.pc = "find_transition", !.list = l, !.i = 1, !.found = f.found])
      BY <3>1, <3>2, <3>3
    <3>5. 1 \in Nat
      OBVIOUS
    <3> QED
      BY <1>1, <2>1, <3>1, <3>3, <3>4, <3>5 DEF f
  <2>3. CASE FindSkip(t) \/ FindAborted(t)
    <3>1. Goto(t, [f EXCEPT !.i = f.i + 1]) /\ (taken_' = taken_ \/ FindAborted(t))
      BY <2>3 DEF FindSkip, FindAborted, NextTransition, markVars, f
    <3>2. [f EXCEPT !.i = f.i + 1] =
          [f EXCEPT !.pc = "find_transition", !.list = f.list, !.i = f.i + 1, !.found = f.found]
      BY <2>1 DEF Frame
    <3> QED
      BY <1>1, <2>1, <3>1, <3>2 DEF f
  <2>4. CASE FindInternal(t) \/ FindExternal(t)
    <3>1. Goto(t, [[f EXCEPT !.i = f.i + 1] EXCEPT !.found = TRUE])
      BY <2>4 DEF FindInternal, FindExternal, NextTransition, f
    <3>2. [[f EXCEPT !.i = f.i + 1] EXCEPT !.found = TRUE] =
          [f EXCEPT !.pc = "find_transition", !.list = f.list, !.i = f.i + 1, !.found = TRUE]
      BY <2>1 DEF Frame
    <3> QED
      BY <1>1, <2>1, <3>1, <3>2 DEF f
  <2> QED
    BY <1>3, <2>2, <2>3, <2>4 DEF FindStep, f
<1> QED
  BY <1>2, <1>3 DEF f

\* The running frame of t continues as g, perhaps after a call.
Moved(t, g) == \E calls : Callable(calls) /\ Become(t, Append(calls, g))

\* Continuing and calling are such moves.
LEMMA GotoMoves ==
    ASSUME NEW t, NEW g \in Frame, Goto(t, g)
    PROVE  Moved(t, g)
<1>1. Callable(<<>>) /\ Append(<<>>, g) = <<g>>
  BY DEF Callable
<1> QED
  BY <1>1 DEF Moved, Goto

\* A call that is followed by g.
LEMMA CallMoves ==
    ASSUME NEW t, NEW g \in Frame, NEW calls, Callable(calls), CallThen(t, calls, g)
    PROVE  Moved(t, g)
  BY DEF Moved, CallThen

\* algorithm() continues as the one frame g ...
LEMMA AlgorithmFrameMoves ==
    ASSUME RuntimeInv, BroadcastOnTop, NEW t \in Threads, NEW pc \in AlgorithmPCs, At(t, pc),
           NEW g \in Frame, g.pc \in AlgorithmPCs, Moved(t, g)
    PROVE  /\ BroadcastFrames = {} /\ BroadcastFrames' = {} /\ BroadcastOnTop'
           /\ AlgorithmFrames = {Top(t)} /\ AlgorithmFrames' = {g}
           /\ owner = t
<1> DEFINE f == Top(t)
<1>1. PICK calls : Callable(calls) /\ Become(t, Append(calls, g))
  BY DEF Moved
<1> DEFINE frames == Append(calls, g)
<1>2. TypeOK /\ stack[t] # <<>> /\ f.pc = pc /\ f.pc \in LockedPCs
  BY TopTyped DEF RuntimeInv, AlgorithmPCs, LockedPCs
<1>3. owner = t
  BY <1>2, LockedOwns
<1>4. calls \in Seq(Frame) /\ Len(calls) \in Nat /\ \A i \in 1 .. Len(calls) : calls[i].pc \notin LockedPCs
  BY <1>1 DEF Callable, PlainFrame
<1>5. /\ frames \in Seq(Frame) /\ Len(frames) = Len(calls) + 1
      /\ frames[Len(calls) + 1] = g
      /\ \A i \in 1 .. Len(calls) : frames[i] = calls[i]
  BY <1>4
<1>6. Become(t, frames)
  BY <1>1
<1> HIDE DEF frames
<1>7. 1 .. Len(frames) = (1 .. Len(calls)) \cup {Len(calls) + 1}
  BY <1>4, <1>5
<1> DEFINE called == {calls[i] : i \in 1 .. Len(calls)}
<1>8. {frames[i] : i \in 1 .. Len(frames)} = called \cup {g}
  BY <1>5, <1>7
<1>9. Frames = {f} \cup Below(t) /\ Frames' = called \cup {g} \cup Below(t)
  BY <1>2, <1>5, <1>6, <1>8, FramesSplit, FramesBecome
<1>10. \A h \in called : h.pc \notin BroadcastPCs /\ h.pc \notin AlgorithmPCs
  BY <1>4 DEF BroadcastPCs, AlgorithmPCs, LockedPCs
<1> HIDE DEF called
<1>11. \A h \in Below(t) : h.pc \notin BroadcastPCs /\ h.pc \notin AlgorithmPCs
  BY <1>3, NoBroadcastBelow, NoAlgorithmBelow
<1>12. f.pc \in AlgorithmPCs /\ f.pc \notin BroadcastPCs /\ g.pc \notin BroadcastPCs
  BY <1>2 DEF AlgorithmPCs, BroadcastPCs
<1>13. BroadcastFrames = {} /\ BroadcastFrames' = {}
  BY <1>9, <1>10, <1>11, <1>12 DEF BroadcastFrames
<1>14. AlgorithmFrames = {f} /\ AlgorithmFrames' = {g}
  BY <1>9, <1>10, <1>11, <1>12 DEF AlgorithmFrames
<1>15. BroadcastOnTop'
  <2>1. \A i \in 2 .. Len(frames) : frames[i].pc \notin BroadcastPCs
    <3>1. \A i \in 2 .. Len(frames) : i \in 1 .. Len(calls) \/ i = Len(calls) + 1
      BY <1>4, <1>5
    <3> QED
      BY <3>1, <1>4, <1>5, <1>12 DEF BroadcastPCs, LockedPCs
  <2> QED
    BY <1>2, <1>5, <1>6, <2>1, OnTopStep
<1> QED
  BY <1>3, <1>13, <1>14, <1>15

\* algorithm() is entered by the frame that called it ...
LEMMA AlgorithmFrameComes ==
    ASSUME RuntimeInv, BroadcastOnTop, NEW t \in Threads, AlgorithmBegin(t)
    PROVE  LET g == EventFrame("micro_step", NIL)
           IN  /\ BroadcastFrames = {Top(t)} /\ BroadcastFrames' = {} /\ BroadcastOnTop'
               /\ AlgorithmFrames = {} /\ AlgorithmFrames' = {g} /\ g.pc = "micro_step"
               /\ owner = t
<1> DEFINE f == Top(t)
           g == EventFrame("micro_step", NIL)
           frames == <<g>>
<1>1. /\ TypeOK /\ stack[t] # <<>> /\ f.pc = "algorithm" /\ f.pc \in LockedPCs /\ Become(t, frames)
      /\ ~ in_progress_
  BY TopTyped DEF RuntimeInv, AlgorithmBegin, Goto, LockedPCs
<1>2. owner = t
  BY <1>1, LockedOwns
<1>3. g \in Frame /\ g.pc = "micro_step"
  BY MicroStepFrame
<1> HIDE DEF g
<1>4. frames \in Seq(Frame) /\ Len(frames) = 1 /\ frames[1] = g
  BY <1>3
<1> HIDE DEF frames
<1>5. {frames[i] : i \in 1 .. Len(frames)} = {g}
  BY <1>4
<1>6. Frames = {f} \cup Below(t) /\ Frames' = {g} \cup Below(t)
  BY <1>1, <1>4, <1>5, FramesSplit, FramesBecome
<1>7. \A h \in Below(t) : h.pc \notin BroadcastPCs
  BY <1>2, NoBroadcastBelow
<1>8. \A h \in Frames : h.pc \notin AlgorithmPCs
  BY <1>1 DEF RuntimeInv, StackInv, OneAlgorithm, Frames
<1>9. BroadcastFrames = {f} /\ BroadcastFrames' = {}
  BY <1>1, <1>3, <1>6, <1>7 DEF BroadcastFrames, BroadcastPCs
<1>10. AlgorithmFrames = {} /\ AlgorithmFrames' = {g}
  BY <1>3, <1>6, <1>8 DEF AlgorithmFrames, AlgorithmPCs
<1>11. BroadcastOnTop'
  <2>1. \A i \in 2 .. Len(frames) : FALSE
    BY <1>4
  <2> QED
    BY <1>1, <1>4, <2>1, OnTopStep
<1> QED
  BY <1>2, <1>3, <1>9, <1>10, <1>11 DEF g

\* ... and left.
LEMMA AlgorithmFrameGoes ==
    ASSUME RuntimeInv, BroadcastOnTop, NEW t \in Threads, AlgorithmEnd(t)
    PROVE  /\ BroadcastFrames = {} /\ BroadcastFrames' = {} /\ BroadcastOnTop'
           /\ AlgorithmFrames = {Top(t)} /\ AlgorithmFrames' = {}
           /\ owner = t
<1> DEFINE f == Top(t)
           frames == <<>>
<1>1. /\ TypeOK /\ stack[t] # <<>> /\ f.pc = "micro_step" /\ f.pc \in LockedPCs /\ Become(t, frames)
      /\ At(t, "micro_step") /\ "micro_step" \in AlgorithmPCs
  BY TopTyped DEF RuntimeInv, AlgorithmEnd, ReturnVoid, LockedPCs, AlgorithmPCs
<1>2. owner = t
  BY <1>1, LockedOwns
<1>3. frames \in Seq(Frame) /\ Len(frames) = 0
  OBVIOUS
<1> HIDE DEF frames
<1>4. {frames[i] : i \in 1 .. Len(frames)} = {}
  BY <1>3
<1>5. Frames = {f} \cup Below(t) /\ Frames' = Below(t)
  BY <1>1, <1>3, <1>4, FramesSplit, FramesBecome
<1>6. \A h \in Below(t) : h.pc \notin BroadcastPCs /\ h.pc \notin AlgorithmPCs
  BY <1>1, <1>2, NoBroadcastBelow, NoAlgorithmBelow
<1>7. BroadcastFrames = {} /\ BroadcastFrames' = {}
  BY <1>1, <1>5, <1>6 DEF BroadcastFrames, BroadcastPCs
<1>8. AlgorithmFrames = {f} /\ AlgorithmFrames' = {}
  BY <1>1, <1>5, <1>6 DEF AlgorithmFrames
<1>9. BroadcastOnTop'
  <2>1. \A i \in 2 .. Len(frames) : FALSE
    BY <1>3
  <2> QED
    BY <1>1, <1>3, <2>1, OnTopStep
<1> QED
  BY <1>2, <1>7, <1>8, <1>9

-----------------------------------------------------------------------------
(* How the frame of algorithm() moves within a micro-step.                 *)

\* In a step of t that frame, f, becomes g.
StepMove(t, f, g) ==
    /\ f = Top(t) /\ f \in Frame /\ FrameTyped(f) /\ f.pc \in StepPCs
    /\ f.n <= Len(event_queue_)
    /\ g \in Frame /\ g.pc \in StepPCs
    /\ owner = t
    /\ BroadcastFrames = {} /\ BroadcastFrames' = {} /\ BroadcastOnTop'
    /\ AlgorithmFrames = {f} /\ AlgorithmFrames' = {g}

\* The same event of the same micro-step is processed.
SameEvent(f, g) == g.e = f.e /\ g.q = f.q /\ g.n = f.n

\* A move within a micro-step.
LEMMA MoveIsStep ==
    ASSUME RuntimeInv, BroadcastOnTop, NEW t \in Threads, NEW pc \in StepPCs, At(t, pc),
           NEW g \in Frame, g.pc \in StepPCs, Moved(t, g)
    PROVE  StepMove(t, Top(t), g)
<1>1. pc \in AlgorithmPCs /\ g.pc \in AlgorithmPCs
  BY DEF StepPCs
<1>2. /\ BroadcastFrames = {} /\ BroadcastFrames' = {} /\ BroadcastOnTop'
      /\ AlgorithmFrames = {Top(t)} /\ AlgorithmFrames' = {g} /\ owner = t
  BY <1>1, AlgorithmFrameMoves
<1>3. /\ Top(t) \in Frame /\ FrameTyped(Top(t)) /\ Top(t).pc \in StepPCs
      /\ Top(t).n <= Len(event_queue_)
  BY TopTyped
<1> QED
  BY <1>2, <1>3 DEF StepMove

\* The iterator proceeds to the next transition ...
LEMMA NextTransitionMoves ==
    ASSUME RuntimeInv, BroadcastOnTop, NEW t \in Threads,
           \/ ExitSkip(t) \/ ExitDominated(t) \/ InternalAction(t) \/ Action(t)
           \/ EnterSkip(t) \/ Unmark(t)
    PROVE  LET f == Top(t)
           IN  /\ f.pc \in {"exit_from", "action", "enter_to", "unmark"} /\ InList(f)
               /\ \E g : /\ StepMove(t, f, g) /\ SameEvent(f, g) /\ g.list = f.list /\ g.i = f.i + 1
                         /\ g.pc = IF f.pc \in {"exit_from", "action"} THEN "exit_from"
                                   ELSE "enter_to"
<1> DEFINE f == Top(t)
           next == IF f.pc \in {"exit_from", "action"} THEN "exit_from" ELSE "enter_to"
           g == [f EXCEPT !.i = f.i + 1]
           h == [g EXCEPT !.pc = next]
<1>1. PICK pc \in {"exit_from", "action", "enter_to", "unmark"} : At(t, pc)
  BY DEF ExitSkip, ExitDominated, InternalAction, Action, EnterSkip, Unmark, AtTransition
<1>2. /\ f \in Frame /\ f.pc = pc /\ pc \in StepPCs /\ f.list \in Events /\ f.i > 0 /\ f.i \in Nat
      /\ pc \in {"action", "unmark"} => InList(f)
  BY <1>1, TopTyped DEF FrameTyped, IteratorPCs, StepPCs, AlgorithmPCs, Frame
<1>3. InList(f)
  BY <1>1, <1>2 DEF ExitSkip, ExitDominated, InternalAction, Action, EnterSkip, Unmark,
     AtTransition, At
<1>4. /\ g \in Frame /\ g.pc = f.pc /\ g.i = f.i + 1 /\ g.list = f.list
      /\ g.e = f.e /\ g.q = f.q /\ g.n = f.n /\ g = NextTransition(f)
  BY <1>2 DEF NextTransition, Frame
<1> HIDE DEF g
<1>5. /\ h \in Frame /\ h.pc = next /\ h.i = f.i + 1 /\ h.list = f.list
      /\ h.e = f.e /\ h.q = f.q /\ h.n = f.n
  BY <1>4 DEF Frame, PCs
<1>6. f.pc \in {"exit_from", "enter_to"} => h = g
  BY <1>2, <1>4 DEF Frame
<1>7. ActionEmits[CurTransition(f)] \in SUBSET Events
  BY <1>2, <1>3, CurTransitionTyped, UserCodeAssumption
<1>8. Callable(<<UserFrame(ActionEmits[CurTransition(f)])>>)
  BY <1>7, UserFrames, OneCallable
<1>9. Goto(t, h) \/ CallThen(t, <<UserFrame(ActionEmits[CurTransition(f)])>>, h)
  <2>1. CASE ExitSkip(t) \/ EnterSkip(t) \/ ExitDominated(t)
    <3>1. f.pc \in {"exit_from", "enter_to"} /\ Goto(t, g)
      BY <2>1, <1>4 DEF ExitSkip, EnterSkip, ExitDominated, AtTransition, At
    <3> QED
      BY <3>1, <1>6
  <2>2. CASE InternalAction(t)
    <3>1. f.pc = "exit_from" /\ CallThen(t, <<UserFrame(ActionEmits[CurTransition(f)])>>, g)
      BY <2>2, <1>4 DEF InternalAction, AtTransition, At
    <3> QED
      BY <3>1, <1>6
  <2>3. CASE Action(t)
    <3>1. next = "exit_from"
      BY <2>3, <1>2 DEF Action, At
    <3> QED
      BY <2>3, <3>1, <1>4 DEF Action
  <2>4. CASE Unmark(t)
    <3>1. next = "enter_to"
      BY <2>4, <1>2 DEF Unmark, At
    <3> QED
      BY <2>4, <3>1, <1>4 DEF Unmark
  <2> QED
    BY <2>1, <2>2, <2>3, <2>4
<1>10. h.pc \in StepPCs
  BY <1>5 DEF StepPCs, AlgorithmPCs
<1> HIDE DEF h, next
<1>11. Moved(t, h)
  BY <1>5, <1>8, <1>9, GotoMoves, CallMoves
<1>12. StepMove(t, f, h)
  BY <1>1, <1>2, <1>5, <1>10, <1>11, MoveIsStep
<1> QED
  BY <1>2, <1>3, <1>5, <1>12 DEF SameEvent, next

\* ... once the current one has been performed.
LEMMA TransitionMoves ==
    ASSUME RuntimeInv, BroadcastOnTop, NEW t \in Threads, ExitFrom(t) \/ EnterTo(t)
    PROVE  LET f == Top(t)
           IN  /\ f.pc \in {"exit_from", "enter_to"}
               /\ \E g : /\ StepMove(t, f, g) /\ SameEvent(f, g) /\ g.list = f.list /\ g.i = f.i
                         /\ g.pc = IF f.pc = "exit_from" THEN "action" ELSE "unmark"
<1> DEFINE f == Top(t)
           next == IF f.pc = "exit_from" THEN "action" ELSE "unmark"
           g == [f EXCEPT !.pc = next]
           tr == CurTransition(f)
<1>1. PICK pc \in {"exit_from", "enter_to"} : At(t, pc)
  BY DEF ExitFrom, EnterTo, AtTransition
<1>2. /\ f \in Frame /\ f.pc = pc /\ pc \in StepPCs /\ f.list \in Events /\ f.i > 0
      /\ InList(f)
  BY <1>1, TopTyped DEF FrameTyped, IteratorPCs, StepPCs, AlgorithmPCs, Frame,
     ExitFrom, EnterTo, AtTransition
<1>3. tr \in Transitions /\ From[tr] \in States /\ target_[tr] \in StateOrNil
  BY <1>2, CurTransitionTyped, TransitionAssumption DEF RuntimeInv, TypeOK
<1>4. /\ g \in Frame /\ g.pc = next /\ g.i = f.i /\ g.list = f.list
      /\ g.e = f.e /\ g.q = f.q /\ g.n = f.n
  BY <1>2 DEF Frame, PCs
<1>5. Callable(ExitCall(From[tr], target_[tr]))
  BY <1>3, ExitCallable
<1>6. target_[tr] # NIL => Callable(EnterCall(target_[tr], NIL))
  BY <1>3, EnterCallable DEF StateOrNil
<1>7. \/ Goto(t, g)
      \/ CallThen(t, ExitCall(From[tr], target_[tr]), g)
      \/ target_[tr] # NIL /\ CallThen(t, EnterCall(target_[tr], NIL), g)
  <2>1. CASE ExitFrom(t)
    BY <2>1, <1>2 DEF ExitFrom, AtTransition, At
  <2>2. CASE EnterTo(t)
    BY <2>2, <1>2 DEF EnterTo, AtTransition, At
  <2> QED
    BY <2>1, <2>2
<1>8. g.pc \in StepPCs
  BY <1>4 DEF StepPCs, AlgorithmPCs
<1> HIDE DEF g, next
<1>9. Moved(t, g)
  BY <1>4, <1>5, <1>6, <1>7, GotoMoves, CallMoves
<1>10. StepMove(t, f, g)
  BY <1>1, <1>2, <1>4, <1>8, <1>9, MoveIsStep
<1> QED
  BY <1>2, <1>4, <1>10 DEF SameEvent, next

\* It proceeds to the transitions of the base event ...
LEMMA BumpMoves ==
    ASSUME RuntimeInv, BroadcastOnTop, NEW t \in Threads, Bump(t), ~ At(t, "find_transition")
    PROVE  LET f == Top(t)
           IN  /\ f.pc \in {"exit_from", "enter_to"} /\ ~ InList(f)
               /\ f.list \in Events /\ Base[f.list] \in Events
               /\ \E g : /\ StepMove(t, f, g) /\ SameEvent(f, g) /\ g.pc = f.pc
                         /\ g.list = Base[f.list] /\ g.i = 1
<1> DEFINE f == Top(t)
           g == [f EXCEPT !.list = Base[f.list], !.i = 1]
<1>1. PICK pc \in {"exit_from", "enter_to"} : At(t, pc)
  BY DEF Bump
<1>2. /\ f \in Frame /\ f.pc = pc /\ pc \in StepPCs /\ f.list \in Events
      /\ ~ InList(f) /\ Base[f.list] # NIL /\ Goto(t, g)
  BY <1>1, TopTyped DEF FrameTyped, IteratorPCs, StepPCs, AlgorithmPCs, Bump, CanBump
<1>3. Base[f.list] \in Events
  BY <1>2, BaseTyped
<1>4. PICK l \in EventOrNil : l = Base[f.list]
  BY <1>3 DEF EventOrNil
<1>5. g = [f EXCEPT !.list = l, !.i = 1]
  BY <1>4
<1> HIDE DEF f, g
<1>6. /\ g \in Frame /\ g.pc = f.pc /\ g.i = 1 /\ g.list = l
      /\ g.e = f.e /\ g.q = f.q /\ g.n = f.n
  BY <1>2, <1>5 DEF Frame
<1>7. Moved(t, g)
  BY <1>2, <1>6, GotoMoves
<1>8. StepMove(t, f, g)
  BY <1>1, <1>2, <1>6, <1>7, MoveIsStep DEF f
<1> QED
  BY <1>2, <1>3, <1>4, <1>6, <1>8 DEF SameEvent, f

\* ... and to the next event of the micro-step.
LEMMA EventMoves ==
    ASSUME RuntimeInv, BroadcastOnTop, NEW t \in Threads, Phase1Event(t) \/ Phase2Event(t)
    PROVE  LET f == Top(t)
               e == event_queue_[f.q]
           IN  /\ f.pc \in {"phase1", "phase2"} /\ f.q \in 1 .. f.n /\ e \in Events
               /\ \E g : /\ StepMove(t, f, g) /\ g.q = f.q /\ g.n = f.n
                         /\ g.e = e /\ g.list = e /\ g.i = 1
                         /\ g.pc = IF f.pc = "phase1" THEN "exit_from" ELSE "enter_to"
<1> DEFINE f == Top(t)
           e == event_queue_[f.q]
           next == IF f.pc = "phase1" THEN "exit_from" ELSE "enter_to"
           g == [f EXCEPT !.pc = next, !.e = e, !.list = e, !.i = 1]
<1>1. PICK pc \in {"phase1", "phase2"} : At(t, pc)
  BY DEF Phase1Event, Phase2Event
<1>2. /\ f \in Frame /\ f.pc = pc /\ pc \in StepPCs
      /\ f.q \in Nat /\ f.q > 0 /\ f.n \in Nat /\ f.n <= Len(event_queue_) /\ f.q <= f.n
  BY <1>1, TopTyped DEF FrameTyped, StepPCs, AlgorithmPCs, Frame, Phase1Event, Phase2Event
<1>3. e \in Events
  BY <1>2 DEF RuntimeInv, TypeOK
<1>4. Goto(t, g)
  BY <1>1, <1>2 DEF Phase1Event, Phase2Event, Iterate, At
<1>5. PICK x \in EventOrNil : x = e
  BY <1>3 DEF EventOrNil
<1>6. g = [f EXCEPT !.pc = next, !.e = x, !.list = x, !.i = 1]
  BY <1>5
<1>7. next \in PCs /\ next \in StepPCs
  BY DEF PCs, StepPCs, AlgorithmPCs
<1> HIDE DEF f, e, g, next
<1>8. /\ g \in Frame /\ g.pc = next /\ g.i = 1 /\ g.list = x
      /\ g.e = x /\ g.q = f.q /\ g.n = f.n
  BY <1>2, <1>6, <1>7 DEF Frame
<1>9. Moved(t, g)
  BY <1>4, <1>8, GotoMoves
<1>10. StepMove(t, f, g)
  BY <1>1, <1>2, <1>7, <1>8, <1>9, MoveIsStep DEF f
<1> QED
  BY <1>2, <1>3, <1>5, <1>8, <1>10 DEF f, e, next

\* The phases follow one another.
LEMMA PhaseMoves ==
    ASSUME RuntimeInv, BroadcastOnTop, NEW t \in Threads,
           Phase1End(t) \/ NextPhase1Event(t) \/ NextPhase2Event(t) \/ Phase2End(t)
    PROVE  LET f == Top(t)
           IN  \E g : /\ StepMove(t, f, g) /\ g.n = f.n
                      /\ \/ f.pc = "phase1" /\ f.q > f.n /\ g.pc = "phase2" /\ g.q = 1
                         \/ f.pc = "exit_from" /\ AtEnd(f) /\ g.pc = "phase1" /\ g.q = f.q + 1
                         \/ f.pc = "enter_to" /\ AtEnd(f) /\ g.pc = "phase2" /\ g.q = f.q + 1
                         \/ f.pc = "phase2" /\ f.q > f.n /\ g.pc = "phase3" /\ g.q = f.q
<1> DEFINE f == Top(t)
<1>1. ASSUME NEW pc \in StepPCs, At(t, pc), NEW next \in {"phase1", "phase2", "phase3"},
             NEW q \in Nat, Goto(t, [f EXCEPT !.pc = next, !.q = q])
      PROVE  \E g : StepMove(t, f, g) /\ g.n = f.n /\ g.pc = next /\ g.q = q
  <2> DEFINE g == [f EXCEPT !.pc = next, !.q = q]
  <2>1. f \in Frame
    BY <1>1, TopTyped
  <2>2. g \in Frame /\ g.pc = next /\ g.q = q /\ g.n = f.n /\ g.pc \in StepPCs
    BY <2>1 DEF Frame, PCs, StepPCs, AlgorithmPCs
  <2>3. Goto(t, g)
    BY <1>1
  <2> HIDE DEF g
  <2>4. StepMove(t, f, g)
    BY <1>1, <2>2, <2>3, GotoMoves, MoveIsStep
  <2> QED
    BY <2>2, <2>4
<1>2. ASSUME NEW pc \in StepPCs, At(t, pc) PROVE f \in Frame /\ f.q \in Nat /\ f.pc = pc
  BY <1>2, TopTyped DEF Frame
<1>3. {"phase1", "exit_from", "enter_to", "phase2"} \subseteq StepPCs
  BY DEF StepPCs, AlgorithmPCs
<1>4. CASE Phase1End(t)
  <2>1. At(t, "phase1") /\ f.q > f.n /\ Goto(t, [f EXCEPT !.pc = "phase2", !.q = 1])
    BY <1>4 DEF Phase1End
  <2>2. f.pc = "phase1"
    BY <2>1, <1>2, <1>3
  <2>3. PICK g : StepMove(t, f, g) /\ g.n = f.n /\ g.pc = "phase2" /\ g.q = 1
    BY <2>1, <1>1, <1>3
  <2> QED
    BY <2>1, <2>2, <2>3
<1>5. CASE NextPhase1Event(t)
  <2>1. At(t, "exit_from") /\ AtEnd(f) /\ Goto(t, [f EXCEPT !.pc = "phase1", !.q = f.q + 1])
    BY <1>5 DEF NextPhase1Event, NextEvent
  <2>2. f.q + 1 \in Nat /\ f.pc = "exit_from"
    BY <2>1, <1>2, <1>3
  <2>3. PICK g : StepMove(t, f, g) /\ g.n = f.n /\ g.pc = "phase1" /\ g.q = f.q + 1
    BY <2>1, <2>2, <1>1, <1>3
  <2> QED
    BY <2>1, <2>2, <2>3
<1>6. CASE NextPhase2Event(t)
  <2>1. At(t, "enter_to") /\ AtEnd(f) /\ Goto(t, [f EXCEPT !.pc = "phase2", !.q = f.q + 1])
    BY <1>6 DEF NextPhase2Event, NextEvent
  <2>2. f.q + 1 \in Nat /\ f.pc = "enter_to"
    BY <2>1, <1>2, <1>3
  <2>3. PICK g : StepMove(t, f, g) /\ g.n = f.n /\ g.pc = "phase2" /\ g.q = f.q + 1
    BY <2>1, <2>2, <1>1, <1>3
  <2> QED
    BY <2>1, <2>2, <2>3
<1>7. CASE Phase2End(t)
  <2>1. At(t, "phase2") /\ f.q > f.n /\ Goto(t, [f EXCEPT !.pc = "phase3"])
    BY <1>7 DEF Phase2End
  <2>2. f.q \in Nat /\ f.pc = "phase2" /\ f \in Frame
    BY <2>1, <1>2, <1>3
  <2>3. [f EXCEPT !.pc = "phase3"] = [f EXCEPT !.pc = "phase3", !.q = f.q]
    BY <2>2 DEF Frame
  <2>4. PICK g : StepMove(t, f, g) /\ g.n = f.n /\ g.pc = "phase3" /\ g.q = f.q
    BY <2>1, <2>2, <2>3, <1>1, <1>3
  <2> QED
    BY <2>1, <2>2, <2>4
<1> QED
  BY <1>4, <1>5, <1>6, <1>7

\* Phase III dequeues one event after the other.
LEMMA DequeueMoves ==
    ASSUME RuntimeInv, BroadcastOnTop, NEW t \in Threads, Phase3Dequeue(t)
    PROVE  LET f == Top(t)
           IN  /\ f.pc = "phase3" /\ f.n > 0 /\ f.n \in Nat
               /\ \E g : StepMove(t, f, g) /\ g.n = f.n - 1 /\ g.pc = "phase3" /\ g.q = f.q
<1> DEFINE f == Top(t)
           g == [f EXCEPT !.n = @ - 1]
<1>1. /\ At(t, "phase3") /\ f \in Frame /\ f.pc = "phase3" /\ f.n > 0 /\ f.n \in Nat
      /\ "phase3" \in StepPCs /\ Goto(t, g)
  BY TopTyped DEF Phase3Dequeue, Frame, StepPCs, AlgorithmPCs
<1>2. PICK m \in Nat : m = f.n - 1
  BY <1>1
<1>3. g = [f EXCEPT !.n = m]
  BY <1>2
<1> HIDE DEF f, g
<1>4. g \in Frame /\ g.pc = f.pc /\ g.n = m /\ g.q = f.q
  BY <1>1, <1>3 DEF Frame
<1>5. StepMove(t, f, g)
  BY <1>1, <1>4, GotoMoves, MoveIsStep DEF f
<1> QED
  BY <1>1, <1>2, <1>4, <1>5 DEF f

\* A micro-step ends ...
LEMMA StepEnds ==
    ASSUME RuntimeInv, BroadcastOnTop, NEW t \in Threads, Phase3End(t)
    PROVE  LET f == Top(t)
               g == EventFrame("micro_step", NIL)
           IN  /\ f.pc = "phase3" /\ f.n = 0 /\ g.pc = "micro_step"
               /\ BroadcastFrames = {} /\ BroadcastFrames' = {} /\ BroadcastOnTop'
               /\ AlgorithmFrames = {f} /\ AlgorithmFrames' = {g}
               /\ owner = t
<1> DEFINE g == EventFrame("micro_step", NIL)
<1>1. /\ At(t, "phase3") /\ Top(t).pc = "phase3" /\ Top(t).n = 0 /\ Goto(t, g)
      /\ "phase3" \in AlgorithmPCs /\ "micro_step" \in AlgorithmPCs
  BY TopTyped DEF Phase3End, AlgorithmPCs
<1>2. g \in Frame /\ g.pc = "micro_step"
  BY MicroStepFrame
<1> HIDE DEF g
<1>3. Moved(t, g)
  BY <1>1, <1>2, GotoMoves
<1> QED
  BY <1>1, <1>2, <1>3, AlgorithmFrameMoves DEF g

\* ... and the next one begins with all events then queued.
LEMMA StepBegins ==
    ASSUME RuntimeInv, BroadcastOnTop, NEW t \in Threads, MicroStep(t)
    PROVE  LET f == Top(t)
           IN  /\ f.pc = "micro_step"
               /\ BroadcastFrames = {} /\ BroadcastFrames' = {} /\ BroadcastOnTop'
               /\ AlgorithmFrames = {f}
               /\ \E g \in Frame : /\ AlgorithmFrames' = {g}
                                   /\ g.pc = "phase1" /\ g.q = 1 /\ g.n = Len(event_queue_)
               /\ owner = t
<1> DEFINE g == [F0 EXCEPT !.pc = "phase1", !.q = 1, !.n = Len(event_queue_)]
<1>1. /\ At(t, "micro_step") /\ Top(t).pc = "micro_step" /\ Goto(t, g)
      /\ "phase1" \in AlgorithmPCs /\ "micro_step" \in AlgorithmPCs
  BY TopTyped DEF MicroStep, AlgorithmPCs
<1>2. Len(event_queue_) \in Nat
  BY DEF RuntimeInv, TypeOK
<1>3. g \in Frame /\ g.pc = "phase1" /\ g.q = 1 /\ g.n = Len(event_queue_)
  BY <1>2 DEF F0, Frame, PCs, StateOrNil, EventOrNil
<1> HIDE DEF g
<1>4. Moved(t, g)
  BY <1>1, <1>3, GotoMoves
<1> QED
  BY <1>1, <1>3, <1>4, AlgorithmFrameMoves

-----------------------------------------------------------------------------
(* The values of the refinement mapping.                                   *)

\* What the one frame of broadcast() evaluates ...
LEMMA EvaluatedValue ==
    /\ \A f : EvaluatedIn({f}) = IF f.pc \in EvaluatingPCs THEN f.e ELSE NIL
    /\ EvaluatedIn({}) = NIL
<1>1. ASSUME NEW f PROVE EvaluatedIn({f}) = IF f.pc \in EvaluatingPCs THEN f.e ELSE NIL
  <2>1. CASE f.pc \in EvaluatingPCs
    <3>1. (CHOOSE h \in {f} : h.pc \in EvaluatingPCs) = f
      BY <2>1
    <3> QED
      BY <2>1, <3>1 DEF EvaluatedIn
  <2>2. CASE f.pc \notin EvaluatingPCs
    BY <2>2 DEF EvaluatedIn
  <2> QED
    BY <2>1, <2>2
<1>2. EvaluatedIn({}) = NIL
  BY DEF EvaluatedIn
<1> QED
  BY <1>1, <1>2

\* ... and what the one frame of algorithm() has yet to dequeue.
LEMMA LeftValue ==
    /\ \A f : LeftIn({f}) = IF f.pc \in StepPCs THEN f.n ELSE 0
    /\ LeftIn({}) = 0
<1>1. ASSUME NEW f PROVE LeftIn({f}) = IF f.pc \in StepPCs THEN f.n ELSE 0
  <2>1. CASE f.pc \in StepPCs
    <3>1. (CHOOSE h \in {f} : h.pc \in StepPCs) = f
      BY <2>1
    <3> QED
      BY <2>1, <3>1 DEF LeftIn
  <2>2. CASE f.pc \notin StepPCs
    BY <2>2 DEF LeftIn
  <2> QED
    BY <2>1, <2>2
<1>2. LeftIn({}) = 0
  BY DEF LeftIn
<1> QED
  BY <1>1, <1>2

\* The mapping before and after a step.
LEMMA Mapping ==
    /\ Evaluating = EvaluatedIn(BroadcastFrames) /\ Evaluating' = EvaluatedIn(BroadcastFrames')
    /\ Left = LeftIn(AlgorithmFrames) /\ Left' = LeftIn(AlgorithmFrames')
  BY DEF Evaluating, EvaluatedIn, Left, LeftIn

P == INSTANCE EventProtocolProofs WITH
    holder     <- owner,
    evaluating <- Evaluating,
    queue      <- event_queue_,
    running    <- in_progress_,
    left       <- Left,
    count      <- in_progress

\* The tables of a machine are as the protocol assumes.
LEMMA ProtocolAssumed == P!ProtocolAssumption
<1>1. NIL \notin Events /\ NIL \notin Threads /\ IsFiniteSet(Events)
  BY HierarchyAssumption, ThreadAssumption, EventAssumption
<1>2. P!IsFiniteSet(Events)
  BY <1>1 DEF IsFiniteSet, P!IsFiniteSet
<1>3. \A e \in Events : Chain(e) \in SUBSET Events /\ e \in Chain(e)
  BY DEF Chain, ChainTable
<1>4. ChainOf \in [Events -> SUBSET Events] /\ \A e \in Events : e \in ChainOf[e]
  BY <1>3 DEF ChainOf
<1> QED
  BY <1>1, <1>2, <1>4 DEF P!ProtocolAssumption

-----------------------------------------------------------------------------
(* Every step of the library is one of the protocol or a stuttering one.   *)

ProtocolStep == ServiceInv' /\ [P!Next]_(P!protocolVars)

\* What the proof of each step starts from.
StepHypotheses(t) == RuntimeInv /\ ServiceInv /\ P!ProtocolInv /\ RuntimeInv' /\ t \in Threads

\* A step that changes nothing of the protocol.
LEMMA Stutters ==
    ASSUME Evaluating' = Evaluating, Left' = Left,
           UNCHANGED <<owner, event_queue_, in_progress_, in_progress>>
    PROVE  [P!Next]_(P!protocolVars)
  BY DEF P!protocolVars

\* One that changes no frame of broadcast() and algorithm() either.
LEMMA FramesStayStep ==
    ASSUME ServiceInv, FramesStay, UNCHANGED <<event_queue_, in_progress_>>
    PROVE  ServiceInv' /\ Evaluating' = Evaluating /\ Left' = Left
<1>1. BroadcastFrames' = BroadcastFrames /\ AlgorithmFrames' = AlgorithmFrames /\ BroadcastOnTop'
  BY DEF FramesStay
<1>2. ServiceInv'
  BY <1>1 DEF ServiceInv, RunningHasFrame, QueueServed
<1> QED
  BY <1>1, <1>2, Mapping

\* The mutex is taken, or taken once more.
LEMMA LockImplements ==
    ASSUME NEW t, StepHypotheses(t), Lock(t)
    PROVE  ProtocolStep
<1>1. RuntimeInv /\ ServiceInv /\ BroadcastOnTop /\ t \in Threads
  BY DEF StepHypotheses, ServiceInv
<1> DEFINE g == EventFrame("broadcast", Top(t).e)
<1>2. /\ BroadcastFrames = {} /\ BroadcastFrames' = {g} /\ g.pc = "broadcast"
      /\ AlgorithmFrames' = AlgorithmFrames /\ BroadcastOnTop'
  BY <1>1, LockFramesMove
<1> HIDE DEF g
<1>3. Evaluating = NIL /\ Evaluating' = NIL /\ Left' = Left
  BY <1>2, Mapping, EvaluatedValue DEF EvaluatingPCs
<1>4. owner \in {NIL, t} /\ owner' = t /\ UNCHANGED <<event_queue_, in_progress_, in_progress>>
  BY DEF Lock, queueVars
<1>5. ServiceInv'
  BY <1>1, <1>2, <1>4 DEF ServiceInv, RunningHasFrame, QueueServed
<1>6. CASE owner = t
  BY <1>3, <1>4, <1>5, <1>6, Stutters DEF ProtocolStep
<1>7. CASE owner = NIL
  <2>1. P!Acquire(t)
    BY <1>3, <1>4, <1>7 DEF P!Acquire
  <2> QED
    BY <1>1, <1>5, <2>1 DEF ProtocolStep, P!Next
<1> QED
  BY <1>4, <1>6, <1>7

\* Without the mutex nobody is in broadcast() or algorithm().
LEMMA FreeMeansIdle ==
    RuntimeInv /\ owner = NIL => BroadcastFrames = {} /\ AlgorithmFrames = {}
<1> SUFFICES ASSUME RuntimeInv, owner = NIL PROVE BroadcastFrames = {} /\ AlgorithmFrames = {}
  OBVIOUS
<1>1. ASSUME NEW u \in Threads, NEW i \in 1 .. Len(stack[u]) PROVE stack[u][i].pc \notin LockedPCs
  <2>1. owner # u
    BY ThreadAssumption
  <2> QED
    BY <2>1 DEF RuntimeInv, StackInv, BroadcastsExclude, HasFrame
<1>2. \A f \in Frames : f.pc \notin LockedPCs
  BY <1>1 DEF Frames
<1> QED
  BY <1>2 DEF BroadcastFrames, AlgorithmFrames, LockedPCs, BroadcastPCs, AlgorithmPCs

\* ... and so nothing is left to be done.
LEMMA FreeMeansDone ==
    RuntimeInv /\ ServiceInv /\ owner = NIL =>
        event_queue_ = <<>> /\ ~ in_progress_ /\ Evaluating = NIL /\ Left = 0
  BY FreeMeansIdle, EvaluatedValue, LeftValue, Mapping DEF ServiceInv, RunningHasFrame, QueueServed

\* The mutex is released, perhaps for the last time.
LEMMA UnlockImplements ==
    ASSUME NEW t, StepHypotheses(t), Unlock(t)
    PROVE  ProtocolStep
<1>1. RuntimeInv /\ ServiceInv /\ BroadcastOnTop /\ t \in Threads /\ RuntimeInv'
  BY DEF StepHypotheses, ServiceInv
<1>2. FramesStay /\ UNCHANGED <<event_queue_, in_progress_, in_progress>>
  BY <1>1, UnlockFramesStay DEF Unlock, queueVars
<1>3. ServiceInv' /\ Evaluating' = Evaluating /\ Left' = Left
  BY <1>1, <1>2, FramesStayStep
<1>4. owner = t
  BY <1>1, LockedOwns, TopTyped DEF Unlock, LockedPCs, At
<1>5. CASE depth # 1
  <2>1. owner' = owner
    BY <1>5 DEF Unlock
  <2> QED
    BY <1>2, <1>3, <2>1, Stutters DEF ProtocolStep
<1>6. CASE depth = 1
  <2>1. owner' = NIL
    BY <1>6 DEF Unlock
  <2>2. event_queue_' = <<>> /\ ~ in_progress_' /\ Evaluating' = NIL
    <3>1. (RuntimeInv /\ owner = NIL)'
      BY <1>1, <2>1
    <3>2. (BroadcastFrames = {} /\ AlgorithmFrames = {})'
      BY <3>1, FreeMeansIdle, PTL
    <3>3. Evaluating' = NIL
      BY <3>2, Mapping, EvaluatedValue
    <3> QED
      BY <1>3, <3>2, <3>3 DEF ServiceInv, RunningHasFrame, QueueServed
  <2>3. P!Release(t)
    BY <1>2, <1>3, <1>4, <2>1, <2>2 DEF P!Release
  <2> QED
    BY <1>1, <1>3, <2>3 DEF ProtocolStep, P!Next
<1> QED
  BY <1>5, <1>6

\* broadcast() begins with an event that is not in progress.
LEMMA BroadcastImplements ==
    ASSUME NEW t, StepHypotheses(t), Broadcast(t)
    PROVE  ProtocolStep
<1> DEFINE f == Top(t)
           g == EventFrame("precondition", f.e)
<1>1. RuntimeInv /\ ServiceInv /\ BroadcastOnTop /\ t \in Threads
  BY DEF StepHypotheses, ServiceInv
<1>2. At(t, "broadcast") /\ f.pc = "broadcast" /\ f.e \in Events /\ Goto(t, g)
  BY <1>1, TopTyped DEF Broadcast, FrameTyped, EventPCs
<1>3. g \in Frame /\ g.pc = "precondition" /\ g.e = f.e
  BY <1>2 DEF EventFrame, F0, Frame, PCs, StateOrNil, EventOrNil
<1>4. /\ in_progress[f.e] = 0 /\ in_progress' = Marked(f.e)
      /\ UNCHANGED <<event_queue_, in_progress_, owner>>
  BY DEF Broadcast, lockVars
<1> HIDE DEF f, g
<1>5. /\ BroadcastFrames = {f} /\ BroadcastFrames' = {g}
      /\ AlgorithmFrames' = AlgorithmFrames /\ BroadcastOnTop' /\ owner = t
  BY <1>1, <1>2, <1>3, BroadcastFrameMoves DEF BroadcastPCs, f
<1>6. Evaluating = NIL /\ Evaluating' = f.e /\ Left' = Left
  BY <1>2, <1>3, <1>5, Mapping, EvaluatedValue DEF EvaluatingPCs
<1>7. ServiceInv'
  BY <1>1, <1>2, <1>3, <1>4, <1>5 DEF ServiceInv, RunningHasFrame, QueueServed
<1>8. in_progress' = [b \in Events |-> IF b \in ChainOf[f.e] THEN in_progress[b] + 1 ELSE in_progress[b]]
  BY <1>1, <1>2, <1>4 DEF Marked, ChainOf, RuntimeInv, TypeOK
<1>9. P!Begin(t, f.e)
  BY <1>4, <1>5, <1>6, <1>8 DEF P!Begin
<1> QED
  BY <1>1, <1>2, <1>7, <1>9 DEF ProtocolStep, P!Next

\* An event already in progress is dropped, and nothing happens.
LEMMA DroppedImplements ==
    ASSUME NEW t, StepHypotheses(t), BroadcastDropped(t)
    PROVE  ProtocolStep
<1>1. RuntimeInv /\ ServiceInv /\ BroadcastOnTop /\ t \in Threads
  BY DEF StepHypotheses, ServiceInv
<1>2. /\ At(t, "broadcast") /\ Top(t).pc = "broadcast" /\ Become(t, <<>>)
      /\ UNCHANGED <<owner, event_queue_, in_progress_, in_progress>>
  BY <1>1, TopTyped DEF BroadcastDropped, ReturnVoid, queueVars, lockVars
<1>3. /\ BroadcastFrames = {Top(t)} /\ BroadcastFrames' = {}
      /\ AlgorithmFrames' = AlgorithmFrames /\ BroadcastOnTop'
  BY <1>1, <1>2, BroadcastFrameGoes DEF BroadcastPCs
<1>4. Evaluating = NIL /\ Evaluating' = NIL /\ Left' = Left
  BY <1>2, <1>3, Mapping, EvaluatedValue DEF EvaluatingPCs
<1>5. ServiceInv'
  BY <1>1, <1>2, <1>3 DEF ServiceInv, RunningHasFrame, QueueServed
<1> QED
  BY <1>2, <1>4, <1>5, Stutters DEF ProtocolStep

\* broadcasted() finds every counter that it decrements above zero.
LEMMA UnmarkedFinishes ==
    ASSUME TypeOK, P!ProtocolInv, NEW e \in P!Pending, in_progress' = Unmarked(e)
    PROVE  P!Finish(e)
<1>1. P!TypeOK /\ P!CountsPending
  BY DEF P!ProtocolInv
<1>2. \A b \in ChainOf[e] : in_progress[b] \in Nat /\ in_progress[b] > 0
  BY <1>1, ProtocolAssumed, P!PendingCounted
<1>3. e \in Events
  BY <1>1, ProtocolAssumed, P!PendingEvents
<1>4. e \in Chain(e) /\ ChainOf[e] = Chain(e)
  BY <1>3 DEF Chain, ChainTable, ChainOf
<1>5. in_progress' = [b \in Events |-> IF b \in ChainOf[e] THEN in_progress[b] - 1 ELSE in_progress[b]]
  BY <1>2, <1>4 DEF Unmarked
<1> QED
  BY <1>5 DEF P!Finish

\* A broadcast is cancelled.
LEMMA CancelImplements ==
    ASSUME NEW t, StepHypotheses(t), PreconditionFalse(t) \/ FoundNone(t)
    PROVE  ProtocolStep
<1> DEFINE f == Top(t)
<1>1. RuntimeInv /\ TypeOK /\ ServiceInv /\ BroadcastOnTop /\ t \in Threads /\ P!ProtocolInv
  BY DEF StepHypotheses, ServiceInv, RuntimeInv
<1>2. PICK pc \in EvaluatingPCs : At(t, pc)
  BY DEF PreconditionFalse, FoundNone, EvaluatingPCs
<1>3. /\ pc \in BroadcastPCs /\ pc \in EventPCs /\ pc # "algorithm"
  BY DEF EvaluatingPCs, BroadcastPCs, EventPCs
<1>4. f.pc = pc /\ f.e \in Events
  BY <1>1, <1>2, <1>3, TopTyped DEF FrameTyped
<1>5. /\ Become(t, <<>>) /\ in_progress' = Unmarked(f.e)
      /\ UNCHANGED <<owner, event_queue_, in_progress_>>
  BY DEF PreconditionFalse, FoundNone, Cancel, ReturnVoid, lockVars
<1> HIDE DEF f
<1>6. /\ BroadcastFrames = {f} /\ BroadcastFrames' = {}
      /\ AlgorithmFrames' = AlgorithmFrames /\ BroadcastOnTop' /\ owner = t
  BY <1>1, <1>2, <1>3, <1>5, BroadcastFrameGoes DEF f
<1>7. Evaluating = f.e /\ Evaluating # NIL /\ Evaluating' = NIL /\ Left' = Left
  BY <1>4, <1>6, Mapping, EvaluatedValue, HierarchyAssumption
<1>8. ServiceInv'
  BY <1>1, <1>3, <1>4, <1>5, <1>6 DEF ServiceInv, RunningHasFrame, QueueServed
<1>9. f.e \in P!Pending
  BY <1>7 DEF P!Pending
<1>10. P!Finish(f.e)
  BY <1>1, <1>5, <1>9, UnmarkedFinishes
<1>11. P!Cancel(t)
  BY <1>5, <1>6, <1>7, <1>10 DEF P!Cancel
<1> QED
  BY <1>1, <1>8, <1>11 DEF ProtocolStep, P!Next

\* ... or its event is queued.
LEMMA AcceptImplements ==
    ASSUME NEW t, StepHypotheses(t), FoundTransition(t)
    PROVE  ProtocolStep
<1> DEFINE f == Top(t)
           g == EventFrame("algorithm", NIL)
<1>1. RuntimeInv /\ TypeOK /\ ServiceInv /\ BroadcastOnTop /\ t \in Threads
  BY DEF StepHypotheses, ServiceInv, RuntimeInv
<1>2. /\ At(t, "find_transition") /\ f.pc = "find_transition" /\ f.e \in Events /\ Goto(t, g)
      /\ event_queue_' = Append(event_queue_, f.e) /\ event_queue_ \in Seq(Events)
      /\ UNCHANGED <<owner, in_progress_, in_progress>>
  BY <1>1, TopTyped DEF FoundTransition, FrameTyped, EventPCs, TypeOK, lockVars
<1>3. g \in Frame /\ g.pc = "algorithm"
  BY DEF EventFrame, F0, Frame, PCs, StateOrNil, EventOrNil
<1> HIDE DEF f, g
<1>4. /\ BroadcastFrames = {f} /\ BroadcastFrames' = {g}
      /\ AlgorithmFrames' = AlgorithmFrames /\ BroadcastOnTop' /\ owner = t
  BY <1>1, <1>2, <1>3, BroadcastFrameMoves DEF BroadcastPCs, f
<1>5. Evaluating = f.e /\ Evaluating # NIL /\ Evaluating' = NIL /\ Left' = Left
  BY <1>2, <1>3, <1>4, Mapping, EvaluatedValue, HierarchyAssumption DEF EvaluatingPCs
<1>6. event_queue_' # <<>>
  BY <1>2
<1>7. ServiceInv'
  BY <1>1, <1>2, <1>3, <1>4, <1>6 DEF ServiceInv, RunningHasFrame, QueueServed
<1>8. P!Accept(t)
  BY <1>2, <1>4, <1>5 DEF P!Accept
<1> QED
  BY <1>1, <1>7, <1>8 DEF ProtocolStep, P!Next

\* Finding transitions is no step of the protocol.
LEMMA FindImplements ==
    ASSUME NEW t, StepHypotheses(t), FindStep(t)
    PROVE  ProtocolStep
<1> DEFINE f == Top(t)
<1>1. RuntimeInv /\ ServiceInv /\ BroadcastOnTop /\ t \in Threads
  BY DEF StepHypotheses, ServiceInv
<1>2. PICK g : FindMove(t, f, g)
  BY <1>1, FindMoves
<1> HIDE DEF f
<1>3. /\ f.pc \in EvaluatingPCs /\ f.pc # "algorithm" /\ g.pc = "find_transition" /\ g.e = f.e
      /\ g.pc \in EvaluatingPCs
      /\ BroadcastFrames = {f} /\ BroadcastFrames' = {g}
      /\ AlgorithmFrames' = AlgorithmFrames /\ BroadcastOnTop'
  BY <1>2 DEF FindMove, EvaluatingPCs
<1>4. UNCHANGED <<owner, event_queue_, in_progress_, in_progress>>
  BY DEF FindStep, PreconditionTrue, FindSkip, FindInternal, FindAborted, FindExternal, Bump,
     queueVars, lockVars
<1>5. Evaluating' = Evaluating /\ Left' = Left
  BY <1>3, Mapping, EvaluatedValue
<1>6. ServiceInv'
  BY <1>1, <1>3, <1>4 DEF ServiceInv, RunningHasFrame, QueueServed
<1> QED
  BY <1>4, <1>5, <1>6, Stutters DEF ProtocolStep

-----------------------------------------------------------------------------
(* The steps of algorithm().                                               *)

\* A broadcast from an action leaves its event to the algorithm in progress.
LEMMA NestedImplements ==
    ASSUME NEW t, StepHypotheses(t), AlgorithmNested(t)
    PROVE  ProtocolStep
<1>1. RuntimeInv /\ ServiceInv /\ BroadcastOnTop /\ t \in Threads
  BY DEF StepHypotheses, ServiceInv
<1>2. /\ At(t, "algorithm") /\ Top(t).pc = "algorithm" /\ Become(t, <<>>) /\ in_progress_
      /\ UNCHANGED <<owner, event_queue_, in_progress_, in_progress>>
  BY <1>1, TopTyped DEF AlgorithmNested, ReturnVoid, queueVars, lockVars
<1>3. /\ BroadcastFrames = {Top(t)} /\ BroadcastFrames' = {}
      /\ AlgorithmFrames' = AlgorithmFrames /\ BroadcastOnTop'
  BY <1>1, <1>2, BroadcastFrameGoes DEF BroadcastPCs
<1>4. Evaluating = NIL /\ Evaluating' = NIL /\ Left' = Left
  BY <1>2, <1>3, Mapping, EvaluatedValue DEF EvaluatingPCs
<1>5. ServiceInv'
  BY <1>1, <1>2, <1>3 DEF ServiceInv, RunningHasFrame, QueueServed
<1> QED
  BY <1>2, <1>4, <1>5, Stutters DEF ProtocolStep

\* The algorithm begins ...
LEMMA BeginImplements ==
    ASSUME NEW t, StepHypotheses(t), AlgorithmBegin(t)
    PROVE  ProtocolStep
<1> DEFINE f == Top(t)
           g == EventFrame("micro_step", NIL)
<1>1. RuntimeInv /\ ServiceInv /\ BroadcastOnTop /\ t \in Threads
  BY DEF StepHypotheses, ServiceInv
<1>2. /\ f.pc = "algorithm" /\ ~ in_progress_ /\ in_progress_' = TRUE
      /\ UNCHANGED <<owner, event_queue_, in_progress>>
  BY <1>1, TopTyped DEF AlgorithmBegin, lockVars
<1>3. /\ BroadcastFrames = {f} /\ BroadcastFrames' = {} /\ BroadcastOnTop'
      /\ AlgorithmFrames = {} /\ AlgorithmFrames' = {g} /\ g.pc = "micro_step" /\ owner = t
  BY <1>1, AlgorithmFrameComes
<1> HIDE DEF f, g
<1>4. Evaluating = NIL /\ Evaluating' = NIL /\ Left = 0 /\ Left' = 0
  BY <1>2, <1>3, Mapping, EvaluatedValue, LeftValue DEF EvaluatingPCs, StepPCs
<1>5. event_queue_ # <<>>
  BY <1>1, <1>2, <1>3 DEF ServiceInv, QueueServed
<1>6. ServiceInv'
  BY <1>3 DEF ServiceInv, RunningHasFrame, QueueServed
<1>7. P!Start(t)
  BY <1>2, <1>3, <1>4, <1>5 DEF P!Start
<1> QED
  BY <1>1, <1>6, <1>7 DEF ProtocolStep, P!Next

\* Whoever runs algorithm() has set machine::in_progress_.
LEMMA FrameMeansRunning ==
    ASSUME RuntimeInv, AlgorithmFrames # {}
    PROVE  in_progress_
  BY DEF RuntimeInv, StackInv, OneAlgorithm, AlgorithmFrames, Frames

\* ... and ends.
LEMMA EndImplements ==
    ASSUME NEW t, StepHypotheses(t), AlgorithmEnd(t)
    PROVE  ProtocolStep
<1>1. RuntimeInv /\ ServiceInv /\ BroadcastOnTop /\ t \in Threads
  BY DEF StepHypotheses, ServiceInv
<1>2. /\ Top(t).pc = "micro_step" /\ in_progress_' = FALSE /\ event_queue_ = <<>>
      /\ UNCHANGED <<owner, event_queue_, in_progress>>
  BY <1>1, TopTyped DEF AlgorithmEnd, lockVars
<1>3. /\ BroadcastFrames = {} /\ BroadcastFrames' = {} /\ BroadcastOnTop'
      /\ AlgorithmFrames = {Top(t)} /\ AlgorithmFrames' = {} /\ owner = t
  BY <1>1, AlgorithmFrameGoes
<1>4. Evaluating = NIL /\ Evaluating' = NIL /\ Left = 0 /\ Left' = 0
  BY <1>2, <1>3, Mapping, EvaluatedValue, LeftValue DEF StepPCs
<1>5. in_progress_
  BY <1>1, <1>3, FrameMeansRunning
<1>6. ServiceInv'
  BY <1>2, <1>3 DEF ServiceInv, RunningHasFrame, QueueServed
<1>7. P!Stop(t)
  BY <1>2, <1>3, <1>4, <1>5 DEF P!Stop
<1> QED
  BY <1>1, <1>6, <1>7 DEF ProtocolStep, P!Next

\* A micro-step begins ...
LEMMA MicroStepImplements ==
    ASSUME NEW t, StepHypotheses(t), MicroStep(t)
    PROVE  ProtocolStep
<1>1. RuntimeInv /\ ServiceInv /\ BroadcastOnTop /\ t \in Threads
  BY DEF StepHypotheses, ServiceInv
<1>2. event_queue_ # <<>> /\ UNCHANGED <<owner, event_queue_, in_progress_, in_progress>>
  BY DEF MicroStep, queueVars, lockVars
<1>3. /\ Top(t).pc = "micro_step"
      /\ BroadcastFrames = {} /\ BroadcastFrames' = {} /\ BroadcastOnTop'
      /\ AlgorithmFrames = {Top(t)} /\ owner = t
  BY <1>1, StepBegins
<1>4. PICK g \in Frame : AlgorithmFrames' = {g} /\ g.pc = "phase1" /\ g.n = Len(event_queue_)
  BY <1>1, StepBegins
<1>5. Evaluating = NIL /\ Evaluating' = NIL /\ Left = 0 /\ Left' = Len(event_queue_)
  BY <1>3, <1>4, Mapping, EvaluatedValue, LeftValue DEF StepPCs, AlgorithmPCs
<1>6. in_progress_
  BY <1>1, <1>3, FrameMeansRunning
<1>7. ServiceInv'
  BY <1>3, <1>4 DEF ServiceInv, RunningHasFrame, QueueServed
<1>8. P!MicroStep(t)
  BY <1>2, <1>3, <1>5, <1>6 DEF P!MicroStep
<1> QED
  BY <1>1, <1>7, <1>8 DEF ProtocolStep, P!Next

\* ... dequeues its events ...
LEMMA DequeueImplements ==
    ASSUME NEW t, StepHypotheses(t), Phase3Dequeue(t)
    PROVE  ProtocolStep
<1> DEFINE f == Top(t)
<1>1. RuntimeInv /\ TypeOK /\ ServiceInv /\ BroadcastOnTop /\ t \in Threads /\ P!ProtocolInv
  BY DEF StepHypotheses, ServiceInv, RuntimeInv
<1>2. /\ in_progress' = Unmarked(Head(event_queue_)) /\ event_queue_' = Tail(event_queue_)
      /\ UNCHANGED <<owner, in_progress_>>
  BY DEF Phase3Dequeue, lockVars
<1>3. f.n > 0 /\ f.n \in Nat
  BY <1>1, DequeueMoves
<1>4. PICK g : StepMove(t, f, g) /\ g.n = f.n - 1
  BY <1>1, DequeueMoves
<1> HIDE DEF f
<1>5. /\ f.pc \in StepPCs /\ g.pc \in StepPCs /\ f.n <= Len(event_queue_) /\ owner = t
      /\ BroadcastFrames = {} /\ BroadcastFrames' = {} /\ BroadcastOnTop'
      /\ AlgorithmFrames = {f} /\ AlgorithmFrames' = {g}
  BY <1>4 DEF StepMove
<1>6. Evaluating = NIL /\ Evaluating' = NIL /\ Left = f.n /\ Left' = f.n - 1
  BY <1>4, <1>5, Mapping, EvaluatedValue, LeftValue
<1>7. in_progress_
  BY <1>1, <1>5, FrameMeansRunning
<1>8. ServiceInv'
  BY <1>5 DEF ServiceInv, RunningHasFrame, QueueServed
<1>9. Head(event_queue_) \in P!Pending
  <2>1. event_queue_ \in Seq(Events) /\ Len(event_queue_) > 0
    BY <1>1, <1>3, <1>5 DEF TypeOK
  <2>2. Head(event_queue_) = event_queue_[1] /\ 1 \in 1 .. Len(event_queue_)
    BY <2>1
  <2> QED
    BY <2>2 DEF P!Pending, P!Queued
<1>10. P!Finish(Head(event_queue_))
  BY <1>1, <1>2, <1>9, UnmarkedFinishes
<1>11. P!Retire(t)
  BY <1>2, <1>3, <1>5, <1>6, <1>7, <1>10 DEF P!Retire
<1> QED
  BY <1>1, <1>8, <1>11 DEF ProtocolStep, P!Next

\* ... and ends when none is left.
LEMMA StepEndImplements ==
    ASSUME NEW t, StepHypotheses(t), Phase3End(t)
    PROVE  ProtocolStep
<1> DEFINE f == Top(t)
           g == EventFrame("micro_step", NIL)
<1>1. RuntimeInv /\ ServiceInv /\ BroadcastOnTop /\ t \in Threads
  BY DEF StepHypotheses, ServiceInv
<1>2. UNCHANGED <<owner, event_queue_, in_progress_, in_progress>>
  BY DEF Phase3End, queueVars, lockVars
<1>3. /\ f.pc = "phase3" /\ f.n = 0 /\ g.pc = "micro_step"
      /\ BroadcastFrames = {} /\ BroadcastFrames' = {} /\ BroadcastOnTop'
      /\ AlgorithmFrames = {f} /\ AlgorithmFrames' = {g}
  BY <1>1, StepEnds
<1> HIDE DEF f, g
<1>4. Evaluating = NIL /\ Evaluating' = NIL /\ Left = 0 /\ Left' = 0
  BY <1>3, Mapping, EvaluatedValue, LeftValue DEF StepPCs, AlgorithmPCs
<1>5. ServiceInv'
  BY <1>3 DEF ServiceInv, RunningHasFrame, QueueServed
<1> QED
  BY <1>2, <1>4, <1>5, Stutters DEF ProtocolStep

\* What happens in the phases is no step of the protocol.
LEMMA MoveImplements ==
    ASSUME NEW t, StepHypotheses(t), NEW f, NEW g, StepMove(t, f, g), g.n = f.n,
           UNCHANGED <<owner, event_queue_, in_progress_, in_progress>>
    PROVE  ProtocolStep
<1>1. /\ f.pc \in StepPCs /\ g.pc \in StepPCs
      /\ BroadcastFrames = {} /\ BroadcastFrames' = {} /\ BroadcastOnTop'
      /\ AlgorithmFrames = {f} /\ AlgorithmFrames' = {g}
  BY DEF StepMove
<1>2. Evaluating = NIL /\ Evaluating' = NIL /\ Left' = Left
  BY <1>1, Mapping, EvaluatedValue, LeftValue
<1>3. ServiceInv'
  BY <1>1 DEF ServiceInv, RunningHasFrame, QueueServed
<1> QED
  BY <1>2, <1>3, Stutters DEF ProtocolStep

\* The steps of the phases are such moves.
PhaseStep(t) ==
    \/ Phase1Event(t) \/ Phase1End(t) \/ ExitSkip(t) \/ ExitDominated(t)
    \/ InternalAction(t) \/ ExitFrom(t) \/ Action(t) \/ NextPhase1Event(t)
    \/ Phase2Event(t) \/ Phase2End(t) \/ EnterSkip(t) \/ EnterTo(t) \/ Unmark(t)
    \/ NextPhase2Event(t) \/ (Bump(t) /\ ~ At(t, "find_transition"))

LEMMA PhaseIsMove ==
    ASSUME RuntimeInv, BroadcastOnTop, NEW t \in Threads, PhaseStep(t)
    PROVE  \E g : StepMove(t, Top(t), g) /\ g.n = Top(t).n
<1>1. CASE \/ ExitSkip(t) \/ ExitDominated(t) \/ InternalAction(t) \/ Action(t)
           \/ EnterSkip(t) \/ Unmark(t)
  BY <1>1, NextTransitionMoves DEF SameEvent
<1>2. CASE ExitFrom(t) \/ EnterTo(t)
  BY <1>2, TransitionMoves DEF SameEvent
<1>3. CASE Phase1Event(t) \/ Phase2Event(t)
  BY <1>3, EventMoves
<1>4. CASE Phase1End(t) \/ NextPhase1Event(t) \/ NextPhase2Event(t) \/ Phase2End(t)
  BY <1>4, PhaseMoves
<1>5. CASE Bump(t) /\ ~ At(t, "find_transition")
  BY <1>5, BumpMoves DEF SameEvent
<1> QED
  BY <1>1, <1>2, <1>3, <1>4, <1>5 DEF PhaseStep

LEMMA PhasesImplement ==
    ASSUME NEW t, StepHypotheses(t), PhaseStep(t)
    PROVE  ProtocolStep
<1>1. RuntimeInv /\ BroadcastOnTop /\ t \in Threads
  BY DEF StepHypotheses, ServiceInv
<1>2. UNCHANGED <<owner, event_queue_, in_progress_, in_progress>>
  BY DEF PhaseStep, Phase1Event, Phase1End, ExitSkip, ExitDominated, InternalAction, ExitFrom, Action,
     NextPhase1Event, NextPhase2Event, NextEvent, Phase2Event, Phase2End, EnterSkip, EnterTo,
     Unmark, Bump, queueVars, lockVars
<1>3. \E g : StepMove(t, Top(t), g) /\ g.n = Top(t).n
  BY <1>1, PhaseIsMove
<1> QED
  BY <1>2, <1>3, MoveImplements

-----------------------------------------------------------------------------
(* The theorems.                                                           *)

\* Calls that broadcast nothing, and everything done to states.
LEMMA PlainImplements ==
    ASSUME NEW t, StepHypotheses(t), Client(t) \/ PlainStep(t)
    PROVE  ProtocolStep
<1>1. RuntimeInv /\ ServiceInv /\ BroadcastOnTop /\ t \in Threads
  BY DEF StepHypotheses, ServiceInv
<1>2. FramesStay /\ UNCHANGED <<owner, event_queue_, in_progress_, in_progress>>
  <2>1. CASE Client(t)
    BY <1>1, <2>1, ClientFramesStay DEF queueVars, lockVars
  <2>2. CASE PlainStep(t)
    BY <1>1, <2>2, PlainFramesStay DEF PlainStep, queueVars, lockVars
  <2> QED
    BY <2>1, <2>2
<1>3. ServiceInv' /\ Evaluating' = Evaluating /\ Left' = Left
  BY <1>1, <1>2, FramesStayStep
<1> QED
  BY <1>2, <1>3, Stutters DEF ProtocolStep

\* Every step of a thread.
LEMMA NextImplements ==
    RuntimeInv /\ ServiceInv /\ P!ProtocolInv /\ [Next]_vars =>
        ServiceInv' /\ [P!Next]_(P!protocolVars)
<1> SUFFICES ASSUME RuntimeInv, ServiceInv, P!ProtocolInv, [Next]_vars
             PROVE  ProtocolStep
  BY DEF ProtocolStep
<1>1. RuntimeInv'
  BY NextKeepsInv
<1>2. CASE UNCHANGED vars
  <2>1. /\ UNCHANGED <<owner, event_queue_, in_progress_, in_progress>>
        /\ stack' = stack
    BY <1>2 DEF vars, queueVars, lockVars, callVars
  <2>2. FramesStay
    BY <2>1 DEF ServiceInv, FramesStay, BroadcastFrames, AlgorithmFrames, Frames, BroadcastOnTop
  <2>3. ServiceInv' /\ Evaluating' = Evaluating /\ Left' = Left
    BY <2>1, <2>2, FramesStayStep
  <2> QED
    BY <2>1, <2>3, Stutters DEF ProtocolStep
<1>3. ASSUME NEW t \in Threads, Client(t) \/ Run(t) PROVE ProtocolStep
  <2>1. StepHypotheses(t)
    BY <1>1, <1>3 DEF StepHypotheses
  <2>2. CASE Client(t)
    BY <2>1, <2>2, PlainImplements
  <2>3. CASE UserCode(t)
    BY <2>1, <2>3, PlainImplements, UserCodeIsPlain
  <2>4. CASE EnterStep(t)
    BY <2>1, <2>4, PlainImplements, EnterStepIsPlain
  <2>5. CASE ExitStep(t)
    BY <2>1, <2>5, PlainImplements, ExitStepIsPlain
  <2>6. CASE BroadcastStep(t)
    <3>1. CASE Lock(t) \/ Unlock(t)
      BY <2>1, <3>1, LockImplements, UnlockImplements
    <3>2. CASE Broadcast(t) \/ BroadcastDropped(t)
      BY <2>1, <3>2, BroadcastImplements, DroppedImplements
    <3>3. CASE PreconditionFalse(t) \/ FoundNone(t) \/ FoundTransition(t)
      BY <2>1, <3>3, CancelImplements, AcceptImplements
    <3>4. CASE FindStep(t)
      BY <2>1, <3>4, FindImplements
    <3>5. CASE Bump(t) /\ ~ At(t, "find_transition")
      BY <2>1, <3>5, PhasesImplement DEF PhaseStep
    <3> QED
      BY <2>6, <3>1, <3>2, <3>3, <3>4, <3>5 DEF BroadcastStep, FindStep
  <2>7. CASE AlgorithmStep(t)
    <3>1. CASE AlgorithmNested(t) \/ AlgorithmBegin(t) \/ AlgorithmEnd(t)
      BY <2>1, <3>1, NestedImplements, BeginImplements, EndImplements
    <3>2. CASE MicroStep(t) \/ Phase3Dequeue(t) \/ Phase3End(t)
      BY <2>1, <3>2, MicroStepImplements, DequeueImplements, StepEndImplements
    <3>3. CASE PhaseStep(t)
      BY <2>1, <3>3, PhasesImplement
    <3> QED
      BY <2>7, <3>1, <3>2, <3>3 DEF AlgorithmStep, PhaseStep
  <2> QED
    BY <1>3, <2>2, <2>3, <2>4, <2>5, <2>6, <2>7 DEF Run
<1> QED
  BY <1>2, <1>3 DEF Next

\* Initially nobody is in the library.
LEMMA InitImplements == Init => ServiceInv /\ P!Init
<1> SUFFICES ASSUME Init PROVE ServiceInv /\ P!Init
  OBVIOUS
<1>1. stack = [t \in Threads |-> <<>>] /\ event_queue_ = <<>> /\ in_progress_ = FALSE /\ owner = NIL
      /\ in_progress = [e \in Events |-> 0]
  BY DEF Init
<1>2. \A t \in Threads : stack[t] = <<>> /\ Len(stack[t]) = 0
  BY <1>1
<1>3. Frames = {}
  BY <1>2 DEF Frames
<1>4. BroadcastFrames = {} /\ AlgorithmFrames = {}
  BY <1>3 DEF BroadcastFrames, AlgorithmFrames
<1>5. Evaluating = NIL /\ Left = 0
  BY <1>4, Mapping, EvaluatedValue, LeftValue
<1>6. BroadcastOnTop
  BY <1>2 DEF BroadcastOnTop
<1> QED
  BY <1>1, <1>4, <1>5, <1>6 DEF ServiceInv, RunningHasFrame, QueueServed, P!Init

\* The invariant behind the refinement is inductive.
LEMMA InitEstablishes == Init => RuntimeInv /\ ServiceInv /\ P!ProtocolInv
  BY InitEstablishesInv, InitImplements, ProtocolAssumed, P!InitInv

LEMMA NextKeeps ==
    RuntimeInv /\ ServiceInv /\ P!ProtocolInv /\ [Next]_vars =>
        (RuntimeInv /\ ServiceInv /\ P!ProtocolInv)'
  BY NextKeepsInv, NextImplements, ProtocolAssumed, P!NextInv

\* The protocol of RuntimeRefinement is the one its theorems were proved for.
LEMMA SameProtocol ==
    /\ Protocol!ProtocolInv <=> P!ProtocolInv
    /\ Protocol!Init <=> P!Init
    /\ [Protocol!Next]_(Protocol!protocolVars) <=> [P!Next]_(P!protocolVars)
<1>0. \A S : Protocol!Cardinality(S) = P!Cardinality(S)
  BY DEF Protocol!Cardinality, P!Cardinality
<1>1. Protocol!ProtocolInv <=> P!ProtocolInv
  BY <1>0 DEF Protocol!ProtocolInv, P!ProtocolInv, Protocol!TypeOK, P!TypeOK, Protocol!CountsPending,
     P!CountsPending, Protocol!PendingOnce, P!PendingOnce, Protocol!DerivedLast, P!DerivedLast,
     Protocol!StepWithinQueue, P!StepWithinQueue, Protocol!NothingAbandoned, P!NothingAbandoned,
     Protocol!Pending, P!Pending, Protocol!Queued, P!Queued
<1>2. Protocol!Init <=> P!Init
  BY DEF Protocol!Init, P!Init
<1>3. [Protocol!Next]_(Protocol!protocolVars) <=> [P!Next]_(P!protocolVars)
  BY DEF Protocol!protocolVars, P!protocolVars, Protocol!Next, P!Next, Protocol!Acquire, P!Acquire,
     Protocol!Begin, P!Begin, Protocol!Cancel, P!Cancel, Protocol!Accept, P!Accept,
     Protocol!Start, P!Start, Protocol!MicroStep, P!MicroStep, Protocol!Retire, P!Retire,
     Protocol!Stop, P!Stop, Protocol!Release, P!Release, Protocol!Finish, P!Finish
<1> QED
  BY <1>1, <1>2, <1>3

\* For every machine, its user code and any number of threads: somebody is
\* responsible for every event in the queue, and event::in_progress_ counts the
\* broadcasts that are pending.
THEOREM RefinementInvariant == Spec => []RefinementInv
<1>1. RuntimeInv /\ ServiceInv /\ P!ProtocolInv => RefinementInv
  BY SameProtocol DEF RefinementInv
<1> QED
  BY <1>1, InitEstablishes, NextKeeps, PTL DEF Spec

\* The library implements the event protocol.
THEOREM RuntimeImplementsProtocol == Spec => ImplementsProtocol
<1>1. Init => Protocol!Init
  BY InitImplements, SameProtocol
<1>2. RefinementInv /\ [Next]_vars => [Protocol!Next]_(Protocol!protocolVars)
  BY NextImplements, SameProtocol DEF RefinementInv
<1> QED
  BY <1>1, <1>2, RefinementInvariant, PTL DEF Spec, ImplementsProtocol, Protocol!Spec

\* When the outermost broadcast has released the mutex, the queue is empty and no
\* event is in progress, so that every one can be broadcast again.
THEOREM NothingLeftPending == Spec => []NothingPending
<1>1. RefinementInv => NothingPending
  <2> SUFFICES ASSUME RefinementInv, owner = NIL
               PROVE  event_queue_ = <<>> /\ ~ in_progress_ /\ \A e \in Events : in_progress[e] = 0
    BY DEF NothingPending
  <2>1. RuntimeInv /\ ServiceInv /\ P!ProtocolInv
    BY SameProtocol DEF RefinementInv
  <2>2. event_queue_ = <<>> /\ ~ in_progress_ /\ Evaluating = NIL
    BY <2>1, FreeMeansDone
  <2>3. P!Pending = {}
    BY <2>2 DEF P!Pending, P!Queued
  <2>4. ASSUME NEW e \in Events PROVE in_progress[e] = 0
    <3>1. {d \in P!Pending : e \in ChainOf[d]} = {}
      BY <2>3
    <3>2. in_progress[e] = P!Cardinality({d \in P!Pending : e \in ChainOf[d]})
      BY <2>1 DEF P!ProtocolInv, P!CountsPending
    <3>3. P!Cardinality({}) = 0
      BY FS_EmptySet DEF P!Cardinality, Cardinality
    <3> QED
      BY <3>1, <3>2, <3>3
  <2> QED
    BY <2>2, <2>4
<1> QED
  BY <1>1, RefinementInvariant, PTL

\* Whatever user code broadcasts, the queue of a machine has at most one entry
\* per event ...
THEOREM QueueStaysBounded == Spec => []Protocol!QueueBounded
<1>1. P!QueueBounded => Protocol!QueueBounded
  BY DEF Protocol!QueueBounded, P!QueueBounded, Protocol!Cardinality, P!Cardinality
<1>2. P!Init /\ [][P!Next]_(P!protocolVars) => []P!QueueBounded
  BY ProtocolAssumed, P!QueueIsBounded DEF P!Spec
<1>3. RefinementInv /\ [Next]_vars => [P!Next]_(P!protocolVars)
  BY NextImplements, SameProtocol DEF RefinementInv
<1>4. Init => P!Init
  BY InitImplements
<1> QED
  BY <1>1, <1>2, <1>3, <1>4, RefinementInvariant, PTL DEF Spec

\* ... and an event that is broadcast in a micro-step waits for the next one.
THEOREM QueueStaysFIFO == Spec => Protocol!FirstInFirstOut
<1>2. P!Init /\ [][P!Next]_(P!protocolVars) => P!FirstInFirstOut
  BY ProtocolAssumed, P!QueueIsFIFO DEF P!Spec
<1>3. RefinementInv /\ [Next]_vars => [P!Next]_(P!protocolVars)
  BY NextImplements, SameProtocol DEF RefinementInv
<1>4. Init => P!Init
  BY InitImplements
<1>5. P!FirstInFirstOut => Protocol!FirstInFirstOut
  BY DEF P!FirstInFirstOut, Protocol!FirstInFirstOut, P!Queued, Protocol!Queued
<1> QED
  BY <1>2, <1>3, <1>4, <1>5, RefinementInvariant, PTL DEF Spec
=============================================================================
