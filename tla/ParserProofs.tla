------------------------------ MODULE ParserProofs ------------------------------
(***************************************************************************)
(* Proof that scopes nest and that the semantic stack is balanced in any   *)
(* description, however many names, states and events it has and whatever  *)
(* errors are in it: every production leaves the stack as the productions  *)
(* around it expect.                                                       *)
(***************************************************************************)
EXTENDS ParserInvariants, SequenceTheorems, FiniteSetTheorems, WellFoundedInduction, TLAPS

\* A set of numbers has a least element.
LEMMA Least ==
    ASSUME NEW S \in SUBSET Nat, S # {}
    PROVE  \E m \in S : \A k \in S : m <= k
<1>1. PICK c \in S : TRUE
  OBVIOUS
<1> DEFINE U == {i \in S : i <= c}
           T == {1 .. i : i \in U}
           R == StrictSubsetOrdering(0 .. c)
<1>2. T # {} /\ T \subseteq FiniteSubsetsOf(0 .. c)
  <2>1. ASSUME NEW i \in U
        PROVE  1 .. i \subseteq 0 .. c /\ IsFiniteSet(1 .. i)
    BY FS_Interval
  <2> QED
    BY <2>1, <1>1 DEF FiniteSubsetsOf
<1>3. IsWellFoundedOn(R, FiniteSubsetsOf(0 .. c))
  BY FS_StrictSubsetOrderingWellFounded
<1>4. PICK x \in T : \A y \in T : ~(<<y, x>> \in R)
  <2> HIDE DEF T, R
  <2> QED
    BY <1>2, <1>3, WFMin
<1>5. PICK m \in U : x = 1 .. m
  BY <1>4
<1>6. ASSUME NEW k \in S, k < m
      PROVE  FALSE
  <2>1. k \in U /\ 1 .. k \in T
    BY <1>6
  <2>2. m \in 1 .. m /\ m \notin 1 .. k /\ 1 .. k \subseteq 1 .. m
    BY <1>6
  <2>3. 1 .. k \in SUBSET (0 .. c) /\ 1 .. m \in SUBSET (0 .. c)
    BY <1>6
  <2>4. <<1 .. k, 1 .. m>> \in R
    BY <2>2, <2>3 DEF StrictSubsetOrdering
  <2> QED
    BY <2>1, <2>4, <1>4, <1>5
<1> QED
  BY <1>5, <1>6
Typed(t) == DOMAIN t \subseteq Names /\ t \in [DOMAIN t -> Seq(AllInfos)]

LEMMA InfosTyped ==
    ASSUME NEW t, Typed(t), NEW n
    PROVE  Infos(t, n) \in Seq(AllInfos)
  BY DEF Typed, Infos

LEMMA TouchTable ==
    ASSUME NEW t, Typed(t), NEW n \in Names
    PROVE  /\ Typed(Touch(t, n)) /\ DOMAIN Touch(t, n) = DOMAIN t \cup {n}
           /\ \A m : Infos(Touch(t, n), m) = Infos(t, m)
           /\ \A m, i : info(Touch(t, n), m, i) = info(t, m, i)
           /\ \A m, i : type_of(Touch(t, n), m, i) = type_of(t, m, i)
<1>1. DOMAIN Touch(t, n) = DOMAIN t \cup {n} /\ \A m \in DOMAIN t \cup {n} : Touch(t, n)[m] = Infos(t, m)
  BY DEF Touch
<1>2. Typed(Touch(t, n))
  BY <1>1, InfosTyped DEF Typed, Touch
<1>3. \A m : Infos(Touch(t, n), m) = Infos(t, m)
  BY <1>1 DEF Infos
<1> QED
  BY <1>1, <1>2, <1>3 DEF info, type_of

LEMMA TouchNested ==
    ASSUME NEW t, Typed(t), NEW n \in Names, NEW ps, Nested(t, ps)
    PROVE  Nested(Touch(t, n), ps)
<1>1. ASSUME NEW m \in DOMAIN Touch(t, n)
      PROVE  Touch(t, n)[m] = IF m \in DOMAIN t THEN t[m] ELSE <<>>
  BY DEF Touch, Infos
<1> QED
  BY <1>1, EmptySeq DEF Nested

\* Where insert_info() puts an info.
LEMMA BeforePlace ==
    ASSUME NEW list \in Seq(AllInfos), NEW s \in Nat
    PROVE  /\ Before(list, s) \in 0 .. Len(list)
           /\ \A i \in 1 .. Before(list, s) : s < list[i].scope
           /\ Before(list, s) < Len(list) => s >= list[Before(list, s) + 1].scope
<1> DEFINE P(i) == s >= list[i].scope
<1>0. \A i \in DOMAIN list : list[i].scope \in Nat
  BY DEF AllInfos, GlobalInfos, ChildInfos, StateInfos, EventInfos, SCOPE_GLOBAL
<1>1. CASE \E i \in DOMAIN list : P(i)
  <2>1. PICK i \in DOMAIN list : P(i) /\ \A j \in 1 .. i - 1 : s < list[j].scope
    <3> DEFINE T == {j \in Nat : j \in DOMAIN list /\ P(j)}
    <3>1. T # {} /\ T \in SUBSET Nat
      BY <1>1
    <3>2. PICK i \in T : \A y \in T : i <= y
      <4> HIDE DEF T
      <4> QED
        BY <3>1, Least
    <3> QED
      BY <3>2, <1>0, LenProperties
  <2> DEFINE c == CHOOSE k \in DOMAIN list : P(k) /\ \A j \in 1 .. k - 1 : s < list[j].scope
  <2>2. c \in DOMAIN list /\ P(c) /\ \A j \in 1 .. c - 1 : s < list[j].scope
    BY <2>1
  <2>3. Before(list, s) = c - 1
    BY <1>1 DEF Before
  <2> HIDE DEF c
  <2> QED
    BY <2>2, <2>3, LenProperties
<1>2. CASE ~ \E i \in DOMAIN list : P(i)
  BY <1>0, <1>2, LenProperties DEF Before
<1> QED
  BY <1>1, <1>2

-----------------------------------------------------------------------------
(* The infos. *)

LEMMA NilIsNoName ==
    /\ NIL \notin Names /\ RootName \in Names /\ <<Machine>> \in Names
    /\ \A i \in Identifiers : <<i>> \in Names
    /\ <<Machine>> # RootName
<1>1. NIL \notin Names
  BY IdentAssumption DEF Names
<1>2. ASSUME NEW i \in DOMAIN Spelling
      PROVE  <<i>> \in Names
  BY DEF Names
<1>3. "root" \in DOMAIN Spelling /\ Machine \in DOMAIN Spelling /\ Machine # "root"
  BY IdentAssumption DEF Identifiers
<1> QED
  BY <1>1, <1>2, <1>3 DEF RootName, Identifiers

\* Which kind of info one is can be told from its type.
LEMMA InfoKinds ==
    ASSUME NEW si \in AllInfos
    PROVE  /\ si.scope \in Nat
           /\ si.type \in ANY
           /\ si.type \in STATES => si \in StateInfos
           /\ si.type \in EVENT => si \in EventInfos
           /\ si.type = "CHILD" => si \in ChildInfos
           /\ si.type \in {"GLOBAL", "CHSM"} => si \in GlobalInfos
           /\ si \in StateInfos => si.type \in STATES
           /\ si \in EventInfos => si.type \in EVENT
           /\ si \in ChildInfos => si.type = "CHILD"
           /\ si.type # "CHILD" => si.scope = SCOPE_GLOBAL
  BY DEF AllInfos, GlobalInfos, ChildInfos, StateInfos, EventInfos, SCOPE_GLOBAL, ANY, STATES,
         EVENT

LEMMA NilIsNoInfo == NIL \notin AllInfos
  BY IdentAssumption

LEMMA NewInfos ==
    /\ chsm_info \in GlobalInfos /\ global_info \in GlobalInfos
    /\ \A s \in Nat, p \in Names : child_info(s, p) \in ChildInfos
    /\ \A ty \in STATES, p \in Names \cup {NIL}, n \in Nat, h \in BOOLEAN :
          state_info(ty, p, n, h) \in StateInfos
    /\ \A k \in {"enter", "exit"}, n \in Names : event_info(k, n) \in EventInfos
    /\ \A b \in Names \cup {NIL} : user_event_info(b) \in EventInfos
<1>1. chsm_info \in GlobalInfos /\ global_info \in GlobalInfos
  BY DEF chsm_info, global_info, GlobalInfos
<1>2. ASSUME NEW s \in Nat, NEW p \in Names
      PROVE  child_info(s, p) \in ChildInfos
  <2>1. s + 1 \in Nat
    OBVIOUS
  <2> QED
    BY <2>1, Zenon DEF child_info, ChildInfos
<1>3. <<>> \in Seq(Names) /\ <<>> \in Seq(Nat) /\ 0 \in Nat
  OBVIOUS
<1>4. ASSUME NEW ty \in STATES, NEW p \in Names \cup {NIL}, NEW n \in Nat, NEW h \in BOOLEAN
      PROVE  state_info(ty, p, n, h) \in StateInfos
  BY <1>3 DEF state_info, StateInfos
<1>5. ASSUME NEW k \in {"enter", "exit"}, NEW n \in Names
      PROVE  event_info(k, n) \in EventInfos
  BY <1>3 DEF event_info, EventInfos, EVENT
<1>6. ASSUME NEW b \in Names \cup {NIL}
      PROVE  user_event_info(b) \in EventInfos
  BY <1>3 DEF user_event_info, EventInfos, EVENT
<1> QED
  BY <1>1, <1>2, <1>4, <1>5, <1>6

LEMMA KindsAreInfos ==
    /\ GlobalInfos \subseteq AllInfos /\ ChildInfos \subseteq AllInfos
    /\ StateInfos \subseteq AllInfos /\ EventInfos \subseteq AllInfos
  BY DEF AllInfos

-----------------------------------------------------------------------------
(* What the operations of a symbol do to the infos. *)

\* insert_info() keeps what is there, in its order.
InsertedAt(t, n, si, r, k) ==
    LET list == Infos(t, n)
    IN  /\ Typed(r)
        /\ DOMAIN r = DOMAIN t \cup {n}
        /\ \A m : m # n => Infos(r, m) = Infos(t, m)
        /\ r[n] = Infos(r, n)
        /\ r[n] \in Seq(AllInfos)
        /\ Len(r[n]) = Len(list) + 1
        /\ \A i \in 1 .. k : r[n][i] = list[i]
        /\ r[n][k + 1] = si
        /\ \A i \in k + 2 .. Len(list) + 1 : r[n][i] = list[i - 1]

LEMMA Inserted ==
    ASSUME NEW t, Typed(t), NEW n \in Names, NEW si \in AllInfos
    PROVE  InsertedAt(t, n, si, insert_info(t, n, si), Before(Infos(t, n), si.scope))
<1> DEFINE list == Infos(t, n)
           k    == Before(list, si.scope)
           r    == insert_info(t, n, si)
           new  == SubSeq(list, 1, k) \o <<si>> \o SubSeq(list, k + 1, Len(list))
<1>1. list \in Seq(AllInfos) /\ si.scope \in Nat
  BY InfosTyped, InfoKinds
<1>2. k \in 0 .. Len(list)
  BY <1>1, BeforePlace
<1>3. r = [Touch(t, n) EXCEPT ![n] = new]
  BY DEF insert_info
<1> HIDE DEF list, k, r
<1>4. /\ new \in Seq(AllInfos) /\ Len(new) = Len(list) + 1
      /\ \A i \in 1 .. k : new[i] = list[i]
      /\ new[k + 1] = si
      /\ \A i \in k + 2 .. Len(list) + 1 : new[i] = list[i - 1]
  <2> DEFINE A == SubSeq(list, 1, k)
             B == SubSeq(list, k + 1, Len(list))
  <2>1. /\ A \in Seq(AllInfos) /\ Len(A) = k
        /\ \A i \in 1 .. k : A[i] = list[i]
    BY <1>1, <1>2, SubSeqProperties
  <2>2. /\ B \in Seq(AllInfos) /\ Len(B) = Len(list) - k
        /\ \A i \in 1 .. Len(list) - k : B[i] = list[k + i]
    BY <1>1, <1>2, SubSeqProperties
  <2>3. new = A \o <<si>> \o B
    OBVIOUS
  <2> HIDE DEF A, B, new
  <2>4. A \o <<si>> \in Seq(AllInfos) /\ Len(A \o <<si>>) = k + 1
        /\ (\A i \in 1 .. k : (A \o <<si>>)[i] = list[i]) /\ (A \o <<si>>)[k + 1] = si
    BY <2>1, <1>2
  <2> DEFINE C == A \o <<si>>
  <2> HIDE DEF C
  <2>5. C \in Seq(AllInfos) /\ Len(C) = k + 1 /\ (\A i \in 1 .. k : C[i] = list[i]) /\ C[k + 1] = si
    BY <2>4 DEF C
  <2>6. new = C \o B /\ Len(list) \in Nat /\ k \in Nat /\ k <= Len(list)
    BY <2>3, <1>1, <1>2, LenProperties DEF C
  <2>7. /\ new \in Seq(AllInfos) /\ Len(new) = k + 1 + Len(B)
        /\ \A i \in 1 .. k + 1 + Len(B) : new[i] = IF i <= k + 1 THEN C[i] ELSE B[i - (k + 1)]
    <3>1. /\ C \o B \in Seq(AllInfos) /\ Len(C \o B) = Len(C) + Len(B)
          /\ \A i \in 1 .. Len(C) + Len(B) :
                (C \o B)[i] = IF i <= Len(C) THEN C[i] ELSE B[i - Len(C)]
      BY <2>2, <2>5, ConcatProperties, Zenon
    <3> QED
      BY <3>1, <2>5, <2>6, Zenon
  <2>8. \A i \in k + 2 .. Len(list) + 1 : new[i] = list[i - 1]
    <3> SUFFICES ASSUME NEW i \in k + 2 .. Len(list) + 1 PROVE new[i] = list[i - 1]
      OBVIOUS
    <3>1. new[i] = B[i - (k + 1)] /\ i - (k + 1) \in 1 .. Len(list) - k /\ k + (i - (k + 1)) = i - 1
      BY <2>2, <2>6, <2>7
    <3> QED
      BY <3>1, <2>2
  <2> QED
    BY <2>2, <2>5, <2>6, <2>7, <2>8
<1> HIDE DEF new
<1>5. DOMAIN Touch(t, n) = DOMAIN t \cup {n} /\ Typed(Touch(t, n))
      /\ \A m \in DOMAIN t \cup {n} : Touch(t, n)[m] = Infos(t, m)
  BY TouchTable DEF Touch
<1>6. DOMAIN r = DOMAIN t \cup {n} /\ r[n] = new
      /\ \A m \in DOMAIN t : m # n => r[m] = t[m]
  BY <1>3, <1>5 DEF Infos
<1>7. Typed(r)
  BY <1>3, <1>4, <1>5, <1>6 DEF Typed
<1>8. Infos(r, n) = new /\ \A m : m # n => Infos(r, m) = Infos(t, m)
  BY <1>6 DEF Infos
<1> QED
  BY <1>4, <1>6, <1>7, <1>8 DEF list, k, r, InsertedAt

\* Update() changes the first info.
UpdatedTo(t, n, si, r) ==
    /\ Typed(r)
    /\ DOMAIN r = DOMAIN t
    /\ \A m : m # n => Infos(r, m) = Infos(t, m)
    /\ r[n] = Infos(r, n)
    /\ r[n] \in Seq(AllInfos)
    /\ Len(r[n]) = Len(t[n])
    /\ r[n][1] = si
    /\ \A i \in 2 .. Len(t[n]) : r[n][i] = t[n][i]

LEMMA Updated ==
    ASSUME NEW t, Typed(t), NEW n \in DOMAIN t, t[n] # <<>>, NEW si \in AllInfos
    PROVE  UpdatedTo(t, n, si, Update(t, n, si))
<1> DEFINE new == [t[n] EXCEPT ![1] = si]
<1>1. t[n] \in Seq(AllInfos) /\ 1 \in 1 .. Len(t[n])
  BY EmptySeq, LenProperties DEF Typed
<1>2. new \in Seq(AllInfos) /\ Len(new) = Len(t[n]) /\ new[1] = si
      /\ \A i \in 2 .. Len(t[n]) : new[i] = t[n][i]
  BY <1>1, ExceptSeq
<1>3. Update(t, n, si) = [t EXCEPT ![n] = new]
  BY DEF Update
<1> HIDE DEF new
<1> QED
  BY <1>2, <1>3 DEF Typed, Infos, UpdatedTo

\* delete_info() takes the first info away.
DeletedFrom(t, n, r) ==
    /\ Typed(r)
    /\ DOMAIN r = DOMAIN t
    /\ \A m : m # n => Infos(r, m) = Infos(t, m)
    /\ r[n] = Infos(r, n)
    /\ r[n] \in Seq(AllInfos)
    /\ Len(r[n]) = Len(t[n]) - 1
    /\ \A i \in 1 .. Len(t[n]) - 1 : r[n][i] = t[n][i + 1]

LEMMA Deleted ==
    ASSUME NEW t, Typed(t), NEW n \in DOMAIN t, t[n] # <<>>
    PROVE  DeletedFrom(t, n, delete_info(t, n))
<1> DEFINE new == Tail(t[n])
<1>1. t[n] \in Seq(AllInfos)
  BY DEF Typed
<1>2. new \in Seq(AllInfos) /\ Len(new) = Len(t[n]) - 1
      /\ \A i \in 1 .. Len(t[n]) - 1 : new[i] = t[n][i + 1]
  BY <1>1, HeadTailProperties
<1>3. delete_info(t, n) = [t EXCEPT ![n] = new]
  BY DEF delete_info
<1> HIDE DEF new
<1> QED
  BY <1>2, <1>3 DEF Typed, Infos, DeletedFrom

(* The infos stay nested. *)

LEMMA InsertNested ==
    ASSUME NEW t, Typed(t), NEW n \in Names, NEW si \in AllInfos, NEW ps, Nested(t, ps),
           InScope(si, ps)
    PROVE  Nested(insert_info(t, n, si), ps)
<1> DEFINE r == insert_info(t, n, si)
           list == Infos(t, n)
           k == Before(list, si.scope)
<1>1. /\ DOMAIN r = DOMAIN t \cup {n}
      /\ \A m : m # n => Infos(r, m) = Infos(t, m)
      /\ r[n] \in Seq(AllInfos)
      /\ Len(r[n]) = Len(list) + 1
      /\ \A i \in 1 .. k : r[n][i] = list[i]
      /\ r[n][k + 1] = si
      /\ \A i \in k + 2 .. Len(list) + 1 : r[n][i] = list[i - 1]
  <2>1. InsertedAt(t, n, si, r, k)
    BY Inserted
  <2> HIDE DEF r, k
  <2> QED
    BY <2>1 DEF InsertedAt
<1>2. list \in Seq(AllInfos) /\ si.scope \in Nat /\ \A i \in 1 .. Len(list) : list[i].scope \in Nat
  BY InfosTyped, InfoKinds, ElementOfSeq
<1>3. /\ k \in 0 .. Len(list)
      /\ \A i \in 1 .. k : si.scope < list[i].scope
      /\ k < Len(list) => si.scope >= list[k + 1].scope
  BY <1>2, BeforePlace
<1>4. /\ \A i, j \in 1 .. Len(list) : i < j => list[i].scope >= list[j].scope
      /\ \A i \in 1 .. Len(list) : InScope(list[i], ps)
  BY <1>2 DEF Nested, Infos
<1> HIDE DEF r, list, k
<1>5. ASSUME NEW i \in 1 .. Len(list) + 1
      PROVE  InScope(r[n][i], ps)
  <2>1. CASE i <= k
    BY <2>1, <1>1, <1>3, <1>4
  <2>2. CASE i = k + 1
    BY <2>2, <1>1
  <2>3. CASE i > k + 1
    <3>1. i \in k + 2 .. Len(list) + 1 /\ i - 1 \in 1 .. Len(list)
      BY <2>3, <1>3
    <3>2. r[n][i] = list[i - 1]
      BY <3>1, <1>1
    <3> QED
      BY <3>1, <3>2, <1>4
  <2> QED
    BY <2>1, <2>2, <2>3, <1>3
<1>6. ASSUME NEW i \in 1 .. Len(list) + 1, NEW j \in 1 .. Len(list) + 1, i < j
      PROVE  r[n][i].scope >= r[n][j].scope
  <2>1. CASE j <= k
    BY <2>1, <1>1, <1>3, <1>4, <1>6
  <2>2. CASE j = k + 1
    BY <2>2, <1>1, <1>2, <1>3, <1>6
  <2>3. CASE j > k + 1
    <3>0. /\ j \in k + 2 .. Len(list) + 1 /\ j - 1 \in 1 .. Len(list) /\ k < Len(list)
          /\ k + 1 \in 1 .. Len(list)
      BY <2>3, <1>3
    <3>1. r[n][j] = list[j - 1] /\ j - 1 \in 1 .. Len(list) /\ k < Len(list) /\ k + 1 \in 1 .. Len(list)
      BY <3>0, <1>1
    <3>2. CASE i <= k
      BY <3>1, <3>2, <2>3, <1>1, <1>3, <1>4
    <3>3. CASE i = k + 1
      <4>1. list[k + 1].scope >= list[j - 1].scope
        BY <3>1, <3>3, <2>3, <1>2, <1>3, <1>4
      <4>2. si.scope >= list[k + 1].scope /\ r[n][i] = si
        BY <3>1, <3>3, <1>1, <1>3
      <4> QED
        BY <4>1, <4>2, <3>1, <1>2
    <3>4. CASE i > k + 1
      <4>1. r[n][i] = list[i - 1] /\ i - 1 \in 1 .. Len(list) /\ i - 1 < j - 1
        BY <3>4, <1>1, <1>3, <1>6
      <4> QED
        BY <4>1, <3>1, <1>4
    <3> QED
      BY <3>2, <3>3, <3>4, <1>3
  <2> QED
    BY <2>1, <2>2, <2>3, <1>3
<1>7. ASSUME NEW m \in DOMAIN r, m # n
      PROVE  m \in DOMAIN t /\ r[m] = t[m]
  BY <1>1, <1>7 DEF Infos
<1>8. DOMAIN r[n] = 1 .. Len(list) + 1
  BY <1>1, LenProperties
<1>9. Nested(r, ps)
  BY <1>5, <1>6, <1>7, <1>8 DEF Nested
<1> QED
  BY <1>9 DEF r

LEMMA UpdateNested ==
    ASSUME NEW t, Typed(t), NEW n \in DOMAIN t, t[n] # <<>>, NEW si \in AllInfos, NEW ps,
           Nested(t, ps), InScope(si, ps), si.scope = t[n][1].scope
    PROVE  Nested(Update(t, n, si), ps)
<1> DEFINE r == Update(t, n, si)
<1>1. /\ DOMAIN r = DOMAIN t
      /\ \A m : m # n => Infos(r, m) = Infos(t, m)
      /\ r[n] \in Seq(AllInfos) /\ Len(r[n]) = Len(t[n]) /\ r[n][1] = si
      /\ \A i \in 2 .. Len(t[n]) : r[n][i] = t[n][i]
  <2>1. UpdatedTo(t, n, si, r)
    BY Updated
  <2> QED
    BY <2>1 DEF UpdatedTo
<1>2. \A m \in DOMAIN r : m # n => r[m] = t[m]
  BY <1>1 DEF Infos
<1> HIDE DEF r
<1>3. DOMAIN r[n] = 1 .. Len(t[n]) /\ DOMAIN t[n] = 1 .. Len(t[n]) /\ Len(t[n]) \in Nat \ {0}
  BY <1>1, LenProperties, EmptySeq DEF Typed
<1>4. \A i \in 1 .. Len(t[n]) : InScope(r[n][i], ps) /\ r[n][i].scope = t[n][i].scope
  BY <1>1, <1>3 DEF Nested
<1>5. Nested(r, ps)
  BY <1>1, <1>2, <1>3, <1>4 DEF Nested
<1> QED
  BY <1>5 DEF r

LEMMA DeleteNested ==
    ASSUME NEW t, Typed(t), NEW n \in DOMAIN t, t[n] # <<>>, NEW ps, Nested(t, ps)
    PROVE  Nested(delete_info(t, n), ps)
<1> DEFINE r == delete_info(t, n)
<1>1. /\ DOMAIN r = DOMAIN t
      /\ \A m : m # n => Infos(r, m) = Infos(t, m)
      /\ r[n] \in Seq(AllInfos) /\ Len(r[n]) = Len(t[n]) - 1
      /\ \A i \in 1 .. Len(t[n]) - 1 : r[n][i] = t[n][i + 1]
  <2>1. DeletedFrom(t, n, r)
    BY Deleted
  <2> QED
    BY <2>1 DEF DeletedFrom
<1>2. \A m \in DOMAIN r : m # n => r[m] = t[m]
  BY <1>1 DEF Infos
<1> HIDE DEF r
<1>3. DOMAIN r[n] = 1 .. Len(t[n]) - 1 /\ DOMAIN t[n] = 1 .. Len(t[n]) /\ Len(t[n]) \in Nat \ {0}
  BY <1>1, LenProperties, EmptySeq DEF Typed
<1>4. /\ \A i \in DOMAIN r[n] : InScope(r[n][i], ps)
      /\ \A i, j \in DOMAIN r[n] : i < j => r[n][i].scope >= r[n][j].scope
  <2>1. \A i \in DOMAIN r[n] : i + 1 \in DOMAIN t[n] /\ r[n][i] = t[n][i + 1]
    <3>1. \A i \in DOMAIN r[n] : i \in 1 .. Len(t[n]) - 1 /\ i + 1 \in 1 .. Len(t[n])
      BY <1>3
    <3>2. \A i \in 1 .. Len(t[n]) - 1 : r[n][i] = t[n][i + 1]
      BY <1>1
    <3> QED
      BY <3>1, <3>2, <1>3, Zenon
  <2>2. \A i, j \in DOMAIN t[n] : i < j => t[n][i].scope >= t[n][j].scope
    BY DEF Nested
  <2>3. \A i \in DOMAIN t[n] : InScope(t[n][i], ps)
    BY DEF Nested
  <2>4. ASSUME NEW i \in DOMAIN r[n], NEW j \in DOMAIN r[n], i < j
        PROVE  r[n][i].scope >= r[n][j].scope
    <3>1. i + 1 < j + 1
      BY <1>3, <2>4
    <3> QED
      BY <3>1, <2>1, <2>2
  <2> QED
    BY <2>1, <2>3, <2>4
<1>5. Nested(r, ps)
  BY <1>1, <1>2, <1>4 DEF Nested
<1> QED
  BY <1>5 DEF r

-----------------------------------------------------------------------------
(* Closing a scope. *)

PoppedTo(list, s, r, k) ==
    /\ k \in 0 .. Len(list)
    /\ \A i \in 1 .. k : list[i].scope = s
    /\ k < Len(list) => list[k + 1].scope # s
    /\ r = SubSeq(list, k + 1, Len(list))
    /\ r \in Seq(AllInfos)
    /\ Len(r) = Len(list) - k
    /\ \A i \in 1 .. Len(list) - k : r[i] = list[k + i]

LEMMA PoppedList ==
    ASSUME NEW list \in Seq(AllInfos), NEW s \in Nat
    PROVE  \E k \in 0 .. Len(list) : PoppedTo(list, s, Popped(list, s), k)
<1> DEFINE P(k) == /\ \A i \in 1 .. k : list[i].scope = s
                   /\ k < Len(list) => list[k + 1].scope # s
           T == {k \in Nat : k \in 0 .. Len(list) /\ (k < Len(list) => list[k + 1].scope # s)}
<1>1. Len(list) \in T
  BY LenProperties
<1>2. PICK k \in T : \A y \in T : k <= y
  <2> HIDE DEF T
  <2>1. T \in SUBSET Nat
    BY DEF T
  <2> QED
    BY <1>1, <2>1, Least
<1>3. k \in 0 .. Len(list) /\ P(k)
  <2>1. ASSUME NEW i \in 1 .. k, list[i].scope # s
        PROVE  FALSE
    <3>1. i - 1 \in T /\ i - 1 < k
      BY <1>2, <2>1, LenProperties
    <3>2. k <= i - 1
      <4> HIDE DEF T
      <4> QED
        BY <3>1, <1>2
    <3> QED
      BY <3>1, <3>2, <1>2
  <2> QED
    BY <1>2, <2>1
<1> DEFINE c == CHOOSE c \in 0 .. Len(list) : P(c)
<1>4. c \in 0 .. Len(list) /\ P(c)
  BY <1>3
<1>5. Popped(list, s) = SubSeq(list, c + 1, Len(list))
  BY DEF Popped
<1> HIDE DEF c
<1>6. /\ SubSeq(list, c + 1, Len(list)) \in Seq(AllInfos)
      /\ Len(SubSeq(list, c + 1, Len(list))) = Len(list) - c
      /\ \A i \in 1 .. Len(list) - c : SubSeq(list, c + 1, Len(list))[i] = list[c + i]
  BY <1>4, LenProperties, SubSeqProperties
<1> QED
  BY <1>4, <1>5, <1>6 DEF PoppedTo

\* Closing the innermost of the open scopes leaves the infos of the others.
LEMMA CloseNested ==
    ASSUME NEW t, Typed(t), NEW s \in Nat, s > 1, NEW ps, DOMAIN ps = 2 .. s, Nested(t, ps),
           NEW qs, DOMAIN qs = 2 .. s - 1, \A k \in 2 .. s - 1 : qs[k] = ps[k]
    PROVE  Typed(close_scope(t, s)) /\ Nested(close_scope(t, s), qs)
<1> DEFINE r == close_scope(t, s)
<1>1. /\ DOMAIN r = {n \in DOMAIN t : Popped(t[n], s) # <<>>}
      /\ \A n \in DOMAIN r : r[n] = Popped(t[n], s)
  BY DEF close_scope
<1>2. \A n \in DOMAIN t : t[n] \in Seq(AllInfos) /\ Popped(t[n], s) \in Seq(AllInfos)
  BY PoppedList DEF Typed, PoppedTo
<1>3. Typed(r)
  <2>1. ~ s <= 1
    OBVIOUS
  <2> QED
    BY <1>1, <1>2, <2>1 DEF Typed, close_scope
<1>4. ASSUME NEW n \in DOMAIN r
      PROVE  /\ \A i, j \in DOMAIN r[n] : i < j => r[n][i].scope >= r[n][j].scope
             /\ \A i \in DOMAIN r[n] : InScope(r[n][i], qs)
  <2> DEFINE list == t[n]
  <2>1. n \in DOMAIN t /\ list \in Seq(AllInfos) /\ r[n] = Popped(list, s) /\ r[n] \in Seq(AllInfos)
    BY <1>1, <1>2
  <2>2. /\ \A i, j \in 1 .. Len(list) : i < j => list[i].scope >= list[j].scope
        /\ \A i \in 1 .. Len(list) : InScope(list[i], ps) /\ list[i].scope \in Nat
    BY <2>1, LenProperties, ElementOfSeq, InfoKinds DEF Nested
  <2> HIDE DEF list, r
  <2>3. PICK k \in 0 .. Len(list) :
              /\ \A i \in 1 .. k : list[i].scope = s
              /\ k < Len(list) => list[k + 1].scope # s
              /\ Len(r[n]) = Len(list) - k
              /\ \A i \in 1 .. Len(list) - k : r[n][i] = list[k + i]
    <3>1. PICK k \in 0 .. Len(list) : PoppedTo(list, s, r[n], k)
      BY <2>1, PoppedList
    <3> QED
      BY <3>1 DEF PoppedTo
  <2>4. DOMAIN r[n] = 1 .. Len(list) - k /\ Len(list) \in Nat
    BY <2>1, <2>3, LenProperties
  <2>5. \A i \in 1 .. Len(list) : list[i].scope <= s
    BY <2>2 DEF InScope, SCOPE_GLOBAL
  <2>6. \A i \in DOMAIN r[n] : r[n][i] = list[k + i] /\ k + i \in 1 .. Len(list) /\ list[k + i].scope < s
    <3> SUFFICES ASSUME NEW i \in DOMAIN r[n]
                 PROVE  r[n][i] = list[k + i] /\ k + i \in 1 .. Len(list) /\ list[k + i].scope < s
      OBVIOUS
    <3>1. r[n][i] = list[k + i] /\ k + i \in 1 .. Len(list) /\ k + 1 \in 1 .. Len(list) /\ k < Len(list)
      BY <2>3, <2>4
    <3>2. list[k + 1].scope < s
      BY <3>1, <2>2, <2>3, <2>5
    <3>3. list[k + 1].scope >= list[k + i].scope
      BY <3>1, <2>2, <2>4
    <3> QED
      BY <3>1, <3>2, <3>3, <2>2
  <2>7. \A i, j \in DOMAIN r[n] : i < j => r[n][i].scope >= r[n][j].scope
    BY <2>2, <2>4, <2>6
  <2>8. \A i \in DOMAIN r[n] : InScope(r[n][i], qs)
    BY <2>2, <2>6 DEF InScope
  <2> QED
    BY <2>7, <2>8
<1> QED
  BY <1>3, <1>4 DEF Nested

-----------------------------------------------------------------------------
(* The ids that transitions add to events. *)

IsAscending(q) == \A i, j \in DOMAIN q : i < j => q[i] < q[j]

HasAscending(S) == \E q \in [1 .. Cardinality(S) -> S] : IsAscending(q)

LEMMA AscendingExists ==
    ASSUME NEW S \in SUBSET Nat, IsFiniteSet(S)
    PROVE  HasAscending(S)
<1> DEFINE Lacking(n) == \E T \in SUBSET Nat : IsFiniteSet(T) /\ Cardinality(T) = n /\ ~HasAscending(T)
           Bad == {n \in Nat : Lacking(n)}
<1> SUFFICES ASSUME Bad # {} PROVE FALSE
  BY FS_CardinalityType
<1>1. PICK n \in Bad : \A k \in Bad : n <= k
  <2>1. Bad \in SUBSET Nat
    OBVIOUS
  <2> HIDE DEF Bad
  <2> QED
    BY <2>1, Least
<1>2. n \in Nat /\ \A k \in Nat : k < n => ~Lacking(k)
  <2> HIDE DEF Lacking
  <2> QED
    BY <1>1
<1>3. PICK T \in SUBSET Nat : IsFiniteSet(T) /\ Cardinality(T) = n /\ ~HasAscending(T)
  BY <1>1
<1>4. CASE n = 0
  <2>1. T = {}
    BY <1>3, <1>4, FS_EmptySet
  <2> DEFINE q == [i \in 1 .. 0 |-> 0]
  <2>2. q \in [1 .. Cardinality(T) -> T] /\ IsAscending(q)
    BY <1>3, <1>4, <2>1 DEF IsAscending
  <2> QED
    BY <2>2, <1>3 DEF HasAscending
<1>5. CASE n # 0
  <2>1. T # {}
    BY <1>3, <1>5, FS_EmptySet
  <2>2. PICK m \in T : \A k \in T : m <= k
    BY <2>1, Least
  <2> DEFINE U == T \ {m}
  <2>3. IsFiniteSet(U) /\ Cardinality(U) = n - 1 /\ U \in SUBSET Nat
    BY <1>3, <2>2, FS_RemoveElement
  <2>4. HasAscending(U)
    <3>1. n - 1 \in Nat /\ n - 1 < n
      BY <1>2, <1>5
    <3> HIDE DEF U
    <3> QED
      BY <3>1, <1>2, <2>3
  <2> HIDE DEF U
  <2>5. PICK p \in [1 .. n - 1 -> U] : IsAscending(p)
    BY <2>3, <2>4 DEF HasAscending
  <2> DEFINE q == [i \in 1 .. n |-> IF i = 1 THEN m ELSE p[i - 1]]
  <2>6. \A k \in U : k \in T /\ m < k /\ k \in Nat
    BY <2>2 DEF U
  <2>7. \A i \in 1 .. n : i # 1 => i - 1 \in 1 .. n - 1 /\ p[i - 1] \in U
    BY <2>5, <1>2
  <2>8. q \in [1 .. Cardinality(T) -> T]
    BY <1>3, <2>2, <2>6, <2>7
  <2>9. ASSUME NEW i \in 1 .. n, NEW j \in 1 .. n, i < j
        PROVE  q[i] < q[j]
    <3>1. j # 1 /\ q[j] = p[j - 1] /\ p[j - 1] \in U
      BY <2>7, <2>9
    <3>2. CASE i = 1
      BY <3>1, <3>2, <2>6
    <3>3. CASE i # 1
      <4>1. q[i] = p[i - 1] /\ i - 1 \in 1 .. n - 1 /\ j - 1 \in 1 .. n - 1 /\ i - 1 < j - 1
        BY <3>3, <3>1, <2>7, <2>9
      <4> QED
        BY <4>1, <3>1, <2>5 DEF IsAscending
    <3> QED
      BY <3>2, <3>3
  <2>10. IsAscending(q)
    BY <2>9 DEF IsAscending
  <2> QED
    BY <2>8, <2>10, <1>3 DEF HasAscending
<1> QED
  BY <1>4, <1>5

\* Ascending(S) is S in order.
LEMMA AscendingIs ==
    ASSUME NEW S \in SUBSET Nat, IsFiniteSet(S)
    PROVE  /\ Ascending(S) \in [1 .. Cardinality(S) -> S]
           /\ Ascending(S) \in Seq(Nat) /\ Ascending(S) \in Seq(S)
           /\ Len(Ascending(S)) = Cardinality(S)
           /\ IsAscending(Ascending(S))
           /\ ToSet(Ascending(S)) = S
<1> DEFINE q == Ascending(S)
           c == Cardinality(S)
<1>1. q \in [1 .. c -> S] /\ IsAscending(q)
  <2>1. \E p \in [1 .. c -> S] : \A i, j \in DOMAIN p : i < j => p[i] < p[j]
    BY AscendingExists DEF HasAscending, IsAscending
  <2> QED
    BY <2>1 DEF Ascending, IsAscending
<1>2. c \in Nat
  BY FS_CardinalityType
<1> HIDE DEF q, c
<1>3. q \in Seq(S) /\ Len(q) = c
  BY <1>1, <1>2, IsASeq, LenProperties
<1>4. q \in Seq(Nat)
  BY <1>3, SeqMonotonic
<1>5. q \in Injection(1 .. c, S)
  <2>1. ASSUME NEW i \in 1 .. c, NEW j \in 1 .. c, q[i] = q[j]
        PROVE  i = j
    <3>0. q[i] \in S /\ i \in DOMAIN q /\ j \in DOMAIN q
      BY <1>1, <2>1
    <3>a. i \in Nat /\ j \in Nat
      BY <1>2
    <3>b. q[i] \in Nat
      BY <3>0, Zenon
    <3>1. i \in Nat /\ j \in Nat /\ q[i] \in Nat /\ i \in DOMAIN q /\ j \in DOMAIN q
      BY <3>0, <3>a, <3>b
    <3>2. (i < j => q[i] < q[j]) /\ (j < i => q[j] < q[i])
      BY <1>1, <3>1 DEF IsAscending
    <3> QED
      BY <2>1, <3>1, <3>2
  <2> QED
    BY <2>1, <1>1 DEF Injection, IsInjective
<1>6. Cardinality(1 .. c) = c
  BY <1>2, FS_Interval
<1>7. q \in Surjection(1 .. c, S)
  BY <1>5, <1>6, FS_Injection DEF c
<1>8. ToSet(q) = S
  <2>1. \A x \in S : \E i \in 1 .. c : q[i] = x
    BY <1>7 DEF Surjection
  <2> QED
    BY <2>1, <1>1 DEF ToSet
<1> QED
  BY <1>1, <1>3, <1>4, <1>8 DEF q, c

-----------------------------------------------------------------------------
(* Infos that are changed in place. *)

\* Infos that say the same of a symbol, but for what changes as it is used.
Like(a, b) ==
    /\ a.type = b.type
    /\ a.type \in STATES => a.history = b.history
    /\ a.type \in EVENT => a.kind = b.kind /\ a.state = b.state /\ a.base = b.base

\* Nothing is changed about where the infos are.
SamePlaces(t, r) ==
    /\ DOMAIN r = DOMAIN t
    /\ \A n \in DOMAIN t : DOMAIN r[n] = DOMAIN t[n]
    /\ \A n \in DOMAIN t : \A i \in DOMAIN t[n] :
          /\ Like(r[n][i], t[n][i]) /\ r[n][i].scope = t[n][i].scope
          /\ t[n][i].type = "CHILD" => r[n][i].parent = t[n][i].parent

LEMMA SamePlacesNested ==
    ASSUME NEW t, NEW r, SamePlaces(t, r), NEW ps, Nested(t, ps)
    PROVE  Nested(r, ps)
<1> SUFFICES ASSUME NEW n \in DOMAIN r
             PROVE  /\ \A i, j \in DOMAIN r[n] : i < j => r[n][i].scope >= r[n][j].scope
                    /\ \A i \in DOMAIN r[n] : InScope(r[n][i], ps)
  BY DEF Nested
<1>1. n \in DOMAIN t /\ DOMAIN r[n] = DOMAIN t[n]
  BY DEF SamePlaces
<1>2. \A i, j \in DOMAIN r[n] : i < j => r[n][i].scope >= r[n][j].scope
  BY <1>1 DEF SamePlaces, Nested
<1>3. \A i \in DOMAIN r[n] : InScope(r[n][i], ps)
  BY <1>1 DEF SamePlaces, Nested, InScope, Like
<1> QED
  BY <1>2, <1>3

\* The first info of a symbol, and its type.
LEMMA FirstInfo ==
    ASSUME NEW t, Typed(t), NEW n, type_of(t, n, 0) # "NONE"
    PROVE  /\ n \in DOMAIN t /\ t[n] # <<>> /\ t[n] \in Seq(AllInfos) /\ 1 \in DOMAIN t[n]
           /\ info(t, n, 0) = t[n][1] /\ info(t, n, 0) \in AllInfos
           /\ type_of(t, n, 0) = t[n][1].type
<1>1. 0 < Len(Infos(t, n)) /\ info(t, n, 0) = Infos(t, n)[1]
  BY DEF type_of, info
<1>2. n \in DOMAIN t /\ Infos(t, n) = t[n]
  BY <1>1 DEF Infos
<1>3. t[n] \in Seq(AllInfos) /\ 1 \in DOMAIN t[n] /\ t[n] # <<>>
  BY <1>1, <1>2, LenProperties DEF Typed
<1>4. t[n][1] \in AllInfos
  BY <1>3
<1> QED
  BY <1>1, <1>2, <1>3, <1>4, NilIsNoInfo DEF type_of

LEMMA NoInfo ==
    ASSUME NEW t, Typed(t), NEW n
    PROVE  /\ type_of(t, n, 0) = "NONE" <=> Infos(t, n) = <<>>
           /\ info(t, n, 0) = NIL <=> Infos(t, n) = <<>>
           /\ type_of(t, n, 0) \in ANY \cup {"NONE"}
<1>1. Infos(t, n) \in Seq(AllInfos)
  BY InfosTyped
<1>2. CASE Infos(t, n) = <<>>
  BY <1>2 DEF type_of, info, ANY
<1>3. CASE Infos(t, n) # <<>>
  <2>1. 0 < Len(Infos(t, n)) /\ Infos(t, n)[1] \in AllInfos
    BY <1>1, <1>3, EmptySeq, LenProperties
  <2>2. info(t, n, 0) = Infos(t, n)[1] /\ info(t, n, 0) # NIL
    BY <2>1, NilIsNoInfo DEF info
  <2>3. type_of(t, n, 0) \in ANY /\ "NONE" \notin ANY
    BY <2>1, <2>2, InfoKinds DEF type_of, ANY, STATES, EVENT
  <2> QED
    BY <1>3, <2>2, <2>3
<1> QED
  BY <1>2, <1>3

\* An event with other transitions, a state with its events.
LEMMA EventUpdated ==
    ASSUME NEW si \in EventInfos, NEW q \in Seq(Nat)
    PROVE  /\ [si EXCEPT !.tids = q, !.used = TRUE] \in EventInfos
           /\ [si EXCEPT !.tids = q, !.used = TRUE].type = si.type
           /\ [si EXCEPT !.tids = q, !.used = TRUE].scope = si.scope
           /\ \A p \in {"none", "expr", "func"} :
                 /\ [si EXCEPT !.precondition = p] \in EventInfos
                 /\ [si EXCEPT !.precondition = p].type = si.type
                 /\ [si EXCEPT !.precondition = p].scope = si.scope
  BY DEF EventInfos

LEMMA StateUpdated ==
    ASSUME NEW si \in StateInfos, NEW a \in BOOLEAN, NEW b \in BOOLEAN, NEW c \in Seq(Names)
    PROVE  /\ [si EXCEPT !.hasEnter = a, !.hasExit = b] \in StateInfos
           /\ [si EXCEPT !.enterAction = TRUE] \in StateInfos
           /\ [si EXCEPT !.exitAction = TRUE] \in StateInfos
           /\ [si EXCEPT !.children = c] \in StateInfos
<1>1. [si EXCEPT !.hasEnter = a, !.hasExit = b] \in StateInfos
  BY DEF StateInfos
<1>2. [si EXCEPT !.enterAction = TRUE] \in StateInfos
  BY DEF StateInfos
<1>3. [si EXCEPT !.exitAction = TRUE] \in StateInfos
  BY DEF StateInfos
<1>4. [si EXCEPT !.children = c] \in StateInfos
  BY DEF StateInfos
<1> QED
  BY <1>1, <1>2, <1>3, <1>4

LEMMA ChildUpdated ==
    ASSUME NEW si \in ChildInfos
    PROVE  /\ [si EXCEPT !.defined = TRUE] \in ChildInfos
           /\ [si EXCEPT !.defined = TRUE].type = si.type
           /\ [si EXCEPT !.defined = TRUE].scope = si.scope
           /\ [si EXCEPT !.defined = TRUE].parent = si.parent
  BY DEF ChildInfos

\* The ids are new ones, in order.
LEMMA NewIds ==
    ASSUME NEW s, NumEvents(s) \in Nat, transitions_ \in Seq(Transitions), NEW e
    PROVE  LET S == {Len(transitions_) + i - 1 : i \in {i \in 1 .. NumEvents(s) : EventOf(s, i) = e}}
           IN  /\ AddedIds(s, e) \in Seq(Nat)
               /\ IsAscending(AddedIds(s, e))
               /\ ToSet(AddedIds(s, e)) = S
<1> DEFINE n == NumEvents(s)
           l == Len(transitions_)
           S == {l + i - 1 : i \in {i \in 1 .. n : EventOf(s, i) = e}}
<1>1. l \in Nat
  BY LenProperties
<1> HIDE DEF n, l
<1>2. S \in SUBSET Nat /\ \A x \in S : x <= l + n
  BY <1>1 DEF n
<1>3. AddedIds(s, e) = Ascending(S)
  BY DEF AddedIds, n, l
<1> HIDE DEF S
<1>4. IsFiniteSet(S)
  <2>1. l + n \in Nat
    BY <1>1 DEF n
  <2> QED
    BY <1>2, <2>1, FS_BoundedSetOfNaturals
<1> QED
  BY <1>2, <1>3, <1>4, AscendingIs DEF S, n, l

LEMMA WithTransitionsTable ==
    ASSUME Typed(table), NEW s, NumEvents(s) \in Nat, transitions_ \in Seq(Transitions)
    PROVE  /\ Typed(WithTransitions(s)) /\ SamePlaces(table, WithTransitions(s))
           /\ \A n \in DOMAIN table : \A i \in DOMAIN table[n] :
                 \/ WithTransitions(s)[n][i] = table[n][i]
                 \/ WithTransitions(s)[n][i] = Using(table[n][i], AddedIds(s, n))
<1> DEFINE r == WithTransitions(s)
           On(n) == type_of(table, n, 0) \in EVENT /\ \E i \in 1 .. NumEvents(s) : EventOf(s, i) = n
<1>1. DOMAIN r = DOMAIN table /\ r = [n \in DOMAIN table |-> r[n]]
  BY DEF WithTransitions
<1>2. ASSUME NEW n \in DOMAIN table
      PROVE  /\ r[n] \in Seq(AllInfos) /\ DOMAIN r[n] = DOMAIN table[n]
             /\ \A i \in DOMAIN table[n] :
                   /\ Like(r[n][i], table[n][i]) /\ r[n][i].scope = table[n][i].scope
                   /\ table[n][i].type = "CHILD" => r[n][i].parent = table[n][i].parent
                   /\ \/ r[n][i] = table[n][i]
                      \/ r[n][i] = Using(table[n][i], AddedIds(s, n))
  <2>0. table[n] \in Seq(AllInfos)
    BY DEF Typed
  <2>1. CASE ~On(n)
    <3>1. r[n] = table[n]
      BY <2>1 DEF WithTransitions
    <3> QED
      BY <2>0, <3>1 DEF Like
  <2>2. CASE On(n)
    <3> DEFINE si == Using(table[n][1], AddedIds(s, n))
    <3>1. r[n] = [table[n] EXCEPT ![1] = si]
      BY <2>2, Zenon DEF WithTransitions
    <3>2. 1 \in DOMAIN table[n] /\ table[n][1] \in EventInfos /\ table[n][1] \in AllInfos
          /\ table[n][1].type \in EVENT
      BY <2>2, FirstInfo, InfoKinds DEF EVENT
    <3>3. AddedIds(s, n) \in Seq(Nat)
      BY NewIds
    <3>4. AddIds(table[n][1].tids, AddedIds(s, n)) \in Seq(Nat)
      BY <3>2, <3>3, ConcatProperties DEF AddIds, EventInfos
    <3>5. si \in EventInfos /\ si.type = table[n][1].type /\ si.scope = table[n][1].scope
      BY <3>2, <3>4, EventUpdated DEF Using
    <3>6. si \in AllInfos /\ si.type # "CHILD"
      BY <3>2, <3>5, KindsAreInfos DEF EVENT
    <3>9. Like(si, table[n][1])
      <4>1. /\ si.kind = table[n][1].kind /\ si.state = table[n][1].state
            /\ si.base = table[n][1].base
        BY <3>2, <3>4 DEF Using, EventInfos
      <4>2. si.type \notin STATES
        BY <3>2, <3>5 DEF EVENT, STATES
      <4> QED
        BY <3>5, <4>1, <4>2 DEF Like
    <3>10. \A i \in DOMAIN table[n] : Like(table[n][i], table[n][i])
      BY DEF Like
    <3>11. si = Using(table[n][1], AddedIds(s, n))
      OBVIOUS
    <3> HIDE DEF si, r
    <3>7. r[n] \in Seq(AllInfos) /\ DOMAIN r[n] = DOMAIN table[n]
      BY <3>1, <3>2, <3>6, <2>0, ExceptSeq
    <3>8. /\ r[n][1] = si
          /\ \A i \in DOMAIN table[n] : i # 1 => r[n][i] = table[n][i]
      BY <3>1, <3>2
    <3> QED
      BY <3>2, <3>5, <3>6, <3>7, <3>8, <3>9, <3>10, <3>11
  <2> QED
    BY <2>1, <2>2
<1> HIDE DEF r
<1>3. Typed(r)
  BY <1>1, <1>2 DEF Typed
<1>4. SamePlaces(table, r)
  BY <1>1, <1>2 DEF SamePlaces
<1> QED
  BY <1>2, <1>3, <1>4 DEF r

LEMMA BackpatchTable ==
    ASSUME Typed(table)
    PROVE  /\ Typed(backpatch_enter_exit_events) /\ SamePlaces(table, backpatch_enter_exit_events)
           /\ \A n \in DOMAIN table : \A i \in DOMAIN table[n] :
                 \/ backpatch_enter_exit_events[n][i] = table[n][i]
                 \/ backpatch_enter_exit_events[n][i].type \in STATES
<1> DEFINE r == backpatch_enter_exit_events
<1>1. DOMAIN r = DOMAIN table /\ r = [n \in DOMAIN table |-> r[n]]
  BY DEF backpatch_enter_exit_events
<1>2. ASSUME NEW n \in DOMAIN table
      PROVE  /\ r[n] \in Seq(AllInfos) /\ DOMAIN r[n] = DOMAIN table[n]
             /\ \A i \in DOMAIN table[n] :
                   /\ Like(r[n][i], table[n][i]) /\ r[n][i].scope = table[n][i].scope
                   /\ table[n][i].type = "CHILD" => r[n][i].parent = table[n][i].parent
                   /\ r[n][i] = table[n][i] \/ r[n][i].type \in STATES
  <2>0. table[n] \in Seq(AllInfos)
    BY DEF Typed
  <2>1. CASE type_of(table, n, 0) \notin STATES
    <3>1. r[n] = table[n]
      BY <2>1 DEF backpatch_enter_exit_events
    <3> QED
      BY <2>0, <3>1 DEF Like
  <2>2. CASE type_of(table, n, 0) \in STATES
    <3> DEFINE si == [table[n][1] EXCEPT !.hasEnter = @ \/ EventFor(n, "enter"),
                                         !.hasExit  = @ \/ EventFor(n, "exit")]
               tl == Tail(table[n])
    <3>1. r[n] = <<si>> \o tl
      BY <2>2 DEF backpatch_enter_exit_events
    <3>2. 1 \in DOMAIN table[n] /\ table[n] # <<>> /\ table[n][1] \in StateInfos
          /\ table[n][1] \in AllInfos
      BY <2>2, FirstInfo, InfoKinds DEF STATES
    <3>3. si \in StateInfos
      <4>1. (table[n][1].hasEnter \/ EventFor(n, "enter")) \in BOOLEAN
            /\ (table[n][1].hasExit \/ EventFor(n, "exit")) \in BOOLEAN
        OBVIOUS
      <4> QED
        BY <3>2, <4>1 DEF StateInfos
    <3>4. si \in AllInfos /\ si.type = table[n][1].type /\ si.scope = table[n][1].scope
          /\ table[n][1].type # "CHILD"
      BY <3>2, <3>3, KindsAreInfos DEF StateInfos, STATES
    <3>9. Like(si, table[n][1]) /\ si.type \in STATES
      <4>1. si.history = table[n][1].history
        BY <3>2 DEF StateInfos
      <4>2. si.type \in STATES /\ si.type \notin EVENT
        BY <3>3 DEF StateInfos, EVENT, STATES
      <4> QED
        BY <3>4, <4>1, <4>2 DEF Like
    <3>10. \A i \in DOMAIN table[n] : Like(table[n][i], table[n][i])
      BY DEF Like
    <3>5. tl \in Seq(AllInfos) /\ Len(tl) = Len(table[n]) - 1
          /\ \A i \in 1 .. Len(table[n]) - 1 : tl[i] = table[n][i + 1]
      BY <2>0, <3>2, HeadTailProperties
    <3> HIDE DEF si, r, tl
    <3>6. /\ r[n] \in Seq(AllInfos) /\ Len(r[n]) = Len(table[n]) /\ r[n][1] = si
          /\ \A i \in 2 .. Len(table[n]) : r[n][i] = tl[i - 1]
      <4> DEFINE hd == <<si>>
      <4>1. hd \in Seq(AllInfos) /\ Len(hd) = 1 /\ hd[1] = si
        BY <3>4
      <4>0. r[n] = hd \o tl
        BY <3>1
      <4> HIDE DEF hd
      <4>2. /\ hd \o tl \in Seq(AllInfos) /\ Len(hd \o tl) = 1 + Len(tl)
            /\ \A i \in 1 .. 1 + Len(tl) : (hd \o tl)[i] = IF i <= 1 THEN hd[i] ELSE tl[i - 1]
        <5>1. /\ hd \o tl \in Seq(AllInfos) /\ Len(hd \o tl) = Len(hd) + Len(tl)
              /\ \A i \in 1 .. Len(hd) + Len(tl) :
                    (hd \o tl)[i] = IF i <= Len(hd) THEN hd[i] ELSE tl[i - Len(hd)]
          <6>1. hd \in Seq(AllInfos) /\ tl \in Seq(AllInfos)
            BY <3>5, <4>1
          <6> QED
            BY <6>1, ConcatProperties, Zenon
        <5> QED
          BY <4>1, <5>1, Zenon
      <4>3. Len(table[n]) \in Nat
        BY <2>0, LenProperties
      <4> QED
        BY <4>0, <4>1, <4>2, <4>3, <3>5
    <3>7. \A i \in 2 .. Len(table[n]) : r[n][i] = table[n][i]
      <4> SUFFICES ASSUME NEW i \in 2 .. Len(table[n]) PROVE r[n][i] = table[n][i]
        OBVIOUS
      <4>1. i - 1 \in 1 .. Len(table[n]) - 1 /\ (i - 1) + 1 = i
        BY <2>0, LenProperties
      <4> QED
        BY <4>1, <3>5, <3>6
    <3>8. DOMAIN r[n] = 1 .. Len(table[n]) /\ DOMAIN table[n] = 1 .. Len(table[n])
          /\ \A i \in 1 .. Len(table[n]) : i = 1 \/ i \in 2 .. Len(table[n])
      BY <2>0, <3>6, LenProperties
    <3> QED
      BY <3>4, <3>6, <3>7, <3>8, <3>9, <3>10
  <2> QED
    BY <2>1, <2>2
<1> HIDE DEF r
<1>3. Typed(r)
  BY <1>1, <1>2 DEF Typed
<1>4. SamePlaces(table, r)
  BY <1>1, <1>2 DEF SamePlaces
<1> QED
  BY <1>2, <1>3, <1>4 DEF r

-----------------------------------------------------------------------------
(* Names. *)

LEMMA AppendName ==
    ASSUME NEW p \in Names, NEW id \in Identifiers
    PROVE  Append(p, id) \in Names /\ Len(Append(p, id)) = Len(p) + 1 /\ Len(p) >= 1
  BY AppendProperties, EmptySeq, LenProperties DEF Names, Identifiers

LEMMA ConcatName ==
    ASSUME NEW p \in Names, NEW q \in Seq(Identifiers)
    PROVE  p \o q \in Names
<1>1. q \in Seq(DOMAIN Spelling)
  BY SeqMonotonic DEF Identifiers
<1>2. p \o q \in Seq(DOMAIN Spelling) /\ Len(p \o q) = Len(p) + Len(q) /\ Len(p) >= 1 /\ Len(q) \in Nat
  BY <1>1, ConcatProperties, EmptySeq, LenProperties DEF Names
<1> QED
  BY <1>2, EmptySeq DEF Names

\* An info of a symbol at a depth.
LEMMA InfoAt ==
    ASSUME NEW t, Typed(t), NEW n, NEW in \in Nat, type_of(t, n, in) # "NONE"
    PROVE  /\ n \in DOMAIN t /\ in + 1 \in DOMAIN t[n] /\ t[n] \in Seq(AllInfos)
           /\ info(t, n, in) = t[n][in + 1] /\ info(t, n, in) \in AllInfos
           /\ type_of(t, n, in) = t[n][in + 1].type
<1>1. in < Len(Infos(t, n)) /\ info(t, n, in) = Infos(t, n)[in + 1]
  BY DEF type_of, info
<1>0. Infos(t, n) \in Seq(AllInfos)
  BY InfosTyped
<1>2. n \in DOMAIN t /\ Infos(t, n) = t[n]
  BY <1>1 DEF Infos
<1>3. t[n] \in Seq(AllInfos) /\ in + 1 \in DOMAIN t[n]
  BY <1>0, <1>1, <1>2, LenProperties
<1>4. t[n][in + 1] \in AllInfos
  BY <1>3
<1> QED
  BY <1>1, <1>2, <1>3, <1>4, NilIsNoInfo DEF type_of

\* A child hides what lies further out, so that the innermost info is a child if any is.
LEMMA ChildInFront ==
    ASSUME NEW t, Typed(t), NEW ps, DOMAIN ps \subseteq Nat \ {0, 1}, Nested(t, ps),
           NEW n, NEW in \in Nat, type_of(t, n, in) = "CHILD"
    PROVE  /\ type_of(t, n, 0) = "CHILD"
           /\ info(t, n, 0) \in ChildInfos
           /\ info(t, n, 0).parent \in Names
<1>1. /\ n \in DOMAIN t /\ in + 1 \in DOMAIN t[n] /\ t[n] \in Seq(AllInfos)
      /\ t[n][in + 1].type = "CHILD" /\ t[n][in + 1] \in AllInfos
  BY InfoAt
<1>2. 1 \in DOMAIN t[n] /\ t[n][1] \in AllInfos /\ 0 < Len(t[n])
  BY <1>1, LenProperties
<1>3. info(t, n, 0) = t[n][1] /\ type_of(t, n, 0) = t[n][1].type
  BY <1>1, <1>2, NilIsNoInfo DEF info, type_of, Infos
<1>4. t[n][1].type = "CHILD"
  <2> SUFFICES ASSUME t[n][1].type # "CHILD" PROVE FALSE
    OBVIOUS
  <2>1. t[n][1].scope = 1
    BY <1>2, InfoKinds DEF SCOPE_GLOBAL
  <2>2. t[n][in + 1].scope \in Nat \ {0, 1}
    BY <1>1 DEF Nested, InScope
  <2>3. in + 1 = 1 \/ t[n][1].scope >= t[n][in + 1].scope
    BY <1>1, <1>2 DEF Nested
  <2> QED
    BY <1>1, <2>1, <2>2, <2>3
<1>5. info(t, n, 0) \in ChildInfos
  BY <1>2, <1>3, <1>4, InfoKinds
<1> QED
  BY <1>3, <1>4, <1>5 DEF ChildInfos

-----------------------------------------------------------------------------
(* What entering names does to the table. *)

Scoped(t, ps) == Typed(t) /\ Nested(t, ps)

LEMMA OuterInScope ==
    ASSUME NEW si \in AllInfos, si.type # "CHILD", NEW ps
    PROVE  InScope(si, ps)
  BY InfoKinds DEF InScope

LEMMA InsertOuter ==
    ASSUME NEW t, NEW ps, Scoped(t, ps), NEW n \in Names, NEW si \in AllInfos, si.type # "CHILD"
    PROVE  Scoped(insert_info(t, n, si), ps)
<1>1. InsertedAt(t, n, si, insert_info(t, n, si), Before(Infos(t, n), si.scope))
  BY Inserted DEF Scoped
<1>2. Typed(insert_info(t, n, si))
  BY <1>1 DEF InsertedAt
<1> QED
  BY <1>2, InsertNested, OuterInScope DEF Scoped

LEMMA TouchScoped ==
    ASSUME NEW t, NEW ps, Scoped(t, ps), NEW n \in Names
    PROVE  Scoped(Touch(t, n), ps)
  BY TouchTable, TouchNested DEF Scoped

LEMMA UpdateScoped ==
    ASSUME NEW t, NEW ps, Scoped(t, ps), NEW n \in DOMAIN t, t[n] # <<>>, NEW si \in AllInfos,
           si.scope = t[n][1].scope, si.type = t[n][1].type,
           si.type = "CHILD" => si.parent = t[n][1].parent
    PROVE  Scoped(Update(t, n, si), ps)
<1>1. UpdatedTo(t, n, si, Update(t, n, si))
  BY Updated DEF Scoped
<1>2. Typed(Update(t, n, si))
  BY <1>1 DEF UpdatedTo
<1>3. t[n] \in Seq(AllInfos) /\ 1 \in DOMAIN t[n]
  BY LenProperties, EmptySeq DEF Scoped, Typed
<1>4. InScope(t[n][1], ps)
  BY <1>3 DEF Scoped, Nested
<1>5. InScope(si, ps)
  BY <1>4 DEF InScope
<1> QED
  BY <1>2, <1>5, UpdateNested DEF Scoped

LEMMA ForwardReferenceScoped ==
    ASSUME NEW t, NEW ps, Scoped(t, ps), NEW n \in Names
    PROVE  Scoped(ForwardReference(t, n), ps)
<1>1. global_info \in AllInfos /\ global_info.type # "CHILD"
  BY NewInfos, KindsAreInfos DEF global_info
<1> QED
  BY <1>1, InsertOuter DEF ForwardReference

LEMMA StateNameScoped ==
    ASSUME NEW ps, DOMAIN ps \subseteq Nat \ {0, 1}, Scoped(table, ps), NEW ref \in References,
           scope \in Nat
    PROVE  /\ state_name(ref).name \in Names
           /\ Scoped(state_name(ref).table, ps)
           /\ state_name(ref).error \in BOOLEAN
<1> DEFINE sy == <<ref.id>>
           named == Touch(table, sy)
           type  == type_of(named, sy, Dots(ref))
           name  == (IF type = "CHILD" THEN Append(info(named, sy, 0).parent, ref.id) ELSE sy)
                     \o ref.substates
<1>0. ref.id \in Identifiers /\ ref.dots \in Nat /\ ref.substates \in Seq(Identifiers)
  BY DEF References
<1>1. sy \in Names /\ Dots(ref) \in Nat
  BY <1>0, NilIsNoName DEF Dots
<1>2. Scoped(named, ps)
  BY <1>1, TouchScoped
<1>3. type = "CHILD" => info(named, sy, 0).parent \in Names
  BY <1>1, <1>2, ChildInFront DEF Scoped
<1> HIDE DEF type, named, sy
<1>4. name \in Names
  BY <1>0, <1>1, <1>3, ConcatName, AppendName
<1> HIDE DEF name
<1>5. /\ state_name(ref).name = name
      /\ state_name(ref).table = ForwardReference(named, name)
      /\ state_name(ref).error \in BOOLEAN
  BY DEF state_name, type, named, sy, name
<1> QED
  BY <1>2, <1>4, <1>5, ForwardReferenceScoped

LEMMA UserEventScoped ==
    ASSUME NEW ps, Scoped(table, ps), NEW id \in Identifiers
    PROVE  /\ user_event(id).name \in Names
           /\ Scoped(user_event(id).table, ps)
           /\ user_event(id).error \in BOOLEAN
           /\ user_event(id).new \in BOOLEAN
<1>1. <<id>> \in Names /\ Scoped(Touch(table, <<id>>), ps)
  BY NilIsNoName, TouchScoped
<1>2. user_event_info(NIL) \in AllInfos /\ user_event_info(NIL).type # "CHILD"
  BY NewInfos, KindsAreInfos DEF user_event_info
<1>3. Scoped(insert_info(Touch(table, <<id>>), <<id>>, user_event_info(NIL)), ps)
  BY <1>1, <1>2, InsertOuter
<1> QED
  BY <1>1, <1>3 DEF user_event, type_check

LEMMA EnexEventScoped ==
    ASSUME NEW ps, DOMAIN ps \subseteq Nat \ {0, 1}, Scoped(table, ps), NEW ref \in References,
           scope \in Nat, NEW kind \in {"enter", "exit"}
    PROVE  /\ enex_event(kind, ref).name \in Names
           /\ Scoped(enex_event(kind, ref).table, ps)
           /\ enex_event(kind, ref).error \in BOOLEAN
           /\ enex_event(kind, ref).new \in BOOLEAN
<1> DEFINE s == state_name(ref)
           name == <<kind>> \o s.name
<1>1. s.name \in Names /\ Scoped(s.table, ps) /\ s.error \in BOOLEAN
  BY StateNameScoped
<1> HIDE DEF s
<1>2. <<kind>> \in Names
  BY IdentAssumption DEF Names
<1>3. name \in Names
  BY <1>1, <1>2, ConcatProperties, EmptySeq, LenProperties DEF Names
<1>4. event_info(kind, s.name) \in AllInfos /\ event_info(kind, s.name).type # "CHILD"
  BY <1>1, NewInfos, KindsAreInfos DEF event_info
<1>5. Scoped(insert_info(s.table, name, event_info(kind, s.name)), ps)
  BY <1>1, <1>3, <1>4, InsertOuter
<1>6. /\ enex_event(kind, ref).name = name
      /\ enex_event(kind, ref).table = IF info(s.table, name, 0) = NIL
             THEN insert_info(s.table, name, event_info(kind, s.name)) ELSE s.table
      /\ enex_event(kind, ref).error = s.error
      /\ enex_event(kind, ref).new \in BOOLEAN
  BY DEF enex_event, s
<1> HIDE DEF name
<1> QED
  BY <1>1, <1>3, <1>5, <1>6

\* The tables that state_declaration() passes through: the child is marked as described, a
\* forward reference is taken away, and the parent gets the child.
MarkedTable(id) ==
    LET named == Touch(table, <<id>>)
        kid == info(named, <<id>>, 0)
    IN  Touch(IF /\ sy_parent # RootName
                 /\ type_of(named, <<id>>, 0) = "CHILD" /\ kid.parent = sy_parent
              THEN Update(named, <<id>>, [kid EXCEPT !.defined = TRUE])
              ELSE named, NameIn(sy_parent, id))

RealTable(id) ==
    LET name == NameIn(sy_parent, id)
    IN  IF type_of(MarkedTable(id), name, 0) = "GLOBAL"
        THEN delete_info(MarkedTable(id), name) ELSE MarkedTable(id)

Fresh(id) == info(RealTable(id), NameIn(sy_parent, id), 0) = NIL

GrownTable(id) ==
    LET parent == info(RealTable(id), sy_parent, 0)
    IN  Update(RealTable(id), sy_parent,
               [parent EXCEPT !.children = Append(@, NameIn(sy_parent, id))])

LEMMA StateDeclarationIs ==
    ASSUME NEW id
    PROVE  /\ state_declaration(id).name = NameIn(sy_parent, id)
           /\ state_declaration(id).errors =
                (errors \/ ~(\/ sy_parent = RootName
                             \/ /\ type_of(Touch(table, <<id>>), <<id>>, 0) = "CHILD"
                                /\ info(Touch(table, <<id>>), <<id>>, 0).parent = sy_parent))
           /\ state_declaration(id).states =
                IF Fresh(id) THEN Append(states_, NameIn(sy_parent, id)) ELSE states_
           /\ state_declaration(id).table =
                IF Fresh(id) /\ type_of(RealTable(id), sy_parent, 0) \in PARENT
                THEN GrownTable(id) ELSE RealTable(id)
<1> DEFINE top    == sy_parent = RootName
           name   == IF top THEN <<id>> ELSE Append(sy_parent, id)
           named  == Touch(table, <<id>>)
           kid    == info(named, <<id>>, 0)
           ours   == /\ type_check(named, <<id>>, {"CHILD"}, "MUST_EXIST", 0).ok
                     /\ kid.parent = sy_parent
           marked == Touch(IF ~top /\ ours
                           THEN Update(named, <<id>>, [kid EXCEPT !.defined = TRUE])
                           ELSE named, name)
           real   == IF type_of(marked, name, 0) = "GLOBAL" THEN delete_info(marked, name)
                                                            ELSE marked
           new    == info(real, name, 0) = NIL
           parent == info(real, sy_parent, 0)
<1>1. /\ state_declaration(id).name = name
      /\ state_declaration(id).errors = (errors \/ (~top /\ ~ours))
      /\ state_declaration(id).states = IF new THEN Append(states_, name) ELSE states_
      /\ state_declaration(id).table = IF new /\ type_of(real, sy_parent, 0) \in PARENT
            THEN Update(real, sy_parent, [parent EXCEPT !.children = Append(@, name)])
            ELSE real
  BY DEF state_declaration
<1>2. ours = (type_of(named, <<id>>, 0) = "CHILD" /\ kid.parent = sy_parent)
  BY DEF type_check
<1>3. name = NameIn(sy_parent, id)
  BY DEF NameIn
<1> HIDE DEF ours, name
<1>4. marked = MarkedTable(id)
  BY <1>2, <1>3 DEF MarkedTable
<1> HIDE DEF marked
<1>5. real = RealTable(id)
  BY <1>3, <1>4 DEF RealTable
<1> HIDE DEF real
<1>6. new = Fresh(id)
  BY <1>3, <1>5 DEF Fresh
<1> HIDE DEF new
<1>7. Update(real, sy_parent, [parent EXCEPT !.children = Append(@, name)]) = GrownTable(id)
  BY <1>3, <1>5 DEF GrownTable
<1> HIDE DEF parent
<1> QED
  BY <1>1, <1>2, <1>3, <1>5, <1>6, <1>7

LEMMA DeleteScoped ==
    ASSUME NEW t, NEW ps, Scoped(t, ps), NEW n \in DOMAIN t, t[n] # <<>>
    PROVE  Scoped(delete_info(t, n), ps)
<1>1. DeletedFrom(t, n, delete_info(t, n))
  BY Deleted DEF Scoped
<1> QED
  BY <1>1, DeleteNested DEF Scoped, DeletedFrom

LEMMA StateDeclarationScoped ==
    ASSUME NEW ps, Scoped(table, ps), NEW id \in Identifiers, sy_parent \in Names,
           states_ \in Seq(Names)
    PROVE  /\ NameIn(sy_parent, id) \in Names
           /\ Scoped(MarkedTable(id), ps) /\ Scoped(RealTable(id), ps)
           /\ Scoped(state_declaration(id).table, ps)
           /\ state_declaration(id).errors \in BOOLEAN
           /\ state_declaration(id).states \in Seq(Names)
<1> DEFINE named == Touch(table, <<id>>)
           kid == info(named, <<id>>, 0)
           name == NameIn(sy_parent, id)
<1>1. <<id>> \in Names /\ Scoped(named, ps)
  BY NilIsNoName, TouchScoped
<1>2. name \in Names
  BY <1>1, AppendName DEF NameIn
<1> HIDE DEF named, name
<1>3. Scoped(MarkedTable(id), ps)
  <2>1. CASE type_of(named, <<id>>, 0) = "CHILD"
    <3>1. /\ <<id>> \in DOMAIN named /\ named[<<id>>] # <<>>
          /\ kid = named[<<id>>][1] /\ kid \in AllInfos /\ kid.type = "CHILD"
      BY <1>1, <2>1, FirstInfo DEF Scoped
    <3> HIDE DEF kid
    <3>2. kid \in ChildInfos
      BY <3>1, InfoKinds
    <3>3. /\ [kid EXCEPT !.defined = TRUE] \in AllInfos
          /\ [kid EXCEPT !.defined = TRUE].type = kid.type
          /\ [kid EXCEPT !.defined = TRUE].scope = kid.scope
          /\ [kid EXCEPT !.defined = TRUE].parent = kid.parent
      BY <3>2, ChildUpdated, KindsAreInfos
    <3>4. Scoped(Update(named, <<id>>, [kid EXCEPT !.defined = TRUE]), ps)
      BY <1>1, <3>1, <3>3, UpdateScoped
    <3> QED
      BY <1>1, <1>2, <3>4, TouchScoped DEF MarkedTable, named, kid, name
  <2>2. CASE type_of(named, <<id>>, 0) # "CHILD"
    <3>1. MarkedTable(id) = Touch(named, name)
      BY <2>2 DEF MarkedTable, named, name
    <3> QED
      BY <1>1, <1>2, <3>1, TouchScoped
  <2> QED
    BY <2>1, <2>2
<1>4. Scoped(RealTable(id), ps)
  <2>1. CASE type_of(MarkedTable(id), name, 0) = "GLOBAL"
    <3>1. name \in DOMAIN MarkedTable(id) /\ MarkedTable(id)[name] # <<>>
      BY <1>3, <2>1, FirstInfo DEF Scoped
    <3> QED
      BY <1>3, <2>1, <3>1, DeleteScoped DEF RealTable, name
  <2>2. CASE type_of(MarkedTable(id), name, 0) # "GLOBAL"
    BY <1>3, <2>2 DEF RealTable, name
  <2> QED
    BY <2>1, <2>2
<1>5. ASSUME type_of(RealTable(id), sy_parent, 0) \in PARENT
      PROVE  Scoped(GrownTable(id), ps)
  <2> DEFINE r == RealTable(id)
             parent == info(r, sy_parent, 0)
             new == [parent EXCEPT !.children = Append(@, name)]
  <2>1. /\ sy_parent \in DOMAIN r /\ r[sy_parent] # <<>> /\ r[sy_parent][1] = parent
        /\ parent \in AllInfos /\ parent.type \in PARENT
    BY <1>4, <1>5, FirstInfo DEF Scoped, PARENT
  <2>2. GrownTable(id) = Update(r, sy_parent, new)
    BY DEF GrownTable, name
  <2> HIDE DEF r, parent
  <2>3. parent \in StateInfos /\ parent.children \in Seq(Names)
    BY <2>1, InfoKinds DEF PARENT, STATES, StateInfos
  <2>4. Append(parent.children, name) \in Seq(Names)
    BY <1>2, <2>3, AppendProperties
  <2>5. new \in StateInfos
    BY <2>3, <2>4, StateUpdated
  <2>6. new.type = parent.type /\ new.scope = parent.scope /\ new.type # "CHILD"
    BY <2>1, <2>3 DEF StateInfos, PARENT
  <2>7. new \in AllInfos
    BY <2>5, KindsAreInfos
  <2> HIDE DEF new
  <2> QED
    BY <1>4, <2>1, <2>2, <2>6, <2>7, UpdateScoped DEF r
<1>6. Append(states_, name) \in Seq(Names)
  BY <1>2, AppendProperties
<1> QED
  BY <1>2, <1>3, <1>4, <1>5, <1>6, StateDeclarationIs DEF name

-----------------------------------------------------------------------------
(* What the invariant says of a state. *)

LEMMA InvFacts ==
    ASSUME ParserInv
    PROVE  /\ TypeOK /\ StackShape /\ Typed(table)
           /\ at # "undefined" => Scoped(table, ScopeParents)
           /\ DOMAIN ScopeParents \subseteq Nat \ {0, 1}
           /\ scope \in Nat
  BY DEF ParserInv, ScopesNested, TypeOK, Typed, Scoped, ScopeParents

LEMMA InvFromFacts ==
    ASSUME TypeOK', StackShape', at' # "undefined" => Nested(table', ScopeParents')
    PROVE  ParserInv'
  BY DEF ParserInv, ScopesNested

\* The parents of the open scopes are those from before.
LEMMA ParentsKept ==
    ASSUME ParserInv, Inside, Inside', scope' = scope, sy_parent' = sy_parent,
           \A k \in 1 .. scope : stack'[k] = stack[k],
           InHeader' <=> InHeader, InHeader => Header' = Header
    PROVE  ScopeParents' = ScopeParents
<1>1. scope \in Nat
  BY InvFacts
<1>2. \A k \in 1 .. scope : OpenParents'[k] = OpenParents[k]
  BY <1>1 DEF OpenParents
<1> QED
  BY <1>1, <1>2 DEF ScopeParents

LEMMA BudgetTyped ==
    ASSUME NEW b \in TextTypes
    PROVE  /\ b.idents \subseteq Identifiers /\ b.events \subseteq Identifiers
           /\ b.histories \subseteq {"none", "history", "deep"} /\ b.parents \subseteq PARENT
           /\ b.preconditions \subseteq {"none", "expr", "func"} /\ b.refs \subseteq References
           /\ b.descriptions \in Nat /\ b.children \in Nat /\ b.transitions \in Nat
           /\ b.blocks \in Nat /\ b.perTransition \in Nat
           /\ b.descriptions > 0 => [b EXCEPT !.descriptions = @ - 1] \in TextTypes
           /\ b.transitions > 0 => [b EXCEPT !.transitions = @ - 1] \in TextTypes
           /\ b.blocks > 0 => [b EXCEPT !.blocks = @ - 1] \in TextTypes
           /\ b.descriptions > 0 =>
                 \A n \in Nat : [b EXCEPT !.descriptions = @ - 1, !.blocks = n] \in TextTypes
<1>1. /\ b.idents \subseteq Identifiers /\ b.events \subseteq Identifiers
      /\ b.histories \subseteq {"none", "history", "deep"} /\ b.parents \subseteq PARENT
      /\ b.preconditions \subseteq {"none", "expr", "func"} /\ b.refs \subseteq References
      /\ b.descriptions \in Nat /\ b.children \in Nat /\ b.transitions \in Nat
      /\ b.blocks \in Nat /\ b.perTransition \in Nat
  BY DEF TextTypes
<1>2. \A x, y : /\ [b EXCEPT !.descriptions = x] \in TextTypes <=> x \in Nat
                /\ [b EXCEPT !.transitions = x] \in TextTypes <=> x \in Nat
                /\ [b EXCEPT !.blocks = x] \in TextTypes <=> x \in Nat
                /\ x \in Nat /\ y \in Nat => [b EXCEPT !.descriptions = x, !.blocks = y] \in TextTypes
  BY DEF TextTypes
<1>3. /\ b.descriptions > 0 => b.descriptions - 1 \in Nat
      /\ b.transitions > 0 => b.transitions - 1 \in Nat
      /\ b.blocks > 0 => b.blocks - 1 \in Nat
  BY <1>1
<1> QED
  BY <1>1, <1>2, <1>3

LEMMA BlockTyped ==
    ASSUME budget \in TextTypes, NEW yes \in BOOLEAN, Block(yes)
    PROVE  budget' \in TextTypes
  BY BudgetTyped DEF Block

LEMMA ItemsTyped ==
    /\ \A n \in Nat : Num(n) \in Items
    /\ \A p \in Names \cup {NIL} : Ptr(p) \in Items
    /\ \A i \in Items : /\ i.tag \in {"int", "ptr"}
                        /\ i.tag = "ptr" => i.val \in Names \cup {NIL}
                        /\ i.tag = "int" => i.val \in Nat
  BY DEF Items, Num, Ptr

LEMMA DescTyped ==
    ASSUME NEW d \in [type : {"NONE", "ROOT"} \cup STATES, children : Nat, block : BOOLEAN]
    PROVE  /\ \A b \in BOOLEAN : [d EXCEPT !.block = b]
                 \in [type : {"NONE", "ROOT"} \cup STATES, children : Nat, block : BOOLEAN]
           /\ [d EXCEPT !.children = @ + 1]
                 \in [type : {"NONE", "ROOT"} \cup STATES, children : Nat, block : BOOLEAN]
           /\ \A b \in BOOLEAN : [d EXCEPT !.block = b].type = d.type
           /\ [d EXCEPT !.children = @ + 1].type = d.type
<1>1. d.children + 1 \in Nat
  OBVIOUS
<1> QED
  BY <1>1

\* What the text says.
LEMMA WrittenTyped ==
    ASSUME written \in Writings
    PROVE  /\ \A S \in SUBSET Names, l \in BOOLEAN :
                 [written EXCEPT !.described = S, !.legal = l] \in Writings
           /\ \A S \in SUBSET Names, l \in BOOLEAN :
                 [written EXCEPT !.declared = S, !.legal = l] \in Writings
           /\ \A S, D \in SUBSET Names, l \in BOOLEAN :
                 [written EXCEPT !.legal = l, !.history = S, !.deep = D] \in Writings
           /\ \A l \in BOOLEAN : [written EXCEPT !.legal = l] \in Writings
           /\ \A l \in BOOLEAN : [written EXCEPT !.targets = l] \in Writings
           /\ \A R \in SUBSET [ref : References, name : Names, in : Names, from : Names] :
                 [written EXCEPT !.refs = R] \in Writings
           /\ written.legal \in BOOLEAN /\ written.targets \in BOOLEAN
           /\ written.history \subseteq Names /\ written.deep \subseteq Names
           /\ written.described \subseteq Names /\ written.declared \subseteq Names
<1>1. \A S \in SUBSET Names, l \in BOOLEAN :
         [written EXCEPT !.described = S, !.legal = l] \in Writings
  BY DEF Writings
<1>2. \A S \in SUBSET Names, l \in BOOLEAN :
         [written EXCEPT !.declared = S, !.legal = l] \in Writings
  BY DEF Writings
<1>3. \A S, D \in SUBSET Names, l \in BOOLEAN :
         [written EXCEPT !.legal = l, !.history = S, !.deep = D] \in Writings
  BY DEF Writings
<1>4. \A l \in BOOLEAN : [written EXCEPT !.legal = l] \in Writings
  BY DEF Writings
<1>5. \A l \in BOOLEAN : [written EXCEPT !.targets = l] \in Writings
  BY DEF Writings
<1>6. \A R \in SUBSET [ref : References, name : Names, in : Names, from : Names] :
         [written EXCEPT !.refs = R] \in Writings
  BY DEF Writings
<1>7. /\ written.legal \in BOOLEAN /\ written.targets \in BOOLEAN
      /\ written.history \subseteq Names /\ written.deep \subseteq Names
      /\ written.described \subseteq Names /\ written.declared \subseteq Names
  BY DEF Writings
<1> QED
  BY <1>1, <1>2, <1>3, <1>4, <1>5, <1>6, <1>7

LEMMA WroteTyped ==
    ASSUME written \in Writings, NEW sy \in Names, NEW h, NEW legal \in BOOLEAN,
           Wrote(sy, h, legal)
    PROVE  written' \in Writings /\ written'.targets = written.targets
<1> DEFINE H == IF h # "none" THEN written.history \cup {sy} ELSE written.history
           D == IF h = "deep" THEN written.deep \cup {sy} ELSE written.deep
           l == written.legal /\ legal
<1>1. written' = [written EXCEPT !.legal = l, !.history = H, !.deep = D]
  BY DEF Wrote
<1>2. H \in SUBSET Names /\ D \in SUBSET Names /\ l \in BOOLEAN
  BY WrittenTyped
<1> HIDE DEF H, D, l
<1>3. written' \in Writings
  BY <1>1, <1>2, WrittenTyped
<1>4. written'.targets = written.targets
  BY <1>1 DEF Writings
<1> QED
  BY <1>3, <1>4

LEMMA DescribedTyped ==
    ASSUME written \in Writings, sy_parent \in Names, NEW id \in Identifiers, Described(id)
    PROVE  written' \in Writings /\ written'.targets = written.targets
<1> DEFINE name == NameIn(sy_parent, id)
           S == written.described \cup {name}
           l == /\ written.legal
                /\ name \notin written.described \cup {RootName}
                /\ sy_parent = RootName \/ name \in written.declared
<1>1. written' = [written EXCEPT !.described = S, !.legal = l]
  BY DEF Described, NameIn
<1>2. name \in Names
  BY AppendName, NilIsNoName DEF NameIn
<1>3. S \in SUBSET Names /\ l \in BOOLEAN
  BY <1>2, WrittenTyped
<1> HIDE DEF S, l, name
<1>4. written' \in Writings
  BY <1>1, <1>3, WrittenTyped
<1>5. written'.targets = written.targets
  BY <1>1 DEF Writings
<1> QED
  BY <1>4, <1>5

-----------------------------------------------------------------------------
(* The productions preserve the invariant, one by one. *)

LEMMA PushedItems ==
    ASSUME NEW s \in Seq(Items), NEW items \in Seq(Items)
    PROVE  /\ s \o items \in Seq(Items) /\ Len(s \o items) = Len(s) + Len(items)
           /\ \A k \in 1 .. Len(s) : (s \o items)[k] = s[k]
           /\ \A i \in 1 .. Len(items) : (s \o items)[Len(s) + i] = items[i]
<1>1. /\ s \o items \in Seq(Items) /\ Len(s \o items) = Len(s) + Len(items)
      /\ \A k \in 1 .. Len(s) + Len(items) :
            (s \o items)[k] = IF k <= Len(s) THEN s[k] ELSE items[k - Len(s)]
  BY ConcatProperties, Zenon
<1>2. Len(s) \in Nat /\ Len(items) \in Nat
  BY LenProperties
<1> DEFINE r == s \o items
<1> HIDE DEF r
<1>3. \A k \in 1 .. Len(s) : r[k] = s[k]
  BY <1>1, <1>2 DEF r
<1>4. ASSUME NEW i \in 1 .. Len(items)
      PROVE  r[Len(s) + i] = items[i]
  <2>1. Len(s) + i \in 1 .. Len(s) + Len(items) /\ ~(Len(s) + i <= Len(s)) /\ (Len(s) + i) - Len(s) = i
    BY <1>2
  <2> QED
    BY <1>1, <2>1 DEF r
<1> QED
  BY <1>1, <1>3, <1>4 DEF r

LEMMA DroppedItems ==
    ASSUME stack \in Seq(Items), NEW n \in 0 .. Len(stack)
    PROVE  /\ Dropped(n) \in Seq(Items) /\ Len(Dropped(n)) = Len(stack) - n
           /\ \A k \in 1 .. Len(stack) - n : Dropped(n)[k] = stack[k]
<1>1. Len(stack) \in Nat /\ Len(stack) - n \in Nat /\ \A i \in 1 .. Len(stack) - n : stack[i] \in Items
  BY LenProperties, ElementOfSeq
<1>2. /\ SubSeq(stack, 1, Len(stack) - n) \in Seq(Items)
      /\ Len(SubSeq(stack, 1, Len(stack) - n)) =
            IF 1 <= Len(stack) - n THEN Len(stack) - n - 1 + 1 ELSE 0
      /\ \A i \in 1 .. Len(stack) - n - 1 + 1 :
            SubSeq(stack, 1, Len(stack) - n)[i] = stack[1 + i - 1]
  BY <1>1, SubSeqProperties
<1> QED
  BY <1>1, <1>2 DEF Dropped

LEMMA InitInv == Init => ParserInv
<1> SUFFICES ASSUME Init PROVE ParserInv
  OBVIOUS
<1>1. TypeOK
  <2>1. desc \in [type : {"NONE", "ROOT"} \cup STATES, children : Nat, block : BOOLEAN]
    BY DEF Init
  <2>2. DOMAIN table = {} /\ table \in [DOMAIN table -> Seq(AllInfos)]
    BY DEF Init
  <2>3. written \in Writings
    BY DEF Init, Writings
  <2>4. ids \in [condition : Nat, target : Nat, action : Nat]
    BY DEF Init
  <2>5. budget \in TextTypes
    BY IdentAssumption DEF Init
  <2>6. /\ stack \in Seq(Items) /\ states_ \in Seq(Names) /\ events_ \in Seq(Names)
        /\ transitions_ \in Seq(Transitions)
    BY EmptySeq DEF Init
  <2> QED
    BY <2>1, <2>2, <2>3, <2>4, <2>5, <2>6 DEF Init, TypeOK
<1>2. Nested(table, ScopeParents)
  BY DEF Init, Nested
<1>3. StackShape
  BY DEF Init, StackShape, Inside, InDescribed, NilIsNoName
<1> QED
  BY <1>1, <1>2, <1>3 DEF ParserInv, ScopesNested

LEMMA UndefinedInv ==
    ASSUME ParserInv, Undefined
    PROVE  ParserInv'
<1>1. TypeOK' /\ at' = "undefined"
  BY InvFacts DEF Undefined, TypeOK
<1>2. StackShape'
  BY <1>1, InvFacts DEF Undefined, StackShape, Inside, InDescribed
<1> QED
  BY <1>1, <1>2, InvFromFacts

LEMMA SpecEndInv ==
    ASSUME ParserInv, spec_end
    PROVE  ParserInv'
<1>0. TypeOK /\ StackShape /\ scope \in Nat /\ Nested(table, ScopeParents)
  BY InvFacts DEF spec_end, Scoped
<1>1. /\ Len(stack) = scope + 1 /\ stack \in Seq(Items) /\ stack' \in Seq(Items)
      /\ IF desc.type = "STATE" THEN Len(stack') = scope ELSE stack' = stack
      /\ \A k \in 1 .. scope : stack'[k] = stack[k]
  <2>1. Len(stack) = scope + 1 /\ stack \in Seq(Items) /\ 1 \in 0 .. Len(stack)
    BY <1>0 DEF spec_end, StackShape, TypeOK
  <2>2. stack' = IF desc.type = "STATE" THEN Dropped(1) ELSE stack
    BY DEF spec_end
  <2> QED
    BY <1>0, <2>1, <2>2, DroppedItems
<1>2. desc' \in [type : {"NONE", "ROOT"} \cup STATES, children : Nat, block : BOOLEAN]
      /\ desc'.type = desc.type
  BY <1>0, DescTyped DEF spec_end, TypeOK
<1>3. TypeOK'
  BY <1>0, <1>1, <1>2 DEF spec_end, TypeOK
<1>4. StackShape'
  BY <1>0, <1>1, <1>2 DEF spec_end, StackShape, Inside, InDescribed, NamePtr, STATES
<1>5. ScopeParents' = ScopeParents
  <2>1. Inside /\ Inside' /\ scope' = scope /\ sy_parent' = sy_parent
    BY DEF Inside, spec_end
  <2>2. (InHeader' <=> InHeader) /\ (InHeader => Header' = Header)
    BY <1>0, <1>1, <1>2, <2>1 DEF InHeader, Header, spec_end, StackShape, InDescribed, STATES, PARENT
  <2> QED
    BY <1>1, <2>1, <2>2, ParentsKept
<1> QED
  BY <1>0, <1>3, <1>4, <1>5, InvFromFacts DEF spec_end

LEMMA TransitionBeginInv ==
    ASSUME ParserInv, transition_begin
    PROVE  ParserInv'
<1>0. TypeOK /\ StackShape /\ scope \in Nat /\ Nested(table, ScopeParents)
  BY InvFacts DEF transition_begin, Scoped
<1>1. /\ Len(stack) = scope + 1 /\ stack \in Seq(Items) /\ stack' \in Seq(Items)
      /\ Len(stack') = scope + 2 /\ stack'[scope + 2] = Num(0)
      /\ \A k \in 1 .. scope + 1 : stack'[k] = stack[k]
  <2>1. Len(stack) = scope + 1 /\ stack \in Seq(Items)
    BY <1>0 DEF transition_begin, StackShape, TypeOK
  <2>2. <<Num(0)>> \in Seq(Items) /\ Len(<<Num(0)>>) = 1 /\ <<Num(0)>>[1] = Num(0)
        /\ 1 \in 1 .. Len(<<Num(0)>>)
    BY ItemsTyped
  <2>3. stack' = stack \o <<Num(0)>>
    BY DEF transition_begin, Push, NoEventYet
  <2> QED
    BY <1>0, <2>1, <2>2, <2>3, PushedItems
<1>2. desc' \in [type : {"NONE", "ROOT"} \cup STATES, children : Nat, block : BOOLEAN]
      /\ desc'.type = desc.type
  BY <1>0, DescTyped DEF transition_begin, TypeOK
<1>3. TypeOK'
  <2>1. budget' \in TextTypes
    BY <1>0, BudgetTyped DEF transition_begin, TypeOK
  <2> QED
    BY <1>0, <1>1, <1>2, <2>1 DEF transition_begin, TypeOK
<1>4. StackShape'
  BY <1>0, <1>1, <1>2 DEF transition_begin, StackShape, Inside, InDescribed, NamePtr, STATES
<1>5. ScopeParents' = ScopeParents
  <2>1. Inside /\ Inside' /\ scope' = scope /\ sy_parent' = sy_parent
    BY DEF Inside, transition_begin
  <2>2. (InHeader' <=> InHeader) /\ (InHeader => Header' = Header)
    BY <1>0, <1>1, <1>2, <2>1 DEF InHeader, Header, transition_begin
  <2> QED
    BY <1>0, <1>1, <2>1, <2>2, ParentsKept
<1> QED
  BY <1>0, <1>3, <1>4, <1>5, InvFromFacts DEF transition_begin

LEMMA EventErrorInv ==
    ASSUME ParserInv, event_error
    PROVE  ParserInv'
<1>0. TypeOK /\ StackShape /\ scope \in Nat /\ Nested(table, ScopeParents)
  BY InvFacts DEF event_error, Scoped
<1>1. TypeOK'
  BY <1>0 DEF event_error, TypeOK
<1>2. StackShape'
  <2>1. 0 \in 0 .. Len(stack) /\ Len(stack) = scope + 2 + 2 * 0 /\ CountedEvents(0)'
    BY <1>0, LenProperties DEF event_error, StackShape, CountedEvents, EventsOnStack, TypeOK
  <2> QED
    BY <1>0, <2>1 DEF event_error, StackShape, Inside, InDescribed
<1>3. ScopeParents' = ScopeParents
  <2>1. Inside /\ Inside' /\ scope' = scope /\ sy_parent' = sy_parent
    BY DEF Inside, event_error
  <2>2. (InHeader' <=> InHeader) /\ (InHeader => Header' = Header)
    BY <2>1 DEF InHeader, Header, event_error
  <2> QED
    BY <1>0, <2>1, <2>2, ParentsKept DEF event_error
<1> QED
  BY <1>0, <1>1, <1>2, <1>3, InvFromFacts DEF event_error

LEMMA TargetErrorInv ==
    ASSUME ParserInv, target_error
    PROVE  ParserInv'
<1>0. TypeOK /\ StackShape /\ scope \in Nat /\ Nested(table, ScopeParents)
  BY InvFacts DEF target_error, Scoped
<1>1. desc' \in [type : {"NONE", "ROOT"} \cup STATES, children : Nat, block : BOOLEAN]
      /\ desc'.type = desc.type
  BY <1>0, DescTyped DEF target_error, TypeOK
<1>2. written' \in Writings /\ written'.targets = FALSE
  <2>1. written \in Writings /\ written' = [written EXCEPT !.targets = FALSE]
    BY <1>0 DEF target_error, TypeOK
  <2>2. written' \in Writings
    BY <2>1, WrittenTyped
  <2> QED
    BY <2>1, <2>2 DEF Writings
<1>3. TypeOK'
  BY <1>0, <1>1, <1>2 DEF target_error, TypeOK
<1>4. StackShape'
  BY <1>0, <1>1, <1>2 DEF target_error, StackShape, Inside, InDescribed, CountedEvents, EventsOnStack
<1>5. ScopeParents' = ScopeParents
  <2>1. Inside /\ Inside' /\ scope' = scope /\ sy_parent' = sy_parent
    BY DEF Inside, target_error
  <2>2. (InHeader' <=> InHeader) /\ (InHeader => Header' = Header)
    BY <1>1, <2>1 DEF InHeader, Header, target_error
  <2> QED
    BY <1>0, <2>1, <2>2, ParentsKept DEF target_error
<1> QED
  BY <1>0, <1>3, <1>4, <1>5, InvFromFacts DEF target_error

LEMMA ScopedOf ==
    ASSUME ParserInv, at # "undefined"
    PROVE  /\ TypeOK /\ StackShape /\ scope \in Nat /\ stack \in Seq(Items) /\ Len(stack) \in Nat
           /\ Scoped(table, ScopeParents) /\ DOMAIN ScopeParents \subseteq Nat \ {0, 1}
  BY InvFacts, LenProperties DEF TypeOK

LEMMA ScopedInv ==
    ASSUME TypeOK', StackShape', NEW ps, ScopeParents' = ps, Scoped(table', ps)
    PROVE  ParserInv'
  BY InvFromFacts DEF Scoped

LEMMA ChsmDescriptionInv ==
    ASSUME ParserInv, NEW h \in budget.histories, NEW d \in BOOLEAN, NEW p \in BOOLEAN,
           chsm_description(h, d, p)
    PROVE  ParserInv'
<1>0. /\ TypeOK /\ StackShape /\ scope \in Nat /\ stack \in Seq(Items)
      /\ Scoped(table, ScopeParents) /\ at = "chsm" /\ scope = 0 /\ stack = <<>>
  BY ScopedOf DEF chsm_description, StackShape
<1>1. RootName \in Names /\ <<Machine>> \in Names
  BY NilIsNoName
<1>2. stack' \in Seq(Items) /\ Len(stack') = 1 /\ stack'[1] = Ptr(RootName)
  <2>1. stack' = <<Ptr(RootName)>>
    BY <1>0 DEF chsm_description, Push
  <2> QED
    BY <2>1, <1>1, ItemsTyped
<1>3. Scoped(table', ScopeParents)
  <2>1. Scoped(Touch(table, RootName), ScopeParents)
    BY <1>0, <1>1, TouchScoped
  <2>2. chsm_info \in AllInfos /\ chsm_info.type # "CHILD"
    BY NewInfos, KindsAreInfos DEF chsm_info
  <2>3. Scoped(insert_info(Touch(table, RootName), <<Machine>>, chsm_info), ScopeParents)
    BY <2>1, <2>2, <1>1, InsertOuter
  <2>4. cluster_info(NIL, next_no_, h # "none") \in AllInfos
        /\ cluster_info(NIL, next_no_, h # "none").type # "CHILD"
    <3>1. next_no_ \in Nat /\ (h # "none") \in BOOLEAN /\ "CLUSTER" \in STATES
      BY <1>0 DEF TypeOK, STATES
    <3> QED
      BY <3>1, NewInfos, KindsAreInfos DEF cluster_info, state_info
  <2> QED
    BY <2>3, <2>4, <1>1, InsertOuter DEF chsm_description
<1>4. ScopeParents' = ScopeParents
  <2>1. scope' = 0 /\ ~InHeader /\ ~InHeader'
    BY <1>0 DEF chsm_description, InHeader, Inside, PARENT, TypeOK
  <2>2. 2 .. 0 = {}
    OBVIOUS
  <2> QED
    BY <1>0, <2>1, <2>2 DEF ScopeParents
<1>5. desc' \in [type : {"NONE", "ROOT"} \cup STATES, children : Nat, block : BOOLEAN]
      /\ desc'.type = "ROOT"
  BY <1>0 DEF chsm_description, TypeOK
<1>6. written' \in Writings /\ written'.targets = written.targets
  <2>1. written \in Writings /\ (p => d) \in BOOLEAN /\ Wrote(RootName, h, p => d)
    BY <1>0 DEF chsm_description, TypeOK
  <2> QED
    BY <2>1, <1>1, WroteTyped
<1>7. TypeOK'
  <2>1. next_no_' \in Nat /\ sy_outer_deep_' \in Names \cup {NIL}
    BY <1>0, <1>1 DEF chsm_description, TypeOK, Deepen
  <2> QED
    BY <1>0, <1>2, <1>3, <1>5, <1>6, <2>1 DEF chsm_description, TypeOK, Scoped, Typed
<1>8. StackShape'
  <2>1. NamePtr(stack'[1])
    BY <1>1, <1>2 DEF NamePtr, Ptr
  <2>2. sy_parent = NIL /\ (~written.targets => errors)
    BY <1>0 DEF StackShape
  <2>3. written.targets
    BY <1>0 DEF StackShape
  <2> QED
    BY <1>0, <1>2, <1>5, <1>6, <2>1, <2>2, <2>3
       DEF chsm_description, StackShape, Inside, InDescribed, NamePtr
<1> QED
  BY <1>3, <1>4, <1>7, <1>8, ScopedInv

LEMMA BodyBeginInv ==
    ASSUME ParserInv, body_begin
    PROVE  ParserInv'
<1>0. /\ TypeOK /\ StackShape /\ scope \in Nat /\ stack \in Seq(Items) /\ Len(stack) \in Nat
      /\ Scoped(table, ScopeParents) /\ at = "is"
  BY ScopedOf DEF body_begin
<1>1. Len(stack) = scope + 1 /\ NamePtr(stack[scope + 1]) /\ sy_parent' = stack[scope + 1].val
      /\ sy_parent' \in Names
  BY <1>0 DEF body_begin, StackShape, InDescribed, Peek, NamePtr
<1>2. /\ stack' \in Seq(Items) /\ Len(stack') = scope + 1
      /\ \A k \in 1 .. scope : stack'[k] = stack[k]
      /\ stack'[scope + 1] = Ptr(sy_parent)
  <2>1. Dropped(1) \in Seq(Items) /\ Len(Dropped(1)) = scope
        /\ \A k \in 1 .. scope : Dropped(1)[k] = stack[k]
    BY <1>0, <1>1, DroppedItems
  <2>2. Ptr(sy_parent) \in Items
    BY <1>0, ItemsTyped DEF TypeOK
  <2>3. stack' = Append(Dropped(1), Ptr(sy_parent))
    BY DEF body_begin
  <2> HIDE DEF Dropped
  <2> QED
    BY <2>1, <2>2, <2>3, <1>0, AppendProperties
<1>3. TypeOK'
  BY <1>0, <1>1, <1>2 DEF body_begin, TypeOK
<1>4. StackShape'
  <2>1. NIL \notin Names
    BY NilIsNoName
  <2>2. ASSUME NEW k \in 1 .. scope + 1
        PROVE  stack'[k].tag = "ptr" /\ (stack'[k].val = NIL <=> k = 1)
    <3>1. CASE k \in 1 .. scope
      BY <3>1, <1>0, <1>2 DEF StackShape, Inside
    <3>2. CASE k = scope + 1
      <4>1. stack'[k].tag = "ptr" /\ stack'[k].val = sy_parent
        BY <3>2, <1>2 DEF Ptr
      <4>2. sy_parent = NIL <=> scope = 0
        BY <1>0 DEF StackShape, Inside
      <4> QED
        BY <3>2, <4>1, <4>2, <1>0
    <3> QED
      BY <3>1, <3>2, <1>0
  <2> QED
    BY <1>0, <1>1, <1>2, <2>1, <2>2 DEF body_begin, StackShape, Inside, InDescribed
<1>5. ScopeParents' = ScopeParents
  <2>1. scope' = scope + 1 /\ ~InHeader'
    BY DEF body_begin, InHeader
  <2>2. desc.type \in PARENT \/ (desc.type = "ROOT" /\ scope = 0)
    BY <1>0 DEF StackShape, InDescribed, STATES, PARENT
  <2>3. CASE desc.type \in PARENT
    <3>1. InHeader
      BY <1>0, <2>3 DEF InHeader, Inside
    <3>2. Header = sy_parent'
      BY <1>0, <1>1 DEF Header
    <3>3. ASSUME NEW k \in 2 .. scope + 1
          PROVE  OpenParents'[k] = IF k <= scope THEN OpenParents[k] ELSE Header
      <4>1. CASE k < scope
        BY <4>1, <1>0, <1>2, <2>1 DEF OpenParents
      <4>2. CASE k = scope
        BY <4>2, <1>0, <1>2, <2>1 DEF OpenParents, Ptr
      <4>3. CASE k = scope + 1
        BY <4>3, <1>0, <3>2, <2>1 DEF OpenParents
      <4> QED
        BY <4>1, <4>2, <4>3, <1>0
    <3> QED
      BY <1>0, <2>1, <3>1, <3>3 DEF ScopeParents
  <2>4. CASE desc.type = "ROOT" /\ scope = 0
    <3>1. ~InHeader /\ 2 .. 0 = {} /\ 2 .. 1 = {}
      BY <2>4 DEF InHeader, PARENT
    <3> QED
      BY <2>1, <2>4, <3>1 DEF ScopeParents
  <2> QED
    BY <2>2, <2>3, <2>4
<1> QED
  BY <1>0, <1>3, <1>4, <1>5, ScopedInv DEF body_begin

LEMMA BodyEndInv ==
    ASSUME ParserInv, body_end
    PROVE  ParserInv'
<1>0. /\ TypeOK /\ StackShape /\ scope \in Nat /\ stack \in Seq(Items) /\ Len(stack) \in Nat
      /\ Scoped(table, ScopeParents) /\ at = "description"
  BY ScopedOf DEF body_end
<1>1. Len(stack) = scope /\ scope > 0 /\ stack[scope].tag = "ptr"
      /\ (stack[scope].val = NIL <=> scope = 1) /\ Peek(0) = stack[scope]
  BY <1>0 DEF StackShape, Inside, Peek
<1>2. /\ stack' \in Seq(Items) /\ Len(stack') = scope - 1
      /\ \A k \in 1 .. scope - 1 : stack'[k] = stack[k]
  BY <1>0, <1>1, DroppedItems DEF body_end
<1>3. /\ at' = IF scope = 1 THEN "end" ELSE "description"
      /\ scope' = IF scope = 1 THEN 1 ELSE scope - 1
      /\ sy_parent' = stack[scope].val
  BY <1>0, <1>1 DEF body_end
<1>4. sy_parent' \in Names \cup {NIL} /\ sy_outer_deep_' \in Names \cup {NIL}
  <2>1. stack[scope] \in Items
    BY <1>0, <1>1, ElementOfSeq
  <2> QED
    BY <1>0, <1>1, <1>3, <2>1, ItemsTyped DEF body_end, TypeOK
<1>5. Scoped(table', ScopeParents')
  <2>1. ~InHeader /\ ~InHeader' /\ DOMAIN ScopeParents = 2 .. scope
    BY <1>0, <1>3 DEF InHeader, Inside, ScopeParents
  <2>2. CASE scope = 1
    <3>1. table' = table /\ scope' = 1
      BY <2>2, <1>3 DEF body_end, close_scope
    <3>2. ScopeParents' = ScopeParents
      <4>1. 2 .. 1 = {}
        OBVIOUS
      <4> QED
        BY <2>1, <2>2, <3>1, <4>1 DEF ScopeParents
    <3> QED
      BY <1>0, <3>1, <3>2
  <2>3. CASE scope # 1
    <3>1. scope > 1 /\ scope' = scope - 1 /\ table' = close_scope(table, scope)
      BY <1>0, <1>1, <1>3, <2>3 DEF body_end
    <3>2. DOMAIN ScopeParents' = 2 .. scope - 1
      BY <2>1, <3>1 DEF ScopeParents
    <3>3. ASSUME NEW k \in 2 .. scope - 1
          PROVE  ScopeParents'[k] = ScopeParents[k]
      <4>1. OpenParents'[k] = OpenParents[k]
        <5>1. CASE k < scope - 1
          BY <5>1, <1>0, <1>2, <3>1 DEF OpenParents
        <5>2. CASE k = scope - 1
          BY <5>2, <1>0, <1>3, <3>1 DEF OpenParents
        <5> QED
          BY <5>1, <5>2, <1>0
      <4> QED
        BY <4>1, <2>1, <3>1, <1>0 DEF ScopeParents
    <3>4. Typed(close_scope(table, scope)) /\ Nested(close_scope(table, scope), ScopeParents')
      BY <1>0, <2>1, <3>1, <3>2, <3>3, CloseNested DEF Scoped
    <3> QED
      BY <3>1, <3>4 DEF Scoped
  <2> QED
    BY <2>2, <2>3
<1>8. desc' \in [type : {"NONE", "ROOT"} \cup STATES, children : Nat, block : BOOLEAN]
      /\ desc'.type = desc.type /\ desc'.block = FALSE
  <2>1. desc \in [type : {"NONE", "ROOT"} \cup STATES, children : Nat, block : BOOLEAN]
        /\ desc' = [desc EXCEPT !.block = FALSE]
    BY <1>0 DEF body_end, TypeOK
  <2> QED
    BY <2>1
<1>6. TypeOK'
  BY <1>0, <1>1, <1>2, <1>3, <1>4, <1>5, <1>8 DEF body_end, TypeOK, Scoped, Typed
<1>7. StackShape'
  <2>1. at' \in {"end", "description"} /\ written' = written /\ errors' = errors /\ written.targets
    BY <1>0, <1>3 DEF body_end, StackShape
  <2>2. CASE scope = 1
    BY <2>1, <2>2, <1>0, <1>2, <1>3, <1>8, EmptySeq, LenProperties DEF StackShape, Inside, InDescribed
  <2>3. CASE scope # 1
    <3>1. scope' = scope - 1 /\ at' = "description" /\ scope' > 0 /\ sy_parent' # NIL
      BY <2>3, <1>0, <1>1, <1>3
    <3> QED
      BY <2>1, <3>1, <1>0, <1>2, <1>8 DEF StackShape, Inside, InDescribed
  <2> QED
    BY <2>2, <2>3
<1> QED
  BY <1>5, <1>6, <1>7, ScopedInv

\* Above "description" lies nothing, and the parent is known.
LEMMA InBody ==
    ASSUME ParserInv, at = "description"
    PROVE  /\ Len(stack) = scope /\ scope > 0 /\ sy_parent \in Names /\ ~InHeader
           /\ written.targets
  BY InvFacts DEF StackShape, Inside, InHeader, TypeOK

LEMMA PushedTwo ==
    ASSUME NEW s \in Seq(Items), NEW a \in Items, NEW b \in Items
    PROVE  /\ s \o <<a, b>> \in Seq(Items) /\ Len(s \o <<a, b>>) = Len(s) + 2
           /\ \A k \in 1 .. Len(s) : (s \o <<a, b>>)[k] = s[k]
           /\ (s \o <<a, b>>)[Len(s) + 1] = a /\ (s \o <<a, b>>)[Len(s) + 2] = b
<1> DEFINE q == <<a, b>>
<1>1. q \in Seq(Items) /\ Len(q) = 2 /\ q[1] = a /\ q[2] = b
  OBVIOUS
<1> HIDE DEF q
<1>2. 1 \in 1 .. Len(q) /\ 2 \in 1 .. Len(q)
  BY <1>1
<1>3. /\ s \o q \in Seq(Items) /\ Len(s \o q) = Len(s) + 2
      /\ \A k \in 1 .. Len(s) : (s \o q)[k] = s[k]
      /\ (s \o q)[Len(s) + 1] = a /\ (s \o q)[Len(s) + 2] = b
  <2>1. /\ s \o q \in Seq(Items) /\ Len(s \o q) = Len(s) + Len(q)
        /\ \A k \in 1 .. Len(s) : (s \o q)[k] = s[k]
        /\ \A i \in 1 .. Len(q) : (s \o q)[Len(s) + i] = q[i]
    BY <1>1, PushedItems, Zenon
  <2> QED
    BY <1>1, <1>2, <2>1, Zenon
<1> QED
  BY <1>3 DEF q

LEMMA PushedOne ==
    ASSUME NEW s \in Seq(Items), NEW a \in Items
    PROVE  /\ s \o <<a>> \in Seq(Items) /\ Len(s \o <<a>>) = Len(s) + 1
           /\ \A k \in 1 .. Len(s) : (s \o <<a>>)[k] = s[k]
           /\ (s \o <<a>>)[Len(s) + 1] = a
           /\ Append(s, a) = s \o <<a>>
<1> DEFINE q == <<a>>
<1>1. q \in Seq(Items) /\ Len(q) = 1 /\ q[1] = a
  OBVIOUS
<1> HIDE DEF q
<1>2. 1 \in 1 .. Len(q)
  BY <1>1
<1>3. /\ s \o q \in Seq(Items) /\ Len(s \o q) = Len(s) + 1
      /\ \A k \in 1 .. Len(s) : (s \o q)[k] = s[k]
      /\ (s \o q)[Len(s) + 1] = a
  <2>1. /\ s \o q \in Seq(Items) /\ Len(s \o q) = Len(s) + Len(q)
        /\ \A k \in 1 .. Len(s) : (s \o q)[k] = s[k]
        /\ \A i \in 1 .. Len(q) : (s \o q)[Len(s) + i] = q[i]
    BY <1>1, PushedItems, Zenon
  <2> QED
    BY <1>1, <1>2, <2>1, Zenon
<1>4. Append(s, a) = s \o q
  BY AppendIsConcat DEF q
<1> QED
  BY <1>3, <1>4 DEF q

LEMMA DefineScoped ==
    ASSUME NEW ps, NEW t, Scoped(t, ps), NEW n \in Names, NEW si \in StateInfos,
           next_no_ \in Nat, Define(t, n, si)
    PROVE  Scoped(table', ps) /\ next_no_' \in Nat
<1>1. si \in AllInfos /\ si.type # "CHILD"
  BY KindsAreInfos, InfoKinds DEF STATES
<1> QED
  BY <1>1, InsertOuter DEF Define

LEMMA StateDescriptionInv ==
    ASSUME ParserInv, NEW id \in budget.idents, state_description(id)
    PROVE  ParserInv'
<1> DEFINE d == state_declaration(id)
           si == state_info("STATE", sy_parent, next_no_, FALSE)
<1>0. /\ TypeOK /\ StackShape /\ scope \in Nat /\ stack \in Seq(Items) /\ Len(stack) \in Nat
      /\ Scoped(table, ScopeParents) /\ at = "description" /\ id \in Identifiers
  BY ScopedOf, BudgetTyped DEF state_description, Describe, TypeOK
<1>1. /\ Len(stack) = scope /\ scope > 0 /\ sy_parent \in Names /\ ~InHeader /\ written.targets
  BY <1>0, InBody
<1>2. d.name \in Names /\ Scoped(d.table, ScopeParents) /\ d.errors \in BOOLEAN
      /\ d.states \in Seq(Names)
  BY <1>0, <1>1, StateDeclarationScoped, StateDeclarationIs DEF TypeOK
<1>3. /\ Define(d.table, d.name, si) /\ states_' = d.states /\ stack' = stack \o <<Ptr(d.name)>>
      /\ errors' = (d.errors \/ ~not_exists(d.table, d.name, ANY))
  BY DEF state_description, Push
<1>4. si \in StateInfos
  BY <1>0, <1>1, NewInfos DEF TypeOK, STATES
<1> HIDE DEF d, si
<1>5. Scoped(table', ScopeParents) /\ next_no_' \in Nat
  BY <1>0, <1>2, <1>3, <1>4, DefineScoped DEF TypeOK
<1>6. /\ stack' \in Seq(Items) /\ Len(stack') = scope + 1 /\ stack'[scope + 1] = Ptr(d.name)
      /\ \A k \in 1 .. scope : stack'[k] = stack[k]
  BY <1>0, <1>1, <1>2, <1>3, ItemsTyped, PushedOne
<1>7. written' \in Writings /\ written'.targets = written.targets
  BY <1>0, <1>1, DescribedTyped DEF state_description, TypeOK
<1>8. budget' \in TextTypes
  BY <1>0, BudgetTyped DEF state_description, Describe, TypeOK
<1>9. /\ desc' \in [type : {"NONE", "ROOT"} \cup STATES, children : Nat, block : BOOLEAN]
      /\ desc'.type = "STATE"
  BY DEF state_description, STATES
<1>10. TypeOK'
  <2>1. DOMAIN table' \subseteq Names /\ table' \in [DOMAIN table' -> Seq(AllInfos)]
    BY <1>5 DEF Scoped, Typed
  <2> QED
    BY <1>0, <1>2, <1>3, <1>5, <1>6, <1>7, <1>8, <1>9, <2>1 DEF state_description, TypeOK
<1>11. StackShape'
  <2>1. NamePtr(stack'[scope + 1])
    BY <1>2, <1>6 DEF NamePtr, Ptr
  <2> QED
    BY <1>0, <1>1, <1>6, <1>7, <1>9, <2>1
       DEF state_description, StackShape, Inside, InDescribed, NamePtr, STATES
<1>12. ScopeParents' = ScopeParents
  <2>1. ~InHeader'
    BY <1>9 DEF InHeader, PARENT
  <2> QED
    BY <1>0, <1>1, <1>6, <2>1, ParentsKept DEF state_description, Inside
<1> QED
  BY <1>5, <1>10, <1>11, <1>12, ScopedInv

\* A header brings the scope of its children, which has no infos yet.
LEMMA MoreParents ==
    ASSUME NEW t, NEW ps, Scoped(t, ps), NEW qs, DOMAIN ps \subseteq DOMAIN qs,
           \A k \in DOMAIN ps : qs[k] = ps[k]
    PROVE  Scoped(t, qs)
<1>1. \A si : InScope(si, ps) => InScope(si, qs)
  BY DEF InScope
<1> QED
  BY <1>1 DEF Scoped, Nested

LEMMA ParentDescriptionInv ==
    ASSUME ParserInv, NEW id \in budget.idents, NEW type \in budget.parents,
           parent_description(id, type)
    PROVE  ParserInv'
<1> DEFINE d == state_declaration(id)
<1>0. /\ TypeOK /\ StackShape /\ scope \in Nat /\ stack \in Seq(Items) /\ Len(stack) \in Nat
      /\ Scoped(table, ScopeParents) /\ at = "description" /\ id \in Identifiers
      /\ type \in PARENT
  BY ScopedOf, BudgetTyped DEF parent_description, Describe, TypeOK
<1>1. /\ Len(stack) = scope /\ scope > 0 /\ sy_parent \in Names /\ ~InHeader /\ written.targets
  BY <1>0, InBody
<1>2. d.name \in Names /\ Scoped(d.table, ScopeParents) /\ d.errors \in BOOLEAN
      /\ d.states \in Seq(Names)
  BY <1>0, <1>1, StateDeclarationScoped, StateDeclarationIs DEF TypeOK
<1>3. /\ table' = d.table /\ states_' = d.states /\ stack' = stack \o <<Ptr(NIL), Ptr(d.name)>>
      /\ errors' = d.errors
  BY DEF parent_description, Push
<1> HIDE DEF d
<1>4. /\ stack' \in Seq(Items) /\ Len(stack') = scope + 2
      /\ stack'[scope + 1] = Ptr(NIL) /\ stack'[scope + 2] = Ptr(d.name)
      /\ \A k \in 1 .. scope : stack'[k] = stack[k]
  BY <1>0, <1>1, <1>2, <1>3, ItemsTyped, PushedTwo
<1>5. written' \in Writings /\ written'.targets = written.targets
  BY <1>0, <1>1, DescribedTyped DEF parent_description, TypeOK
<1>6. budget' \in TextTypes
  BY <1>0, BudgetTyped DEF parent_description, Describe, TypeOK
<1>7. /\ desc' \in [type : {"NONE", "ROOT"} \cup STATES, children : Nat, block : BOOLEAN]
      /\ desc'.type = type
  BY <1>0 DEF parent_description, STATES, PARENT
<1>8. TypeOK'
  <2>1. DOMAIN table' \subseteq Names /\ table' \in [DOMAIN table' -> Seq(AllInfos)]
    BY <1>2, <1>3 DEF Scoped, Typed
  <2> QED
    BY <1>0, <1>2, <1>3, <1>4, <1>5, <1>6, <1>7, <2>1 DEF parent_description, TypeOK
<1>9. StackShape'
  <2>1. NamePtr(stack'[scope + 2]) /\ stack'[scope + 1].tag = "ptr"
    BY <1>2, <1>4 DEF NamePtr, Ptr
  <2> QED
    BY <1>0, <1>1, <1>4, <1>5, <1>7, <2>1
       DEF parent_description, StackShape, Inside, InDescribed, NamePtr
<1>10. Scoped(table', ScopeParents')
  <2>1. InHeader' /\ scope' = scope
    BY <1>0, <1>7 DEF parent_description, InHeader, Inside
  <2>2. DOMAIN ScopeParents' = 2 .. scope + 1 /\ DOMAIN ScopeParents = 2 .. scope
    BY <1>1, <2>1 DEF ScopeParents
  <2>3. \A k \in 1 .. scope : OpenParents'[k] = OpenParents[k]
    BY <1>0, <1>4, <2>1 DEF parent_description, OpenParents
  <2>4. \A k \in 2 .. scope : ScopeParents'[k] = ScopeParents[k] /\ k \in 2 .. scope + 1
    BY <1>0, <1>1, <2>1, <2>3 DEF ScopeParents
  <2> QED
    BY <1>0, <1>2, <1>3, <2>2, <2>4, MoreParents
<1> QED
  BY <1>8, <1>9, <1>10, ScopedInv

LEMMA ChildInv ==
    ASSUME ParserInv, NEW id \in budget.idents, child(id)
    PROVE  ParserInv'
<1> DEFINE parent == stack[scope + 2].val
           named == Touch(table, <<id>>)
<1>0. /\ TypeOK /\ StackShape /\ scope \in Nat /\ stack \in Seq(Items) /\ Len(stack) \in Nat
      /\ Scoped(table, ScopeParents) /\ at = "children" /\ id \in Identifiers
  BY ScopedOf, BudgetTyped DEF child, TypeOK
<1>1. /\ Len(stack) = scope + 2 /\ scope > 0 /\ NamePtr(stack[scope + 2])
      /\ Peek(0).val = parent /\ parent \in Names /\ desc.type \in PARENT /\ written.targets
  BY <1>0 DEF StackShape, Peek, NamePtr
<1>2. InHeader /\ Header = parent
  BY <1>0, <1>1 DEF InHeader, Inside, Header
<1>3. scope + 1 \in DOMAIN ScopeParents /\ ScopeParents[scope + 1] = parent
  BY <1>0, <1>1, <1>2 DEF ScopeParents
<1>4. Scoped(named, ScopeParents) /\ <<id>> \in Names
  BY <1>0, NilIsNoName, TouchScoped
<1> HIDE DEF parent, named
<1>5. Scoped(insert_info(named, <<id>>, child_info(scope, parent)), ScopeParents)
  <2> DEFINE si == child_info(scope, parent)
  <2>1. si \in AllInfos
    BY <1>0, <1>1, NewInfos, KindsAreInfos
  <2>2. InScope(si, ScopeParents)
    BY <1>3 DEF InScope, child_info
  <2> HIDE DEF si
  <2>3. InsertedAt(named, <<id>>, si, insert_info(named, <<id>>, si), Before(Infos(named, <<id>>), si.scope))
    BY <1>4, <2>1, Inserted DEF Scoped
  <2>4. Nested(insert_info(named, <<id>>, si), ScopeParents)
    BY <1>4, <2>1, <2>2, InsertNested DEF Scoped
  <2> QED
    BY <2>3, <2>4 DEF Scoped, InsertedAt, si
<1>6. Scoped(table', ScopeParents) /\ errors' \in BOOLEAN
  <2>1. table' = named \/ table' = insert_info(named, <<id>>, child_info(scope, parent))
    BY <1>1 DEF child, named
  <2>2. errors' \in BOOLEAN
    BY DEF child
  <2> QED
    BY <1>4, <1>5, <2>1, <2>2
<1>7. /\ desc' \in [type : {"NONE", "ROOT"} \cup STATES, children : Nat, block : BOOLEAN]
      /\ desc'.type = desc.type
  BY <1>0, DescTyped DEF child, TypeOK
<1>8. written' \in Writings /\ written'.targets = written.targets
  <2> DEFINE name == Append(parent, id)
             D == written.declared \cup {name}
             l == written.legal /\ name \notin written.declared
  <2>1. written' = [written EXCEPT !.declared = D, !.legal = l] /\ written \in Writings
    BY <1>0, <1>1 DEF child, TypeOK
  <2>2. D \in SUBSET Names /\ l \in BOOLEAN
    BY <1>0, <1>1, <2>1, AppendName, WrittenTyped
  <2> HIDE DEF D, l
  <2>3. written' \in Writings
    BY <2>1, <2>2, WrittenTyped
  <2> QED
    BY <2>1, <2>3 DEF Writings
<1>9. TypeOK'
  <2>1. DOMAIN table' \subseteq Names /\ table' \in [DOMAIN table' -> Seq(AllInfos)]
    BY <1>6 DEF Scoped, Typed
  <2> QED
    BY <1>0, <1>6, <1>7, <1>8, <2>1 DEF child, TypeOK
<1>10. StackShape'
  BY <1>0, <1>1, <1>7, <1>8 DEF child, StackShape, Inside, InDescribed
<1>11. ScopeParents' = ScopeParents
  BY <1>0, <1>2, <1>7, ParentsKept DEF child, InHeader, Inside, Header
<1> QED
  BY <1>6, <1>9, <1>10, <1>11, ScopedInv

LEMMA ParentDeclaredInv ==
    ASSUME ParserInv, NEW h \in budget.histories, parent_declared(h)
    PROVE  ParserInv'
<1> DEFINE sy == stack[scope + 2].val
           si == IF desc.type = "CLUSTER"
                 THEN cluster_info(sy_parent, next_no_, h # "none" \/ Deepen(sy, h) # NIL)
                 ELSE set_info(sy_parent, next_no_)
<1>0. /\ TypeOK /\ StackShape /\ scope \in Nat /\ stack \in Seq(Items) /\ Len(stack) \in Nat
      /\ Scoped(table, ScopeParents) /\ at = "children"
  BY ScopedOf DEF parent_declared
<1>1. /\ Len(stack) = scope + 2 /\ scope > 0 /\ NamePtr(stack[scope + 2])
      /\ Peek(0).val = sy /\ sy \in Names /\ desc.type \in PARENT /\ written.targets
      /\ sy_parent \in Names
  BY <1>0 DEF StackShape, Peek, NamePtr, Inside, TypeOK
<1>2. /\ Define(table, sy, si) /\ sy_outer_deep_' = Deepen(sy, h)
      /\ stack' = Append(Dropped(2), Ptr(sy)) /\ Wrote(sy, h, TRUE)
      /\ errors' = (errors \/ ~not_exists(table, sy, ANY))
  BY <1>1 DEF parent_declared
<1>3. si \in StateInfos
  <2>1. next_no_ \in Nat /\ (h # "none" \/ Deepen(sy, h) # NIL) \in BOOLEAN
        /\ "CLUSTER" \in STATES /\ "SET" \in STATES
    BY <1>0 DEF TypeOK, STATES
  <2> QED
    BY <1>1, <2>1, NewInfos DEF cluster_info, set_info
<1> HIDE DEF sy, si
<1>4. Scoped(table', ScopeParents) /\ next_no_' \in Nat
  BY <1>0, <1>1, <1>2, <1>3, DefineScoped DEF TypeOK
<1>5. /\ stack' \in Seq(Items) /\ Len(stack') = scope + 1 /\ stack'[scope + 1] = Ptr(sy)
      /\ \A k \in 1 .. scope : stack'[k] = stack[k]
  <2>1. Dropped(2) \in Seq(Items) /\ Len(Dropped(2)) = scope
        /\ \A k \in 1 .. scope : Dropped(2)[k] = stack[k]
    <3>1. 2 \in 0 .. Len(stack) /\ Len(stack) - 2 = scope
      BY <1>0, <1>1
    <3> QED
      BY <1>0, <3>1, DroppedItems
  <2>2. Ptr(sy) \in Items
    BY <1>1, ItemsTyped
  <2> DEFINE r == Dropped(2)
  <2> HIDE DEF r
  <2>3. stack' = r \o <<Ptr(sy)>> /\ r \in Seq(Items) /\ Len(r) = scope
        /\ \A k \in 1 .. scope : r[k] = stack[k]
    BY <1>2, <2>1, <2>2, PushedOne DEF r
  <2> QED
    BY <2>2, <2>3, PushedOne
<1>6. written' \in Writings /\ written'.targets = written.targets
  BY <1>0, <1>1, <1>2, WroteTyped DEF TypeOK
<1>7. TypeOK'
  <2>1. DOMAIN table' \subseteq Names /\ table' \in [DOMAIN table' -> Seq(AllInfos)]
    BY <1>4 DEF Scoped, Typed
  <2>2. sy_outer_deep_' \in Names \cup {NIL}
    BY <1>0, <1>1, <1>2 DEF TypeOK, Deepen
  <2> QED
    BY <1>0, <1>2, <1>4, <1>5, <1>6, <2>1, <2>2 DEF parent_declared, TypeOK
<1>8. StackShape'
  <2>1. NamePtr(stack'[scope + 1])
    BY <1>1, <1>5 DEF NamePtr, Ptr
  <2> QED
    BY <1>0, <1>1, <1>5, <1>6, <2>1
       DEF parent_declared, StackShape, Inside, InDescribed, NamePtr, STATES, PARENT
<1>9. ScopeParents' = ScopeParents
  <2>1. InHeader /\ InHeader' /\ Inside /\ Inside' /\ Header = sy /\ Header' = sy
    BY <1>0, <1>1, <1>5 DEF parent_declared, InHeader, Inside, Header, sy, Ptr
  <2> QED
    BY <1>0, <1>5, <2>1, ParentsKept DEF parent_declared
<1> QED
  BY <1>4, <1>7, <1>8, <1>9, ScopedInv

LEMMA EnterExitActionInv ==
    ASSUME ParserInv, NEW kind \in {"enter", "exit"}, enter_exit_action(kind)
    PROVE  ParserInv'
<1> DEFINE sy == Peek(0).val
           si == info(table, sy, 0)
           new == IF kind = "enter" THEN [si EXCEPT !.enterAction = TRUE]
                                    ELSE [si EXCEPT !.exitAction = TRUE]
<1>0. /\ TypeOK /\ StackShape /\ scope \in Nat /\ stack \in Seq(Items) /\ Len(stack) \in Nat
      /\ Scoped(table, ScopeParents) /\ at = "actions"
  BY ScopedOf DEF enter_exit_action
<1>1. CASE type_of(table, sy, 0) \notin STATES
  BY <1>1, UndefinedInv DEF enter_exit_action
<1>2. CASE type_of(table, sy, 0) \in STATES
  <2>1. /\ table' = Update(table, sy, new) /\ errors' \in BOOLEAN /\ Block(TRUE)
        /\ at' \in {"transitions", "actions"} /\ desc' = [desc EXCEPT !.block = TRUE]
        /\ written' = [written EXCEPT !.legal = written'.legal] /\ written'.legal \in BOOLEAN
        /\ (errors => errors')
        /\ UNCHANGED <<scope, sy_parent, sy_outer_deep_, stack, states_, events_,
                       transitions_, ids, next_no_, warnings, emitted>>
    <3>1. written' = [written EXCEPT !.legal = written'.legal] /\ written'.legal \in BOOLEAN
      <4>1. written \in Writings
        BY <1>0 DEF TypeOK
      <4>2. \E l \in BOOLEAN : written' = [written EXCEPT !.legal = l]
        BY <1>2 DEF enter_exit_action
      <4> QED
        BY <4>1, <4>2 DEF Writings
    <3>2. /\ table' = Update(table, sy, new) /\ errors' \in BOOLEAN /\ Block(TRUE)
          /\ at' \in {"transitions", "actions"} /\ desc' = [desc EXCEPT !.block = TRUE]
          /\ (errors => errors')
          /\ UNCHANGED <<scope, sy_parent, sy_outer_deep_, stack, states_, events_,
                         transitions_, ids, next_no_, warnings, emitted>>
      BY <1>0, <1>2 DEF enter_exit_action
    <3> QED
      BY <3>1, <3>2
  <2>2. /\ sy \in DOMAIN table /\ table[sy] # <<>> /\ table[sy][1] = si /\ si \in AllInfos
        /\ si.type \in STATES
    BY <1>0, <1>2, FirstInfo DEF Scoped, STATES
  <2> HIDE DEF sy, si
  <2>3. si \in StateInfos
    BY <2>2, InfoKinds
  <2>4. new \in StateInfos
    BY <2>3, StateUpdated, EmptySeq
  <2>5. new.type = si.type /\ new.scope = si.scope /\ new.type # "CHILD"
    BY <2>2, <2>3 DEF StateInfos, STATES
  <2>6. new \in AllInfos
    BY <2>4, KindsAreInfos
  <2> HIDE DEF new
  <2>7. Scoped(table', ScopeParents)
    BY <1>0, <2>1, <2>2, <2>5, <2>6, UpdateScoped
  <2>8. /\ desc' \in [type : {"NONE", "ROOT"} \cup STATES, children : Nat, block : BOOLEAN]
        /\ desc'.type = desc.type
    BY <1>0, <2>1, DescTyped DEF TypeOK
  <2>9. written' \in Writings /\ written'.targets = written.targets
    <3>1. written \in Writings
      BY <1>0 DEF TypeOK
    <3>2. written' \in Writings
      BY <2>1, <3>1, WrittenTyped
    <3> QED
      BY <2>1, <3>1, <3>2 DEF Writings
  <2>10. TypeOK'
    <3>1. DOMAIN table' \subseteq Names /\ table' \in [DOMAIN table' -> Seq(AllInfos)]
      BY <2>7 DEF Scoped, Typed
    <3>2. budget' \in TextTypes
      BY <1>0, <2>1, BlockTyped DEF TypeOK
    <3> QED
      BY <1>0, <2>1, <2>8, <2>9, <3>1, <3>2 DEF TypeOK
  <2>11. StackShape'
    BY <1>0, <2>1, <2>8, <2>9 DEF StackShape, Inside, InDescribed, NamePtr
  <2>12. ScopeParents' = ScopeParents
    BY <1>0, <2>1, <2>8, ParentsKept DEF InHeader, Inside, Header
  <2> QED
    BY <2>7, <2>10, <2>11, <2>12, ScopedInv
<1> QED
  BY <1>1, <1>2

LEMMA PushedThree ==
    ASSUME NEW s \in Seq(Items), NEW a \in Items, NEW b \in Items, NEW c \in Items
    PROVE  /\ s \o <<a, b, c>> \in Seq(Items) /\ Len(s \o <<a, b, c>>) = Len(s) + 3
           /\ \A k \in 1 .. Len(s) : (s \o <<a, b, c>>)[k] = s[k]
           /\ (s \o <<a, b, c>>)[Len(s) + 1] = a /\ (s \o <<a, b, c>>)[Len(s) + 2] = b
           /\ (s \o <<a, b, c>>)[Len(s) + 3] = c
<1> DEFINE q == <<a, b, c>>
<1>1. q \in Seq(Items) /\ Len(q) = 3 /\ q[1] = a /\ q[2] = b /\ q[3] = c
  OBVIOUS
<1> HIDE DEF q
<1>2. 1 \in 1 .. Len(q) /\ 2 \in 1 .. Len(q) /\ 3 \in 1 .. Len(q)
  BY <1>1
<1>3. /\ s \o q \in Seq(Items) /\ Len(s \o q) = Len(s) + 3
      /\ \A k \in 1 .. Len(s) : (s \o q)[k] = s[k]
      /\ (s \o q)[Len(s) + 1] = a /\ (s \o q)[Len(s) + 2] = b /\ (s \o q)[Len(s) + 3] = c
  <2>1. /\ s \o q \in Seq(Items) /\ Len(s \o q) = Len(s) + Len(q)
        /\ \A k \in 1 .. Len(s) : (s \o q)[k] = s[k]
        /\ \A i \in 1 .. Len(q) : (s \o q)[Len(s) + i] = q[i]
    BY <1>1, PushedItems, Zenon
  <2> QED
    BY <1>1, <1>2, <2>1, Zenon
<1> QED
  BY <1>3 DEF q

\* The events of the transition that is being read.
LEMMA EventsRead ==
    ASSUME ParserInv, at \in {"event", "type"}
    PROVE  /\ scope > 0 /\ desc.type \in STATES /\ NamePtr(stack[scope + 1]) /\ written.targets
           /\ sy_parent \in Names
           /\ \E n \in Nat : Len(stack) = scope + 2 + 2 * n /\ CountedEvents(n) /\ Peek(0) = Num(n)
<1>1. TypeOK /\ StackShape /\ scope \in Nat /\ Len(stack) \in Nat
  BY ScopedOf
<1>2. /\ scope > 0 /\ desc.type \in STATES /\ NamePtr(stack[scope + 1]) /\ written.targets
      /\ sy_parent \in Names
  <2>1. /\ scope > 0 /\ desc.type \in STATES /\ NamePtr(stack[scope + 1]) /\ written.targets
        /\ sy_parent # NIL
    BY <1>1 DEF StackShape, InDescribed, Inside
  <2>2. sy_parent \in Names \cup {NIL}
    BY <1>1 DEF TypeOK
  <2> QED
    BY <2>1, <2>2
<1>3. \E n \in Nat : Len(stack) = scope + 2 + 2 * n /\ CountedEvents(n)
  <2>1. CASE at = "event"
    <3>1. Len(stack) = scope + 2 + 2 * 0 /\ CountedEvents(0)
      BY <1>1, <2>1 DEF StackShape, CountedEvents, EventsOnStack
    <3> QED
      BY <3>1
  <2>2. CASE at = "type"
    BY <1>1, <2>2 DEF StackShape
  <2> QED
    BY <2>1, <2>2
<1>4. PICK n \in Nat : Len(stack) = scope + 2 + 2 * n /\ CountedEvents(n)
  BY <1>3
<1>5. Peek(0) = Num(n)
  BY <1>1, <1>4 DEF CountedEvents, Peek
<1> QED
  BY <1>2, <1>4, <1>5

LEMMA EventDescriptionInv ==
    ASSUME ParserInv, NEW id \in budget.events, NEW base \in Bases, NEW params \in {0, 1},
           NEW precondition \in budget.preconditions,
           event_description(id, base, params, precondition)
    PROVE  ParserInv'
<1> DEFINE named   == Touch(IF base = NIL THEN table ELSE Touch(table, <<base>>), <<id>>)
           baseOK  == BaseExists(named, base)
           new     == not_exists(named, <<id>>, ANY)
           si      == [user_event_info(IF base = NIL THEN NIL ELSE <<base>>) EXCEPT
                          !.params = params, !.precondition = precondition]
           old     == info(named, <<id>>, 0)
           bad     == ~new /\ old.type # "USER_EVENT" /\ (params > 0 \/ precondition # "none")
<1>0. /\ TypeOK /\ StackShape /\ scope \in Nat /\ stack \in Seq(Items) /\ Len(stack) \in Nat
      /\ Scoped(table, ScopeParents) /\ at = "description" /\ id \in Identifiers
      /\ base = NIL \/ base \in Identifiers
      /\ precondition \in {"none", "expr", "func"} /\ params \in Nat
  <2>1. ParserInv /\ at = "description"
    BY DEF event_description
  <2>2. budget \in TextTypes
    BY InvFacts DEF TypeOK
  <2>3. budget.events \subseteq Identifiers /\ budget.preconditions \subseteq {"none", "expr", "func"}
    BY <2>2, BudgetTyped
  <2>4. id \in Identifiers /\ (base = NIL \/ base \in Identifiers)
        /\ precondition \in {"none", "expr", "func"} /\ params \in Nat
    BY <2>3 DEF Bases
  <2> QED
    BY <2>1, <2>4, ScopedOf
<1>1. /\ Len(stack) = scope /\ scope > 0 /\ sy_parent \in Names /\ ~InHeader /\ written.targets
  BY <1>0, InBody
<1>2. Scoped(named, ScopeParents) /\ <<id>> \in Names
  <2>1. <<id>> \in Names /\ (base # NIL => <<base>> \in Names)
    BY <1>0, NilIsNoName
  <2>2. Scoped(IF base = NIL THEN table ELSE Touch(table, <<base>>), ScopeParents)
    BY <1>0, <2>1, TouchScoped
  <2> QED
    BY <2>1, <2>2, TouchScoped
<1>3. si \in EventInfos /\ si \in AllInfos /\ si.type # "CHILD"
  <2> DEFINE b == IF base = NIL THEN NIL ELSE <<base>>
  <2>1. b \in Names \cup {NIL}
    BY <1>0, NilIsNoName
  <2>2. user_event_info(b) \in EventInfos
    BY <2>1, NewInfos
  <2> HIDE DEF b
  <2>3. [user_event_info(b) EXCEPT !.params = params, !.precondition = precondition] \in EventInfos
    BY <1>0, <2>2 DEF EventInfos
  <2>4. [user_event_info(b) EXCEPT !.params = params, !.precondition = precondition] \in AllInfos
    BY <2>3, KindsAreInfos
  <2>5. [user_event_info(b) EXCEPT !.params = params, !.precondition = precondition].type # "CHILD"
    BY <2>3, <2>4, InfoKinds DEF EVENT
  <2> QED
    BY <2>3, <2>4, <2>5 DEF b
<1>4. /\ IF bad
         THEN /\ at' = "undefined" /\ errors' = TRUE /\ UNCHANGED <<desc, table, events_>>
         ELSE /\ table' = IF new THEN insert_info(named, <<id>>, si)
                          ELSE IF old.type = "USER_EVENT" /\ precondition # "none"
                          THEN Update(named, <<id>>, [old EXCEPT !.precondition = precondition])
                          ELSE named
              /\ events_' = IF new THEN Append(events_, <<id>>) ELSE events_
              /\ errors' = (errors \/ ~baseOK \/ ~new)
              /\ desc' = [desc EXCEPT !.block = (precondition # "none")]
              /\ at' = "description"
      /\ budget' = [budget EXCEPT !.descriptions = @ - 1,
                                  !.blocks = IF precondition = "none" THEN @ ELSE @ - 1]
      /\ budget.descriptions > 0 /\ (precondition # "none" => budget.blocks > 0)
      /\ UNCHANGED <<scope, sy_parent, sy_outer_deep_, stack, states_, transitions_, ids,
                     next_no_, warnings, emitted, written>>
  BY DEF event_description
<1> HIDE DEF si
<1>5. ~new => /\ old \in AllInfos /\ <<id>> \in DOMAIN named /\ named[<<id>>] # <<>>
              /\ old = named[<<id>>][1]
  <2>1. ~new => type_of(named, <<id>>, 0) # "NONE"
    BY DEF not_exists, ANY, STATES, EVENT
  <2> HIDE DEF named
  <2> QED
    BY <1>2, <2>1, FirstInfo DEF Scoped
<1> HIDE DEF named, new, old, baseOK
<1>6. budget' \in TextTypes
  <2>0. budget \in TextTypes
    BY <1>0 DEF TypeOK
  <2>2. budget.blocks \in Nat /\ budget.descriptions \in Nat
    BY <2>0, BudgetTyped
  <2>1. (IF precondition = "none" THEN budget.blocks ELSE budget.blocks - 1) \in Nat
    BY <1>4, <2>2
  <2> QED
    BY <1>4, <2>0, <2>1, BudgetTyped
<1>7. CASE bad
  <2>1. TypeOK'
    BY <1>0, <1>4, <1>6, <1>7 DEF TypeOK
  <2>2. StackShape'
    BY <1>0, <1>1, <1>4, <1>7 DEF StackShape, Inside, InDescribed
  <2> QED
    BY <2>1, <2>2, <1>4, <1>7, InvFromFacts
<1>8. CASE ~bad
  <2>1. Scoped(table', ScopeParents)
    <3>1. CASE new
      BY <1>2, <1>3, <1>4, <1>8, <3>1, InsertOuter
    <3>2. CASE ~new /\ old.type = "USER_EVENT" /\ precondition # "none"
      <4> DEFINE chg == [old EXCEPT !.precondition = precondition]
      <4>1. old \in EventInfos
        BY <1>5, <3>2, InfoKinds DEF EVENT
      <4>2. chg \in EventInfos /\ chg.type = old.type /\ chg.scope = old.scope
        BY <1>0, <4>1, EventUpdated, EmptySeq
      <4>3. chg \in AllInfos /\ chg.type # "CHILD"
        BY <3>2, <4>2, KindsAreInfos
      <4> HIDE DEF chg
      <4>4. Scoped(Update(named, <<id>>, chg), ScopeParents)
        BY <1>2, <1>5, <3>2, <4>2, <4>3, UpdateScoped
      <4> QED
        BY <1>4, <1>8, <3>2, <4>4 DEF chg
    <3>3. CASE ~new /\ ~(old.type = "USER_EVENT" /\ precondition # "none")
      BY <1>2, <1>4, <1>8, <3>3
    <3> QED
      BY <3>1, <3>2, <3>3
  <2>2. /\ desc' \in [type : {"NONE", "ROOT"} \cup STATES, children : Nat, block : BOOLEAN]
        /\ desc'.type = desc.type
    <3>1. desc \in [type : {"NONE", "ROOT"} \cup STATES, children : Nat, block : BOOLEAN]
      BY <1>0 DEF TypeOK
    <3>2. (precondition # "none") \in BOOLEAN /\ desc' = [desc EXCEPT !.block = (precondition # "none")]
      BY <1>4, <1>8
    <3> QED
      BY <3>1, <3>2, DescTyped
  <2>3. TypeOK'
    <3>1. DOMAIN table' \subseteq Names /\ table' \in [DOMAIN table' -> Seq(AllInfos)]
      BY <2>1 DEF Scoped, Typed
    <3>2. events_' \in Seq(Names)
      <4>1. events_ \in Seq(Names) /\ Append(events_, <<id>>) \in Seq(Names)
        BY <1>0, <1>2, AppendProperties DEF TypeOK
      <4> QED
        BY <1>4, <1>8, <4>1
    <3> QED
      BY <1>0, <1>4, <1>6, <1>8, <2>2, <3>1, <3>2 DEF TypeOK
  <2>4. StackShape'
    BY <1>0, <1>1, <1>4, <1>8, <2>2 DEF StackShape, Inside, InDescribed
  <2>5. ScopeParents' = ScopeParents
    BY <1>0, <1>1, <1>4, <1>8, <2>2, ParentsKept DEF InHeader, Inside, Header
  <2> QED
    BY <2>1, <2>3, <2>4, <2>5, ScopedInv
<1> QED
  BY <1>7, <1>8

\* What user_event() and enex_event() yield.
EventNamed(ev, ps) ==
    ev.name \in Names /\ Scoped(ev.table, ps) /\ ev.error \in BOOLEAN /\ ev.new \in BOOLEAN

LEMMA EventConditionSpecInv ==
    ASSUME ParserInv, NEW ev, EventNamed(ev, ScopeParents), NEW c \in BOOLEAN,
           event_condition_spec(ev, c)
    PROVE  ParserInv'
<1>0. /\ TypeOK /\ StackShape /\ scope \in Nat /\ stack \in Seq(Items) /\ Len(stack) \in Nat
      /\ Scoped(table, ScopeParents) /\ at \in {"event", "type"}
  BY ScopedOf DEF event_condition_spec
<1>1. /\ scope > 0 /\ desc.type \in STATES /\ NamePtr(stack[scope + 1]) /\ written.targets
      /\ sy_parent \in Names
  BY <1>0, EventsRead
<1>2. PICK n \in Nat : Len(stack) = scope + 2 + 2 * n /\ CountedEvents(n) /\ Peek(0) = Num(n)
  BY <1>0, EventsRead
<1> DEFINE id == IF c THEN ids.condition + 1 ELSE 0
<1>3. stack' = Dropped(1) \o <<Ptr(ev.name), Num(id), Num(n + 1)>>
  <2>1. Peek(0).val = n
    BY <1>2 DEF Num
  <2> QED
    BY <2>1, Zenon DEF event_condition_spec
<1>4. /\ table' = ev.table /\ events_' = IF ev.new THEN Append(events_, ev.name) ELSE events_
      /\ errors' = (errors \/ ev.error) /\ at' = "type"
      /\ desc' = [desc EXCEPT !.block = c] /\ Block(c)
      /\ ids' = IF c THEN [ids EXCEPT !.condition = id] ELSE ids
      /\ UNCHANGED <<scope, sy_parent, sy_outer_deep_, states_, transitions_, next_no_,
                     warnings, emitted, written>>
  BY DEF event_condition_spec
<1>5. id \in Nat /\ ids' \in [condition : Nat, target : Nat, action : Nat]
  <2>1. ids \in [condition : Nat, target : Nat, action : Nat]
    BY <1>0 DEF TypeOK
  <2>2. id \in Nat
    BY <2>1
  <2>3. [ids EXCEPT !.condition = id] \in [condition : Nat, target : Nat, action : Nat]
    BY <2>1, <2>2
  <2> QED
    BY <1>4, <2>1, <2>2, <2>3
<1> HIDE DEF id
<1>6. /\ stack' \in Seq(Items) /\ Len(stack') = scope + 2 + 2 * (n + 1)
      /\ stack'[scope + 2 * (n + 1)] = Ptr(ev.name)
      /\ stack'[scope + 2 * (n + 1) + 1] = Num(id)
      /\ stack'[scope + 2 + 2 * (n + 1)] = Num(n + 1)
      /\ \A k \in 1 .. scope + 1 + 2 * n : stack'[k] = stack[k]
  <2> DEFINE r == Dropped(1)
             l == scope + 1 + 2 * n
  <2>1. 1 \in 0 .. Len(stack) /\ Len(stack) - 1 = l /\ l \in Nat
    BY <1>0, <1>2
  <2> HIDE DEF l
  <2>2. r \in Seq(Items) /\ Len(r) = l /\ \A k \in 1 .. l : r[k] = stack[k]
    BY <1>0, <2>1, DroppedItems
  <2> HIDE DEF r
  <2>3. Ptr(ev.name) \in Items /\ Num(id) \in Items /\ Num(n + 1) \in Items
    BY <1>5, ItemsTyped DEF EventNamed
  <2>4. /\ stack' \in Seq(Items) /\ Len(stack') = l + 3
        /\ \A k \in 1 .. l : stack'[k] = r[k]
        /\ stack'[l + 1] = Ptr(ev.name) /\ stack'[l + 2] = Num(id) /\ stack'[l + 3] = Num(n + 1)
    BY <1>3, <2>2, <2>3, PushedThree DEF r
  <2>5. /\ l + 1 = scope + 2 * (n + 1) /\ l + 2 = scope + 2 * (n + 1) + 1
        /\ l + 3 = scope + 2 + 2 * (n + 1)
    BY <1>0 DEF l
  <2> QED
    BY <2>2, <2>4, <2>5 DEF l
<1>7. CountedEvents(n + 1)'
  <2>1. ASSUME NEW i \in 1 .. n + 1
        PROVE  NamePtr(stack'[scope + 2 * i]) /\ stack'[scope + 2 * i + 1].tag = "int"
    <3>1. CASE i = n + 1
      BY <3>1, <1>6 DEF NamePtr, Ptr, Num, EventNamed
    <3>2. CASE i # n + 1
      <4>1. i \in 1 .. n /\ scope + 2 * i \in 1 .. scope + 1 + 2 * n
            /\ scope + 2 * i + 1 \in 1 .. scope + 1 + 2 * n
        BY <3>2, <1>0
      <4>2. NamePtr(stack[scope + 2 * i]) /\ stack[scope + 2 * i + 1].tag = "int"
        BY <4>1, <1>2 DEF CountedEvents, EventsOnStack
      <4> QED
        BY <4>1, <4>2, <1>6
    <3> QED
      BY <3>1, <3>2
  <2>2. scope' = scope
    BY <1>4
  <2> QED
    BY <1>0, <1>6, <2>1, <2>2 DEF CountedEvents, EventsOnStack, NamePtr
<1>8. /\ desc' \in [type : {"NONE", "ROOT"} \cup STATES, children : Nat, block : BOOLEAN]
      /\ desc'.type = desc.type
  BY <1>0, <1>4, DescTyped DEF TypeOK
<1>9. TypeOK'
  <2>1. DOMAIN table' \subseteq Names /\ table' \in [DOMAIN table' -> Seq(AllInfos)]
    BY <1>4 DEF Scoped, Typed, EventNamed
  <2>2. budget' \in TextTypes
    BY <1>0, <1>4, BlockTyped DEF TypeOK
  <2>3. events_' \in Seq(Names)
    BY <1>0, <1>4, AppendProperties DEF TypeOK, EventNamed
  <2> QED
    BY <1>0, <1>4, <1>5, <1>6, <1>8, <2>1, <2>2, <2>3 DEF TypeOK, EventNamed
<1>10. StackShape'
  <2>1. /\ \A k \in 1 .. scope : stack'[k] = stack[k]
        /\ stack'[scope + 1] = stack[scope + 1] /\ NamePtr(stack'[scope + 1])
        /\ Len(stack') > scope
    <3>1. scope + 1 \in 1 .. scope + 1 + 2 * n /\ \A k \in 1 .. scope : k \in 1 .. scope + 1 + 2 * n
      BY <1>0
    <3>2. Len(stack') > scope
      BY <1>0, <1>6
    <3> QED
      BY <1>1, <1>6, <3>1, <3>2, Zenon
  <2>2. n + 1 \in 0 .. Len(stack')
    BY <1>0, <1>6
  <2>3. /\ at' = "type" /\ scope' = scope /\ sy_parent' = sy_parent /\ desc'.type \in STATES
        /\ written' = written
    BY <1>1, <1>4, <1>8
  <2>4. \A k \in 1 .. scope : stack[k].tag = "ptr" /\ (stack[k].val = NIL <=> k = 1)
    BY <1>0 DEF StackShape, Inside
  <2>5. sy_parent # NIL
    BY <1>1, NilIsNoName
  <2> QED
    BY <1>0, <1>1, <1>6, <1>7, <2>1, <2>2, <2>3, <2>4, <2>5
       DEF StackShape, Inside, InDescribed, NamePtr
<1>11. ScopeParents' = ScopeParents
  <2>1. stack'[scope + 1] = stack[scope + 1]
    BY <1>0, <1>6
  <2>2. (InHeader' <=> InHeader) /\ (InHeader => Header' = Header) /\ Inside /\ Inside'
    BY <1>0, <1>4, <1>8, <2>1 DEF InHeader, Inside, Header
  <2>3. \A k \in 1 .. scope : stack'[k] = stack[k]
    BY <1>0, <1>6
  <2> QED
    BY <1>0, <1>4, <2>2, <2>3, ParentsKept
<1>12. Scoped(table', ScopeParents)
  BY <1>4 DEF EventNamed
<1> QED
  BY <1>9, <1>10, <1>11, <1>12, ScopedInv

\* The names that an event or a block of user code enters change neither the place nor the stack.
LEMMA NamesEntered ==
    ASSUME ParserInv, at \notin {"chsm", "end", "done", "undefined"}, Scoped(table', ScopeParents),
           errors' \in BOOLEAN, errors => errors', events_' \in Seq(Names),
           desc' = [desc EXCEPT !.block = FALSE],
           UNCHANGED <<at, scope, sy_parent, sy_outer_deep_, stack, states_, transitions_, ids,
                       next_no_, emitted, written, budget>>
    PROVE  ParserInv'
<1>0. /\ TypeOK /\ StackShape /\ scope \in Nat /\ stack \in Seq(Items) /\ Len(stack) \in Nat
  BY ScopedOf
<1>1. /\ desc' \in [type : {"NONE", "ROOT"} \cup STATES, children : Nat, block : BOOLEAN]
      /\ desc'.type = desc.type
  BY <1>0, DescTyped DEF TypeOK
<1>2. TypeOK'
  <2>1. DOMAIN table' \subseteq Names /\ table' \in [DOMAIN table' -> Seq(AllInfos)]
    BY DEF Scoped, Typed
  <2> QED
    BY <1>0, <1>1, <2>1 DEF TypeOK
<1>3. StackShape'
  BY <1>0, <1>1 DEF StackShape, Inside, InDescribed, NamePtr, CountedEvents, EventsOnStack
<1>4. ScopeParents' = ScopeParents
  BY <1>0, <1>1, ParentsKept DEF InHeader, Inside, Header
<1> QED
  BY <1>2, <1>3, <1>4, ScopedInv

\* What a target pushes: the state, or none, and the function that computes it, or none.
TargetPushed(x, y, b) ==
    /\ stack' = stack \o <<Ptr(x), Num(y)>>
    /\ at' = "action"
    /\ desc' = [desc EXCEPT !.block = b]
    /\ UNCHANGED <<scope, sy_parent, sy_outer_deep_, states_, events_, transitions_, next_no_,
                   emitted>>

LEMMA TargetInv ==
    ASSUME ParserInv, at = "type", NEW x \in Names \cup {NIL}, NEW y \in Nat, NEW b \in BOOLEAN,
           TargetPushed(x, y, b), Scoped(table', ScopeParents), errors' \in BOOLEAN,
           ids' \in [condition : Nat, target : Nat, action : Nat], budget' \in TextTypes,
           written' \in Writings, written'.targets = written.targets
    PROVE  ParserInv'
<1>0. /\ TypeOK /\ StackShape /\ scope \in Nat /\ stack \in Seq(Items) /\ Len(stack) \in Nat
      /\ Scoped(table, ScopeParents) /\ DOMAIN ScopeParents \subseteq Nat \ {0, 1}
  BY ScopedOf
<1>1. /\ scope > 0 /\ desc.type \in STATES /\ NamePtr(stack[scope + 1]) /\ written.targets
      /\ sy_parent \in Names
  BY <1>0, EventsRead
<1>2. PICK n \in Nat : Len(stack) = scope + 2 + 2 * n /\ CountedEvents(n) /\ Peek(0) = Num(n)
  BY <1>0, EventsRead
<1>6. /\ at' = "action" /\ desc' = [desc EXCEPT !.block = b]
      /\ stack' = stack \o <<Ptr(x), Num(y)>>
      /\ UNCHANGED <<scope, sy_parent, sy_outer_deep_, states_, events_, transitions_, next_no_,
                   emitted>>
  BY DEF TargetPushed
<1>7. /\ stack' \in Seq(Items) /\ Len(stack') = scope + 4 + 2 * n
      /\ \A k \in 1 .. scope + 2 + 2 * n : stack'[k] = stack[k]
      /\ stack'[scope + 3 + 2 * n] = Ptr(x) /\ stack'[scope + 4 + 2 * n] = Num(y)
  <2>1. Ptr(x) \in Items /\ Num(y) \in Items
    BY ItemsTyped
  <2>2. /\ stack' \in Seq(Items) /\ Len(stack') = Len(stack) + 2
        /\ \A k \in 1 .. Len(stack) : stack'[k] = stack[k]
        /\ stack'[Len(stack) + 1] = Ptr(x) /\ stack'[Len(stack) + 2] = Num(y)
    BY <1>0, <1>6, <2>1, PushedTwo
  <2>3. Len(stack) + 1 = scope + 3 + 2 * n /\ Len(stack) + 2 = scope + 4 + 2 * n
    BY <1>0, <1>2
  <2> QED
    BY <1>2, <2>2, <2>3
<1>9. /\ desc' \in [type : {"NONE", "ROOT"} \cup STATES, children : Nat, block : BOOLEAN]
      /\ desc'.type = desc.type
  BY <1>0, <1>6, DescTyped DEF TypeOK
<1>10. TypeOK'
  <2>1. DOMAIN table' \subseteq Names /\ table' \in [DOMAIN table' -> Seq(AllInfos)]
    BY DEF Scoped, Typed
  <2> QED
    BY <1>0, <1>6, <1>7, <1>9, <2>1 DEF TypeOK
<1>11. CountedEvents(n)'
  <2>1. ASSUME NEW i \in 1 .. n
        PROVE  stack'[scope + 2 * i] = stack[scope + 2 * i]
               /\ stack'[scope + 2 * i + 1] = stack[scope + 2 * i + 1]
    <3>1. scope + 2 * i \in 1 .. scope + 2 + 2 * n /\ scope + 2 * i + 1 \in 1 .. scope + 2 + 2 * n
      BY <1>0
    <3> QED
      BY <3>1, <1>7
  <2>2. scope + 2 + 2 * n \in 1 .. scope + 2 + 2 * n /\ Len(stack') >= scope + 2 + 2 * n
    BY <1>0, <1>7
  <2>3. stack'[scope + 2 + 2 * n] = Num(n)
    BY <1>2, <1>7, <2>2 DEF CountedEvents
  <2>4. scope' = scope /\ EventsOnStack(n)
    BY <1>2, <1>6 DEF CountedEvents
  <2> QED
    BY <2>1, <2>2, <2>3, <2>4 DEF CountedEvents, EventsOnStack, NamePtr
<1>12. stack'[scope + 1] = stack[scope + 1] /\ \A k \in 1 .. scope : stack'[k] = stack[k]
  <2>1. scope + 1 \in 1 .. scope + 2 + 2 * n /\ \A k \in 1 .. scope : k \in 1 .. scope + 2 + 2 * n
    BY <1>0
  <2> QED
    BY <1>7, <2>1
<1>13. StackShape'
  <2>1. Len(stack') > scope /\ n \in 0 .. Len(stack') /\ Len(stack') = scope + 4 + 2 * n
    BY <1>0, <1>7
  <2>2. \A k \in 1 .. scope : stack'[k].tag = "ptr" /\ (stack'[k].val = NIL <=> k = 1)
    BY <1>0, <1>12 DEF StackShape, Inside
  <2>3. sy_parent # NIL
    BY <1>1, NilIsNoName
  <2>4. stack'[scope + 3 + 2 * n].tag = "ptr" /\ stack'[scope + 4 + 2 * n].tag = "int"
    BY <1>7 DEF Ptr, Num
  <2>5. NamePtr(stack'[scope + 1])
    BY <1>1, <1>12
  <2>6. /\ at' = "action" /\ scope' = scope /\ sy_parent' = sy_parent /\ desc'.type \in STATES
        /\ written'.targets
    BY <1>1, <1>6, <1>9
  <2> QED
    BY <1>0, <1>1, <1>11, <2>1, <2>2, <2>3, <2>4, <2>5, <2>6
       DEF StackShape, Inside, InDescribed, NamePtr
<1>14. ScopeParents' = ScopeParents
  BY <1>0, <1>6, <1>9, <1>12, ParentsKept DEF InHeader, Inside, Header
<1> QED
  BY <1>10, <1>13, <1>14, ScopedInv

LEMMA TargetStateInv ==
    ASSUME ParserInv, NEW ref \in budget.refs, target_state(ref)
    PROVE  ParserInv'
<1> DEFINE s == state_name(ref)
<1>0. /\ TypeOK /\ StackShape /\ scope \in Nat /\ stack \in Seq(Items) /\ Len(stack) \in Nat
      /\ Scoped(table, ScopeParents) /\ DOMAIN ScopeParents \subseteq Nat \ {0, 1} /\ at = "type"
  BY ScopedOf DEF target_state
<1>1. /\ scope > 0 /\ NamePtr(stack[scope + 1]) /\ sy_parent \in Names
  BY <1>0, EventsRead
<1>2. PICK n \in Nat : Len(stack) = scope + 2 + 2 * n /\ Peek(0) = Num(n)
  BY <1>0, EventsRead
<1>3. ref \in References /\ budget \in TextTypes
  <2>1. budget \in TextTypes
    BY <1>0 DEF TypeOK
  <2> QED
    BY <2>1, BudgetTyped
<1>4. s.name \in Names /\ Scoped(s.table, ScopeParents) /\ s.error \in BOOLEAN
  BY <1>0, <1>3, StateNameScoped
<1>5. From \in Names
  <2>1. Peek(0).val = n
    BY <1>2 DEF Num
  <2>2. Len(stack) - (2 * n + 1) = scope + 1
    BY <1>0, <1>2
  <2> QED
    BY <1>1, <2>1, <2>2 DEF From, Peek, NamePtr
<1>6. /\ table' = s.table /\ errors' = (errors \/ s.error) /\ ids' = ids /\ budget' = budget
      /\ TargetPushed(s.name, 0, FALSE)
      /\ written' = [written EXCEPT !.refs = @ \cup
                             {[ref |-> ref, name |-> s.name, in |-> sy_parent, from |-> From]}]
  BY DEF target_state, Push, TargetItems, TargetPushed
<1> HIDE DEF s
<1>8. written' \in Writings /\ written'.targets = written.targets
  <2> DEFINE r == [ref |-> ref, name |-> s.name, in |-> sy_parent, from |-> From]
             R == written.refs \cup {r}
  <2>1. r \in [ref : References, name : Names, in : Names, from : Names]
    BY <1>1, <1>3, <1>4, <1>5
  <2>2. written' = [written EXCEPT !.refs = R] /\ written \in Writings
    BY <1>0, <1>6 DEF TypeOK
  <2> HIDE DEF r
  <2>3. R \in SUBSET [ref : References, name : Names, in : Names, from : Names]
    BY <2>1, <2>2 DEF Writings
  <2> HIDE DEF R
  <2>4. written' \in Writings
    BY <2>2, <2>3, WrittenTyped
  <2> QED
    BY <2>2, <2>4 DEF Writings
<1>9. errors' \in BOOLEAN /\ ids' \in [condition : Nat, target : Nat, action : Nat]
      /\ budget' \in TextTypes
  BY <1>0, <1>3, <1>6 DEF TypeOK
<1> QED
  BY <1>0, <1>4, <1>6, <1>8, <1>9, TargetInv

LEMMA TargetFunctionInv ==
    ASSUME ParserInv, target_function
    PROVE  ParserInv'
<1>0. TypeOK /\ Scoped(table, ScopeParents) /\ at = "type"
  BY ScopedOf DEF target_function
<1>1. ids \in [condition : Nat, target : Nat, action : Nat]
  BY <1>0 DEF TypeOK
<1>2. ids.target + 1 \in Nat /\ [ids EXCEPT !.target = ids.target + 1]
                                  \in [condition : Nat, target : Nat, action : Nat]
  BY <1>1
<1>3. /\ TargetPushed(NIL, ids.target + 1, TRUE) /\ table' = table /\ errors' = errors
      /\ ids' = [ids EXCEPT !.target = ids.target + 1] /\ Block(TRUE) /\ written' = written
  BY DEF target_function, Push, TargetPushed
<1>4. budget' \in TextTypes /\ errors' \in BOOLEAN /\ written' \in Writings
  BY <1>0, <1>3, BlockTyped DEF TypeOK
<1> QED
  BY <1>0, <1>2, <1>3, <1>4, TargetInv

LEMMA EmbeddedStateNameInv ==
    ASSUME ParserInv, NEW ref \in budget.refs, embedded_state_name(ref)
    PROVE  ParserInv'
<1> DEFINE s == state_name(ref)
<1>0. /\ TypeOK /\ StackShape /\ scope \in Nat /\ Scoped(table, ScopeParents)
      /\ DOMAIN ScopeParents \subseteq Nat \ {0, 1} /\ desc.block /\ at # "undefined"
  BY ScopedOf DEF embedded_state_name, InBlock
<1>1. at \notin {"chsm", "end", "done", "undefined"}
  BY <1>0 DEF StackShape
<1>2. ref \in References
  <2>1. budget \in TextTypes
    BY <1>0 DEF TypeOK
  <2> QED
    BY <2>1, BudgetTyped
<1>3. Scoped(s.table, ScopeParents) /\ s.error \in BOOLEAN
  BY <1>0, <1>2, StateNameScoped
<1>4. /\ table' = s.table /\ errors' = (errors \/ s.error) /\ desc' = [desc EXCEPT !.block = FALSE]
      /\ events_' = events_
      /\ UNCHANGED <<at, scope, sy_parent, sy_outer_deep_, stack, states_, transitions_, ids,
                     next_no_, emitted, written, budget>>
  BY DEF embedded_state_name
<1> HIDE DEF s
<1>5. errors' \in BOOLEAN /\ (errors => errors') /\ events_' \in Seq(Names)
  BY <1>0, <1>3, <1>4 DEF TypeOK
<1> QED
  BY <1>1, <1>3, <1>4, <1>5, NamesEntered

LEMMA EmbeddedEventNameInv ==
    ASSUME ParserInv, NEW id \in budget.events, embedded_event_name(id)
    PROVE  ParserInv'
<1> DEFINE ev == user_event(id)
<1>0. /\ TypeOK /\ StackShape /\ scope \in Nat /\ Scoped(table, ScopeParents)
      /\ desc.block /\ at # "undefined"
  BY ScopedOf DEF embedded_event_name, InBlock
<1>1. at \notin {"chsm", "end", "done", "undefined"}
  BY <1>0 DEF StackShape
<1>2. id \in Identifiers
  <2>1. budget \in TextTypes
    BY <1>0 DEF TypeOK
  <2> QED
    BY <2>1, BudgetTyped
<1>3. ev.name \in Names /\ Scoped(ev.table, ScopeParents) /\ ev.error \in BOOLEAN
  BY <1>0, <1>2, UserEventScoped
<1>4. /\ table' = ev.table /\ errors' = (errors \/ ev.error) /\ desc' = [desc EXCEPT !.block = FALSE]
      /\ events_' = IF ev.new THEN Append(events_, ev.name) ELSE events_
      /\ UNCHANGED <<at, scope, sy_parent, sy_outer_deep_, stack, states_, transitions_, ids,
                     next_no_, emitted, written, budget>>
  BY DEF embedded_event_name
<1> HIDE DEF ev
<1>5. errors' \in BOOLEAN /\ (errors => errors') /\ events_' \in Seq(Names)
  BY <1>0, <1>3, <1>4, AppendProperties DEF TypeOK
<1> QED
  BY <1>1, <1>3, <1>4, <1>5, NamesEntered

LEMMA NullChsmInv ==
    ASSUME ParserInv, NullChsm
    PROVE  ParserInv'
  BY UndefinedInv DEF NullChsm

LEMMA ChsmInv ==
    ASSUME ParserInv, chsm
    PROVE  ParserInv'
<1>0. /\ TypeOK /\ StackShape /\ scope \in Nat /\ Scoped(table, ScopeParents) /\ at = "end"
  BY ScopedOf DEF chsm
<1>1. /\ table' = table \/ table' = backpatch_enter_exit_events
      /\ errors' \in BOOLEAN /\ emitted' \in BOOLEAN /\ at' = "done" /\ (errors => errors')
      /\ UNCHANGED <<desc, scope, sy_parent, sy_outer_deep_, stack, states_, events_, transitions_,
                     ids, next_no_, written, budget>>
  BY DEF chsm
<1>2. Scoped(table', ScopeParents)
  BY <1>0, <1>1, BackpatchTable, SamePlacesNested DEF Scoped
<1>3. TypeOK'
  <2>1. DOMAIN table' \subseteq Names /\ table' \in [DOMAIN table' -> Seq(AllInfos)]
    BY <1>2 DEF Scoped, Typed
  <2> QED
    BY <1>0, <1>1, <2>1 DEF TypeOK
<1>4. StackShape'
  BY <1>0, <1>1 DEF StackShape, Inside, InDescribed
<1>5. ScopeParents' = ScopeParents
  <2>1. ~InHeader /\ ~InHeader' /\ scope' = scope /\ scope = 1 /\ 2 .. 1 = {}
    BY <1>0, <1>1 DEF InHeader, Inside, StackShape
  <2> QED
    BY <2>1 DEF ScopeParents
<1> QED
  BY <1>2, <1>3, <1>4, <1>5, ScopedInv

LEMMA FinishedInv ==
    ASSUME ParserInv, UNCHANGED vars
    PROVE  ParserInv'
<1>0. UNCHANGED <<at, desc, table, scope, sy_parent, sy_outer_deep_, stack, states_, events_,
                  transitions_, ids, next_no_, errors, emitted, written, budget>>
  BY DEF vars
<1>1. TypeOK /\ StackShape /\ (at # "undefined" => Nested(table, ScopeParents))
  BY DEF ParserInv, ScopesNested
<1>2. TypeOK'
  BY <1>0, <1>1 DEF TypeOK
<1>3. StackShape'
  BY <1>0, <1>1 DEF StackShape, Inside, InDescribed, CountedEvents, EventsOnStack
<1>4. ScopeParents' = ScopeParents
  BY <1>0 DEF ScopeParents, InHeader, Inside, Header, OpenParents
<1> QED
  BY <1>0, <1>1, <1>2, <1>3, <1>4, InvFromFacts

\* The words of a whole transition: the state, n events, how many, the target and the action.
Whole(s, n) ==
    /\ s \in Seq(Items) /\ n \in Nat /\ Len(s) = scope + 5 + 2 * n
    /\ NamePtr(s[scope + 1])
    /\ \A i \in 1 .. n : NamePtr(s[scope + 2 * i]) /\ s[scope + 2 * i + 1].tag = "int"
    /\ s[scope + 2 + 2 * n] = Num(n)
    /\ s[scope + 3 + 2 * n].tag = "ptr"
    /\ s[scope + 4 + 2 * n].tag = "int"
    /\ s[scope + 5 + 2 * n].tag = "int"
    /\ \A k \in 1 .. scope + 1 : s[k] = stack[k]

LEMMA WholeRead ==
    ASSUME scope \in Nat, NEW s, NEW n, Whole(s, n)
    PROVE  /\ TransitionTyped(s) /\ NumEvents(s) = n
           /\ FromOf(s) = stack[scope + 1].val /\ FromOf(s) \in Names
           /\ \A i \in 1 .. n : EventOf(s, i) \in Names /\ ConditionOf(s, i) \in Nat
           /\ s[Len(s) - 2].val \in Names \cup {NIL}
           /\ s[Len(s) - 1].val \in Nat /\ s[Len(s)].val \in Nat
<1> DEFINE l == scope + 5 + 2 * n
<1>1. /\ n \in Nat /\ Len(s) = l /\ l \in Nat
      /\ l - 1 = scope + 4 + 2 * n /\ l - 2 = scope + 3 + 2 * n /\ l - 3 = scope + 2 + 2 * n
      /\ l - 4 - 2 * n = scope + 1 /\ 4 + 2 * n < l
  BY DEF Whole
<1> HIDE DEF l
<1>2. s[l - 3] = Num(n) /\ s[l - 3].val = n /\ s[l - 3].tag = "int"
  BY <1>1 DEF Whole, Num
<1>3. NumEvents(s) = n
  BY <1>1, <1>2 DEF NumEvents
<1>4. s[l - 1].tag = "int" /\ s[l - 2].tag = "ptr" /\ s[l].tag = "int" /\ NamePtr(s[scope + 1])
  BY <1>1 DEF Whole, l
<1>5. TransitionTyped(s)
  <2>1. 4 + 2 * s[l - 3].val < l /\ s[l - 4 - 2 * s[l - 3].val].tag = "ptr"
    BY <1>1, <1>2, <1>4 DEF NamePtr
  <2> QED
    BY <1>1, <1>2, <1>4, <2>1 DEF TransitionTyped
<1>6. FromOf(s) = stack[scope + 1].val /\ FromOf(s) \in Names
  <2>1. FromOf(s) = s[scope + 1].val
    BY <1>1, <1>3 DEF FromOf
  <2>2. s[scope + 1] = stack[scope + 1]
    <3>1. scope + 1 \in 1 .. scope + 1
      OBVIOUS
    <3> QED
      BY <3>1 DEF Whole
  <2> QED
    BY <1>4, <2>1, <2>2 DEF NamePtr
<1>7. \A k \in 1 .. l : s[k] \in Items
  BY <1>1, ElementOfSeq DEF Whole
<1>8. ASSUME NEW i \in 1 .. n
      PROVE  EventOf(s, i) \in Names /\ ConditionOf(s, i) \in Nat
  <2> DEFINE j == n - i + 1
  <2>1. /\ j \in 1 .. n /\ l - 3 - 2 * i = scope + 2 * j /\ l - 2 - 2 * i = scope + 2 * j + 1
        /\ scope + 2 * j + 1 \in 1 .. l
    BY <1>1 DEF l
  <2> HIDE DEF j
  <2>2. NamePtr(s[scope + 2 * j]) /\ s[scope + 2 * j + 1].tag = "int"
    BY <2>1 DEF Whole
  <2>3. s[scope + 2 * j + 1] \in Items
    BY <2>1, <1>7
  <2>4. s[scope + 2 * j + 1].val \in Nat
    BY <2>2, <2>3, ItemsTyped
  <2> QED
    BY <1>1, <2>1, <2>2, <2>4 DEF EventOf, ConditionOf, NamePtr
<1>9. s[l - 2].val \in Names \cup {NIL} /\ s[l - 1].val \in Nat /\ s[l].val \in Nat
  <2>1. l - 2 \in 1 .. l /\ l - 1 \in 1 .. l /\ l \in 1 .. l
    BY <1>1
  <2>2. s[l - 2] \in Items /\ s[l - 1] \in Items /\ s[l] \in Items
    BY <2>1, <1>7
  <2> QED
    BY <1>4, <2>2, ItemsTyped
<1> QED
  BY <1>1, <1>3, <1>5, <1>6, <1>8, <1>9

LEMMA TransitionsAdded ==
    ASSUME scope \in Nat, NEW s, NEW n, Whole(s, n)
    PROVE  /\ AddedTransitions(s) \in Seq(Transitions) /\ Len(AddedTransitions(s)) = n
           /\ \A i \in 1 .. n : AddedTransitions(s)[i].from = stack[scope + 1].val
           /\ \A i \in 1 .. n : AddedTransitions(s)[i].to = s[Len(s) - 2].val
<1>1. /\ NumEvents(s) = n /\ n \in Nat
      /\ FromOf(s) = stack[scope + 1].val /\ FromOf(s) \in Names
      /\ \A i \in 1 .. n : EventOf(s, i) \in Names /\ ConditionOf(s, i) \in Nat
      /\ s[Len(s) - 2].val \in Names \cup {NIL}
      /\ s[Len(s) - 1].val \in Nat /\ s[Len(s)].val \in Nat
  BY WholeRead DEF Whole
<1> DEFINE tr(i) == [condition |-> ConditionOf(s, i), from |-> FromOf(s), to |-> s[Len(s) - 2].val,
                     target |-> s[Len(s) - 1].val, action |-> s[Len(s)].val]
<1>2. \A i \in 1 .. n : tr(i) \in Transitions
  BY <1>1 DEF Transitions
<1>3. AddedTransitions(s) = [i \in 1 .. n |-> tr(i)]
  BY <1>1 DEF AddedTransitions
<1>4. \A i \in 1 .. n : tr(i).from = FromOf(s) /\ tr(i).to = s[Len(s) - 2].val
  OBVIOUS
<1> HIDE DEF tr
<1>5. AddedTransitions(s) \in [1 .. n -> Transitions]
  BY <1>2, <1>3
<1>6. AddedTransitions(s) \in Seq(Transitions) /\ Len(AddedTransitions(s)) = n
  BY <1>1, <1>5, IsASeq, LenProperties
<1> QED
  BY <1>1, <1>3, <1>4, <1>6

\* What the end of a transition leaves behind.
TransitionMade(s, action) ==
    /\ transitions_' = transitions_ \o AddedTransitions(s)
    /\ table' = WithTransitions(s)
    /\ stack' = SubSeq(s, 1, Len(s) - 4 - 2 * NumEvents(s))
    /\ at' = "transitions" /\ desc' = [desc EXCEPT !.block = action] /\ Block(action)
    /\ UNCHANGED <<scope, sy_parent, sy_outer_deep_, states_, events_, next_no_, errors, warnings,
                   emitted, written>>

LEMMA TransitionMadeInv ==
    ASSUME ParserInv, at \in {"action", "type"}, written.targets, NEW s, NEW n, Whole(s, n),
           NEW action \in BOOLEAN, TransitionMade(s, action),
           ids' \in [condition : Nat, target : Nat, action : Nat]
    PROVE  ParserInv'
<1>0. /\ TypeOK /\ StackShape /\ scope \in Nat /\ stack \in Seq(Items) /\ Len(stack) \in Nat
      /\ Scoped(table, ScopeParents)
  BY ScopedOf
<1>1. NumEvents(s) = n /\ n \in Nat
  BY <1>0, WholeRead DEF Whole
<1>2. /\ scope > 0 /\ desc.type \in STATES /\ NamePtr(stack[scope + 1]) /\ sy_parent # NIL
      /\ \A k \in 1 .. scope : stack[k].tag = "ptr" /\ (stack[k].val = NIL <=> k = 1)
  <2>1. InDescribed /\ Inside
    BY DEF InDescribed, Inside
  <2>2. scope > 0
    BY <1>0 DEF StackShape
  <2> QED
    BY <1>0, <2>1, <2>2 DEF StackShape
<1>4. /\ transitions_' = transitions_ \o AddedTransitions(s)
      /\ table' = WithTransitions(s)
      /\ stack' = SubSeq(s, 1, Len(s) - 4 - 2 * NumEvents(s))
      /\ at' = "transitions" /\ desc' = [desc EXCEPT !.block = action] /\ Block(action)
      /\ UNCHANGED <<scope, sy_parent, sy_outer_deep_, states_, events_, next_no_, errors, warnings,
                     emitted, written>>
  BY DEF TransitionMade
<1>5. /\ stack' \in Seq(Items) /\ Len(stack') = scope + 1
      /\ \A k \in 1 .. scope + 1 : stack'[k] = stack[k]
  <2>1. Len(s) - 4 - 2 * NumEvents(s) = scope + 1 /\ Len(s) = scope + 5 + 2 * n
    BY <1>0, <1>1 DEF Whole
  <2>2. stack' = SubSeq(s, 1, scope + 1) /\ s \in Seq(Items) /\ scope + 1 \in 1 .. Len(s)
        /\ Len(s) \in Nat
    <3>1. s \in Seq(Items)
      BY DEF Whole
    <3>2. stack' = SubSeq(s, 1, scope + 1)
      BY <1>4, <2>1
    <3>3. scope + 1 \in 1 .. Len(s) /\ Len(s) \in Nat
      BY <1>0, <1>1, <2>1
    <3> QED
      BY <3>1, <3>2, <3>3
  <2>3. \A i \in 1 .. scope + 1 : s[i] \in Items
    BY <1>0, <2>2, ElementOfSeq
  <2>4. /\ stack' \in Seq(Items) /\ Len(stack') = scope + 1
        /\ \A k \in 1 .. scope + 1 : stack'[k] = s[k]
    BY <1>0, <2>2, <2>3, SubSeqProperties
  <2> QED
    BY <2>4 DEF Whole
<1>6. transitions_ \in Seq(Transitions) /\ transitions_' \in Seq(Transitions)
  <2>1. transitions_ \in Seq(Transitions) /\ AddedTransitions(s) \in Seq(Transitions)
    BY <1>0, TransitionsAdded DEF TypeOK
  <2> QED
    BY <1>4, <2>1, ConcatProperties, Zenon
<1>7. Scoped(table', ScopeParents)
  <2>1. NumEvents(s) \in Nat /\ Typed(table)
    BY <1>0, <1>1 DEF Scoped
  <2>2. Typed(table') /\ SamePlaces(table, table')
    BY <1>4, <1>6, <2>1, WithTransitionsTable
  <2> QED
    BY <1>0, <2>2, SamePlacesNested DEF Scoped
<1>8. /\ desc' \in [type : {"NONE", "ROOT"} \cup STATES, children : Nat, block : BOOLEAN]
      /\ desc'.type = desc.type
  BY <1>0, <1>4, DescTyped DEF TypeOK
<1>9. TypeOK'
  <2>1. DOMAIN table' \subseteq Names /\ table' \in [DOMAIN table' -> Seq(AllInfos)]
    BY <1>7 DEF Scoped, Typed
  <2>2. budget' \in TextTypes
    BY <1>0, <1>4, BlockTyped DEF TypeOK
  <2> QED
    BY <1>0, <1>4, <1>5, <1>6, <1>8, <2>1, <2>2 DEF TypeOK
<1>10. StackShape'
  <2>1. NamePtr(stack'[scope + 1])
    <3>1. scope + 1 \in 1 .. scope + 1
      BY <1>0
    <3> QED
      BY <1>2, <1>5, <3>1
  <2>2. \A k \in 1 .. scope : stack'[k].tag = "ptr" /\ (stack'[k].val = NIL <=> k = 1)
    <3>1. \A k \in 1 .. scope : k \in 1 .. scope + 1
      BY <1>0
    <3> QED
      BY <1>2, <1>5, <3>1
  <2>3. at' = "transitions" /\ scope' = scope /\ sy_parent' = sy_parent /\ desc'.type \in STATES
        /\ written'.targets
    BY <1>2, <1>4, <1>8
  <2> QED
    BY <1>0, <1>2, <1>5, <2>1, <2>2, <2>3 DEF StackShape, Inside, InDescribed, NamePtr
<1>11. ScopeParents' = ScopeParents
  <2>1. stack'[scope + 1] = stack[scope + 1] /\ \A k \in 1 .. scope : stack'[k] = stack[k]
    <3>1. scope + 1 \in 1 .. scope + 1 /\ \A k \in 1 .. scope : k \in 1 .. scope + 1
      BY <1>0
    <3> QED
      BY <1>5, <3>1
  <2>2. (InHeader' <=> InHeader) /\ (InHeader => Header' = Header) /\ Inside /\ Inside'
    BY <1>0, <1>4, <1>8, <2>1 DEF InHeader, Inside, Header
  <2> QED
    BY <1>0, <1>4, <2>1, <2>2, ParentsKept
<1> QED
  BY <1>7, <1>9, <1>10, <1>11, ScopedInv

\* The words of a transition whose action has not been read.
Targeted(q, n) ==
    /\ q \in Seq(Items) /\ n \in Nat /\ Len(q) = scope + 4 + 2 * n
    /\ NamePtr(q[scope + 1])
    /\ \A i \in 1 .. n : NamePtr(q[scope + 2 * i]) /\ q[scope + 2 * i + 1].tag = "int"
    /\ q[scope + 2 + 2 * n] = Num(n)
    /\ q[scope + 3 + 2 * n].tag = "ptr"
    /\ q[scope + 4 + 2 * n].tag = "int"
    /\ \A k \in 1 .. scope + 1 : q[k] = stack[k]

LEMMA WholeAfter ==
    ASSUME scope \in Nat, NEW q, NEW n, Targeted(q, n), NEW id \in Nat
    PROVE  Whole(q \o <<Num(id)>>, n)
<1> DEFINE s == q \o <<Num(id)>>
           l == scope + 4 + 2 * n
<1>1. /\ q \in Seq(Items) /\ n \in Nat /\ Len(q) = l /\ l \in Nat /\ l + 1 = scope + 5 + 2 * n
      /\ Num(id) \in Items /\ Num(id).tag = "int"
  BY ItemsTyped DEF Targeted, Num
<1>2. /\ s \in Seq(Items) /\ Len(s) = l + 1 /\ s[l + 1] = Num(id)
      /\ \A k \in 1 .. l : s[k] = q[k]
  BY <1>1, PushedOne
<1> HIDE DEF s
<1>3. /\ scope + 1 \in 1 .. l /\ scope + 2 + 2 * n \in 1 .. l /\ scope + 3 + 2 * n \in 1 .. l
      /\ l \in 1 .. l
      /\ \A i \in 1 .. n : scope + 2 * i \in 1 .. l /\ scope + 2 * i + 1 \in 1 .. l
      /\ \A k \in 1 .. scope + 1 : k \in 1 .. l
  BY <1>1 DEF l
<1>4. /\ NamePtr(q[scope + 1]) /\ q[scope + 2 + 2 * n] = Num(n)
      /\ \A i \in 1 .. n : NamePtr(q[scope + 2 * i]) /\ q[scope + 2 * i + 1].tag = "int"
      /\ q[scope + 3 + 2 * n].tag = "ptr" /\ q[l].tag = "int"
      /\ \A k \in 1 .. scope + 1 : q[k] = stack[k]
  BY DEF Targeted, l
<1>5. Len(s) = scope + 5 + 2 * n /\ s[scope + 5 + 2 * n] = Num(id)
  BY <1>1, <1>2
<1> HIDE DEF l
<1>6. /\ NamePtr(s[scope + 1]) /\ s[scope + 2 + 2 * n] = Num(n)
      /\ \A i \in 1 .. n : NamePtr(s[scope + 2 * i]) /\ s[scope + 2 * i + 1].tag = "int"
      /\ s[scope + 3 + 2 * n].tag = "ptr" /\ s[l].tag = "int"
      /\ \A k \in 1 .. scope + 1 : s[k] = stack[k]
  BY <1>2, <1>3, <1>4
<1>7. s[scope + 4 + 2 * n].tag = "int"
  BY <1>6 DEF l
<1>8. Whole(s, n)
  BY <1>1, <1>2, <1>5, <1>6, <1>7 DEF Whole
<1> QED
  BY <1>8 DEF s

\* The transition's words, as they are when its action is read.
LEMMA ActionTargeted ==
    ASSUME ParserInv, at = "action", written.targets
    PROVE  \E n \in Nat : Targeted(stack, n)
<1>0. StackShape /\ scope \in Nat /\ stack \in Seq(Items)
  BY ScopedOf
<1>1. PICK n \in Nat : /\ Len(stack) = scope + 4 + 2 * n /\ CountedEvents(n)
                       /\ stack[scope + 3 + 2 * n].tag = "ptr" /\ stack[scope + 4 + 2 * n].tag = "int"
  BY <1>0 DEF StackShape
<1>2. NamePtr(stack[scope + 1])
  BY <1>0 DEF StackShape, InDescribed
<1>3. Targeted(stack, n)
  BY <1>0, <1>1, <1>2 DEF Targeted, CountedEvents, EventsOnStack
<1> QED
  BY <1>3

\* ... and those of one without a target.
LEMMA InternalTargeted ==
    ASSUME ParserInv, at = "type"
    PROVE  \E n \in Nat : Targeted(stack \o <<Ptr(NIL), Num(0)>>, n)
<1> DEFINE q == stack \o <<Ptr(NIL), Num(0)>>
<1>0. StackShape /\ scope \in Nat /\ stack \in Seq(Items) /\ Len(stack) \in Nat
  BY ScopedOf
<1>1. PICK n \in Nat : Len(stack) = scope + 2 + 2 * n /\ CountedEvents(n)
  BY <1>0, EventsRead
<1>2. NamePtr(stack[scope + 1])
  BY <1>0, EventsRead
<1>3. Ptr(NIL) \in Items /\ Num(0) \in Items /\ Ptr(NIL).tag = "ptr" /\ Num(0).tag = "int"
  BY ItemsTyped DEF Ptr, Num
<1>4. /\ q \in Seq(Items) /\ Len(q) = Len(stack) + 2
      /\ \A k \in 1 .. Len(stack) : q[k] = stack[k]
      /\ q[Len(stack) + 1] = Ptr(NIL) /\ q[Len(stack) + 2] = Num(0)
  BY <1>0, <1>3, PushedTwo
<1> DEFINE l == scope + 2 + 2 * n
<1>5. /\ scope + 1 \in 1 .. l /\ l \in 1 .. l /\ l + 1 = scope + 3 + 2 * n /\ l + 2 = scope + 4 + 2 * n
      /\ \A i \in 1 .. n : scope + 2 * i \in 1 .. l /\ scope + 2 * i + 1 \in 1 .. l
      /\ \A k \in 1 .. scope + 1 : k \in 1 .. l
  BY <1>0
<1> HIDE DEF q
<1>6. /\ Len(stack) = l /\ stack[l] = Num(n)
      /\ \A i \in 1 .. n : NamePtr(stack[scope + 2 * i]) /\ stack[scope + 2 * i + 1].tag = "int"
  BY <1>1 DEF CountedEvents, EventsOnStack
<1>7. Len(q) = scope + 4 + 2 * n /\ q[l + 1] = Ptr(NIL) /\ q[l + 2] = Num(0) /\ q[l] = Num(n)
  BY <1>4, <1>5, <1>6
<1>8. /\ NamePtr(q[scope + 1])
      /\ \A i \in 1 .. n : NamePtr(q[scope + 2 * i]) /\ q[scope + 2 * i + 1].tag = "int"
      /\ \A k \in 1 .. scope + 1 : q[k] = stack[k]
  <2> HIDE DEF l
  <2> QED
    BY <1>2, <1>4, <1>5, <1>6
<1>9. Targeted(q, n)
  BY <1>3, <1>4, <1>5, <1>7, <1>8 DEF Targeted
<1> QED
  BY <1>9 DEF q

LEMMA WholeTransitionInv ==
    ASSUME ParserInv, at \in {"action", "type"}, written.targets, NEW action \in BOOLEAN,
           NEW items, transition(items, action), NEW n \in Nat, Targeted(stack \o items, n)
    PROVE  ParserInv'
<1> DEFINE id == IF action THEN ids.action + 1 ELSE 0
           s == stack \o items \o <<Num(id)>>
<1>0. TypeOK /\ scope \in Nat
  BY ScopedOf
<1>1. ids \in [condition : Nat, target : Nat, action : Nat]
  BY <1>0 DEF TypeOK
<1>2. id \in Nat /\ ids.action \in Nat
  BY <1>1
<1>3. [ids EXCEPT !.action = IF action THEN id ELSE ids.action]
        \in [condition : Nat, target : Nat, action : Nat]
  BY <1>1, <1>2
<1>4. Whole(s, n)
  <2> HIDE DEF id
  <2> QED
    BY <1>0, <1>2, WholeAfter
<1>5. \/ Undefined
      \/ /\ TransitionMade(s, action)
         /\ ids' = [ids EXCEPT !.action = IF action THEN id ELSE ids.action]
  BY Zenon DEF transition, TransitionMade
<1> HIDE DEF s, id
<1> QED
  BY <1>3, <1>4, <1>5, UndefinedInv, TransitionMadeInv

\* Without a target the pops meet an item of the wrong kind.
LEMMA NoTargetTransition ==
    ASSUME ParserInv, at = "action", ~written.targets, NEW action \in BOOLEAN,
           transition(<<>>, action)
    PROVE  Undefined
<1> DEFINE id == IF action THEN ids.action + 1 ELSE 0
           s == stack \o <<>> \o <<Num(id)>>
<1>0. /\ TypeOK /\ StackShape /\ scope \in Nat /\ stack \in Seq(Items) /\ Len(stack) \in Nat
  BY ScopedOf
<1>1. scope > 0 /\ \E n \in 0 .. Len(stack) : Len(stack) = scope + 2 + 2 * n /\ CountedEvents(n)
  BY <1>0 DEF StackShape
<1>2. PICK n \in Nat : Len(stack) = scope + 2 + 2 * n /\ CountedEvents(n)
  BY <1>1
<1>3. s = stack \o <<Num(id)>>
  BY <1>0
<1>4. id \in Nat
  <2>1. ids \in [condition : Nat, target : Nat, action : Nat]
    BY <1>0 DEF TypeOK
  <2> QED
    BY <2>1
<1>5. Num(id) \in Items
  BY <1>4, ItemsTyped
<1> HIDE DEF s, id
<1>6. Len(s) = scope + 3 + 2 * n /\ \A k \in 1 .. scope + 2 + 2 * n : s[k] = stack[k]
  <2>1. Len(s) = Len(stack) + 1 /\ \A k \in 1 .. Len(stack) : s[k] = stack[k]
    BY <1>0, <1>3, <1>5, PushedOne, Zenon
  <2>2. Len(stack) = scope + 2 + 2 * n /\ Len(stack) + 1 = scope + 3 + 2 * n
    BY <1>0, <1>2
  <2> QED
    BY <2>1, <2>2
<1>7. ~TransitionTyped(s)
  <2>1. CASE n = 0
    <3>1. Len(s) - 3 = scope /\ scope \in 1 .. scope + 2 + 2 * n
      BY <1>0, <1>1, <1>6, <2>1
    <3>2. stack[scope].tag = "ptr"
      BY <1>0, <1>1 DEF StackShape, Inside
    <3> QED
      BY <1>6, <3>1, <3>2 DEF TransitionTyped
  <2>2. CASE n # 0
    <3>1. Len(s) - 2 = scope + 2 * n + 1 /\ scope + 2 * n + 1 \in 1 .. scope + 2 + 2 * n
      BY <1>0, <1>6
    <3>2. n \in 1 .. n
      BY <2>2
    <3>3. stack[scope + 2 * n + 1].tag = "int"
      BY <1>2, <3>2 DEF CountedEvents, EventsOnStack
    <3> QED
      BY <1>6, <3>1, <3>3 DEF TransitionTyped
  <2> QED
    BY <2>1, <2>2
<1> QED
  BY <1>7, Zenon DEF transition, s, id

LEMMA TransitionExternalInv ==
    ASSUME ParserInv, NEW action \in BOOLEAN, transition_external(action)
    PROVE  ParserInv'
<1>0. at = "action" /\ transition(<<>>, action)
  BY DEF transition_external
<1>1. CASE written.targets
  <2>1. PICK n \in Nat : Targeted(stack, n)
    BY <1>0, <1>1, ActionTargeted
  <2>2. stack \o <<>> = stack
    BY ScopedOf, <1>0
  <2> QED
    BY <1>0, <1>1, <2>1, <2>2, WholeTransitionInv
<1>2. CASE ~written.targets
  BY <1>0, <1>2, NoTargetTransition, UndefinedInv
<1> QED
  BY <1>1, <1>2

LEMMA TransitionInternalInv ==
    ASSUME ParserInv, transition_internal
    PROVE  ParserInv'
<1>0. at = "type" /\ transition(<<Ptr(NIL), Num(0)>>, TRUE)
  BY DEF transition_internal
<1>1. PICK n \in Nat : Targeted(stack \o <<Ptr(NIL), Num(0)>>, n)
  BY <1>0, InternalTargeted
<1>2. written.targets
  BY <1>0, EventsRead
<1> QED
  BY <1>0, <1>1, <1>2, WholeTransitionInv

LEMMA UserEventSpecInv ==
    ASSUME ParserInv, NEW e \in budget.events, NEW c \in BOOLEAN,
           event_condition_spec(user_event(e), c)
    PROVE  ParserInv'
<1>1. TypeOK /\ Scoped(table, ScopeParents)
  BY ScopedOf DEF event_condition_spec
<1>2. e \in Identifiers
  <2>1. budget \in TextTypes
    BY <1>1 DEF TypeOK
  <2> QED
    BY <2>1, BudgetTyped
<1>3. EventNamed(user_event(e), ScopeParents)
  BY <1>1, <1>2, UserEventScoped DEF EventNamed
<1> QED
  BY <1>3, EventConditionSpecInv

LEMMA EnexEventSpecInv ==
    ASSUME ParserInv, NEW k \in {"enter", "exit"}, NEW r \in budget.refs,
           event_condition_spec(enex_event(k, r), FALSE)
    PROVE  ParserInv'
<1>1. /\ TypeOK /\ scope \in Nat /\ Scoped(table, ScopeParents)
      /\ DOMAIN ScopeParents \subseteq Nat \ {0, 1}
  BY ScopedOf DEF event_condition_spec
<1>2. r \in References
  <2>1. budget \in TextTypes
    BY <1>1 DEF TypeOK
  <2> QED
    BY <2>1, BudgetTyped
<1>3. EventNamed(enex_event(k, r), ScopeParents)
  BY <1>1, <1>2, EnexEventScoped DEF EventNamed
<1> QED
  BY <1>3, EventConditionSpecInv

LEMMA NextInv ==
    ASSUME ParserInv, [Next]_vars
    PROVE  ParserInv'
<1>1. ASSUME NEW h \in budget.histories, NEW d \in BOOLEAN, NEW p \in BOOLEAN,
             chsm_description(h, d, p)
      PROVE  ParserInv'
  BY <1>1, ChsmDescriptionInv
<1>2. CASE body_begin
  BY <1>2, BodyBeginInv
<1>3. CASE body_end
  BY <1>3, BodyEndInv
<1>4. ASSUME NEW i \in budget.idents, state_description(i) \/ child(i)
      PROVE  ParserInv'
  BY <1>4, StateDescriptionInv, ChildInv
<1>5. ASSUME NEW i \in budget.idents, NEW t \in budget.parents, parent_description(i, t)
      PROVE  ParserInv'
  BY <1>5, ParentDescriptionInv
<1>6. ASSUME NEW h \in budget.histories, parent_declared(h)
      PROVE  ParserInv'
  BY <1>6, ParentDeclaredInv
<1>7. ASSUME NEW k \in {"enter", "exit"}, enter_exit_action(k)
      PROVE  ParserInv'
  BY <1>7, EnterExitActionInv
<1>8. CASE spec_end
  BY <1>8, SpecEndInv
<1>9. CASE NullChsm
  BY <1>9, NullChsmInv
<1>10. ASSUME NEW e \in budget.events, NEW b \in Bases, NEW p \in {0, 1},
              NEW c \in budget.preconditions, event_description(e, b, p, c)
       PROVE  ParserInv'
  BY <1>10, EventDescriptionInv
<1>11. CASE transition_begin
  BY <1>11, TransitionBeginInv
<1>12. ASSUME NEW e \in budget.events, NEW c \in BOOLEAN, event_condition_spec(user_event(e), c)
       PROVE  ParserInv'
  BY <1>12, UserEventSpecInv
<1>13. ASSUME NEW k \in {"enter", "exit"}, NEW r \in budget.refs,
              event_condition_spec(enex_event(k, r), FALSE)
       PROVE  ParserInv'
  BY <1>13, EnexEventSpecInv
<1>14. CASE event_error
  BY <1>14, EventErrorInv
<1>15. ASSUME NEW r \in budget.refs, target_state(r) \/ embedded_state_name(r)
       PROVE  ParserInv'
  BY <1>15, TargetStateInv, EmbeddedStateNameInv
<1>16. ASSUME NEW e \in budget.events, embedded_event_name(e)
       PROVE  ParserInv'
  BY <1>16, EmbeddedEventNameInv
<1>17. CASE target_function \/ target_error
  BY <1>17, TargetFunctionInv, TargetErrorInv
<1>18. ASSUME NEW a \in BOOLEAN, transition_external(a)
       PROVE  ParserInv'
  BY <1>18, TransitionExternalInv
<1>19. CASE transition_internal
  BY <1>19, TransitionInternalInv
<1>20. CASE chsm
  BY <1>20, ChsmInv
<1>21. CASE Finished \/ UNCHANGED vars
  BY <1>21, FinishedInv DEF Finished
<1> QED
  BY <1>1, <1>2, <1>3, <1>4, <1>5, <1>6, <1>7, <1>8, <1>9, <1>10, <1>11, <1>12, <1>13, <1>14,
     <1>15, <1>16, <1>17, <1>18, <1>19, <1>20, <1>21 DEF Next

\* The parser keeps its variables in their types, its scopes nested, its semantic stack in the
\* shape of what is being parsed and the texts it reads within what is described: the inductive
\* invariant that the others rest on.
THEOREM ParserInvariant == Spec => []ParserInv
<1>1. ParserInv /\ [Next]_vars => ParserInv'
  BY NextInv
<1> QED
  BY InitInv, <1>1, PTL DEF Spec

\* Scopes nest: every info of a symbol belongs to the machine or to a body that is open, the
\* innermost first.
THEOREM InfosNested == Spec => []ScopesNested
<1>1. ParserInv => ScopesNested
  BY DEF ParserInv
<1> QED
  BY ParserInvariant, <1>1, PTL

LEMMA ShapeBalanced ==
    ASSUME ParserInv
    PROVE  StackBalanced
<1>0. TypeOK /\ StackShape /\ scope \in Nat /\ stack \in Seq(Items) /\ Len(stack) \in Nat
  BY InvFacts, LenProperties DEF TypeOK
<1> SUFFICES ASSUME written.targets PROVE StackBalanced
  BY DEF StackBalanced
<1>1. CASE at = "description"
  BY <1>0, <1>1 DEF StackShape, StackBalanced
<1>2. CASE at \in {"is", "actions", "transitions"}
  BY <1>0, <1>2 DEF StackShape, StackBalanced
<1>3. CASE at \in {"children", "event"}
  BY <1>0, <1>3 DEF StackShape, StackBalanced
<1>4. CASE at = "type"
  <2>1. PICK n \in Nat : Len(stack) = scope + 2 + 2 * n /\ Peek(0) = Num(n)
    BY <1>4, EventsRead
  <2>2. Peek(0).val = n
    BY <2>1 DEF Num
  <2> QED
    BY <1>0, <1>4, <2>1, <2>2 DEF StackBalanced
<1>5. CASE at = "action"
  <2>1. PICK n \in Nat : Len(stack) = scope + 4 + 2 * n /\ stack[scope + 2 + 2 * n] = Num(n)
    BY <1>0, <1>5 DEF StackShape, CountedEvents
  <2>2. Len(stack) - 2 = scope + 2 + 2 * n
    BY <1>0, <2>1
  <2>3. Peek(2).tag = "int" /\ Peek(2).val = n
    BY <2>1, <2>2 DEF Peek, Num
  <2> QED
    BY <1>0, <1>5, <2>1, <2>3 DEF StackBalanced
<1>6. CASE at \in {"end", "done"}
  BY <1>0, <1>6 DEF StackShape, StackBalanced
<1>7. CASE at \in {"chsm", "undefined"}
  BY <1>7 DEF StackBalanced
<1> QED
  BY <1>0, <1>1, <1>2, <1>3, <1>4, <1>5, <1>6, <1>7 DEF TypeOK

\* The pops match the pushes, whatever is described, however deeply.
THEOREM StackAlwaysBalanced == Spec => []StackBalanced
  BY ParserInvariant, ShapeBalanced, PTL
=================================================================================
