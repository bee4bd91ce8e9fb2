----------------------------- MODULE CompilerProofs -----------------------------
(***************************************************************************)
(* Proof that the compiler's tables stay what its generators take them for *)
(* while any description is parsed: that a symbol is what it was checked   *)
(* to be, that the transitions of an event are in the order in which they  *)
(* must be tried, that events follow those they are derived from, that     *)
(* histories are inherited, and that no symbol is erased while it is       *)
(* pointed to.                                                             *)
(***************************************************************************)
EXTENDS ParserProofs

-----------------------------------------------------------------------------
(* The infos of a symbol as a set. *)

\* The table r has what t has and the new infos; of the symbols lost the forward reference
\* may be gone, and of any symbol the children of closed scopes.
Grown(t, r, new, lost) ==
    /\ \A n : \A x \in InfoSet(r, n) :
          (\E y \in InfoSet(t, n) : Like(x, y)) \/ (\E e \in new : e[1] = n /\ Like(x, e[2]))
    /\ \A n : \A y \in InfoSet(t, n) :
          \/ y.type = "CHILD"
          \/ y.type = "GLOBAL" /\ n \in lost
          \/ \E x \in InfoSet(r, n) : Like(x, y)
    /\ \A e \in new : e[2].type # "CHILD" => \E x \in InfoSet(r, e[1]) : Like(x, e[2])

\* No ids were added.
IdsKept(t, r) ==
    \A n : \A x \in InfoSet(r, n) :
        x.type \in EVENT =>
            x.tids = <<>> \/ \E y \in InfoSet(t, n) : y.type \in EVENT /\ x.tids = y.tids

\* Symbols keep an info.
Kept(t, r, lost) == \A n : InfoSet(t, n) # {} => n \in lost \/ InfoSet(r, n) # {}

\* What an operation on the table does.
Grows(t, r, new, lost) ==
    /\ Typed(r) /\ DOMAIN t \subseteq DOMAIN r /\ Kept(t, r, lost)
    /\ Grown(t, r, new, lost) /\ IdsKept(t, r)

LEMMA InfoSetIs ==
    ASSUME NEW t, Typed(t), NEW n
    PROVE  /\ InfoSet(t, n) \subseteq AllInfos
           /\ InfoSet(t, n) = {Infos(t, n)[i] : i \in 1 .. Len(Infos(t, n))}
           /\ n \notin DOMAIN t => InfoSet(t, n) = {}
           /\ n \in DOMAIN t => Infos(t, n) = t[n]
           /\ InfoSet(t, n) = {} <=> Infos(t, n) = <<>>
<1>1. Infos(t, n) \in Seq(AllInfos)
  BY InfosTyped
<1>2. InfoSet(t, n) = {Infos(t, n)[i] : i \in DOMAIN Infos(t, n)}
  BY DEF InfoSet, ToSet
<1>3. DOMAIN Infos(t, n) = 1 .. Len(Infos(t, n)) /\ Len(Infos(t, n)) \in Nat
  BY <1>1, LenProperties
<1>4. InfoSet(t, n) \subseteq AllInfos
  BY <1>1, <1>2, ElementOfSeq
<1>5. n \notin DOMAIN t => Infos(t, n) = <<>>
  BY DEF Infos
<1>6. n \in DOMAIN t => Infos(t, n) = t[n]
  BY DEF Infos
<1>7. Infos(t, n) # <<>> => 1 \in 1 .. Len(Infos(t, n))
  BY <1>1, <1>3, EmptySeq
<1>8. InfoSet(t, n) = {} <=> Infos(t, n) = <<>>
  BY <1>2, <1>3, <1>7
<1> QED
  BY <1>2, <1>3, <1>4, <1>5, <1>6, <1>8

LEMMA LikeLaws ==
    /\ \A a : Like(a, a)
    /\ \A a, b, c : Like(a, b) /\ Like(b, c) => Like(a, c)
    /\ \A a, b : Like(a, b) => a.type = b.type
  BY DEF Like

LEMMA IdsKeptTwice ==
    ASSUME NEW t, NEW r, NEW s, IdsKept(t, r), IdsKept(r, s)
    PROVE  IdsKept(t, s)
<1> SUFFICES ASSUME NEW n, NEW x \in InfoSet(s, n), x.type \in EVENT, x.tids # <<>>
             PROVE  \E y \in InfoSet(t, n) : y.type \in EVENT /\ x.tids = y.tids
  BY DEF IdsKept
<1>1. PICK y \in InfoSet(r, n) : y.type \in EVENT /\ x.tids = y.tids
  BY DEF IdsKept
<1>2. PICK z \in InfoSet(t, n) : z.type \in EVENT /\ y.tids = z.tids
  BY <1>1 DEF IdsKept
<1> QED
  BY <1>1, <1>2

LEMMA GrownTwice ==
    ASSUME NEW t, NEW r, NEW s, NEW A, NEW B, NEW L, NEW M, Grown(t, r, A, L), Grown(r, s, B, M),
           A = {} \/ M = {}
    PROVE  Grown(t, s, A \cup B, L \cup M)
<1>1. ASSUME NEW n, NEW x \in InfoSet(s, n)
      PROVE  \/ \E y \in InfoSet(t, n) : Like(x, y)
             \/ \E e \in A \cup B : e[1] = n /\ Like(x, e[2])
  <2>1. CASE \E e \in B : e[1] = n /\ Like(x, e[2])
    BY <2>1
  <2>2. CASE \E y \in InfoSet(r, n) : Like(x, y)
    <3>1. PICK y \in InfoSet(r, n) : Like(x, y)
      BY <2>2
    <3>2. \/ \E z \in InfoSet(t, n) : Like(y, z)
          \/ \E e \in A : e[1] = n /\ Like(y, e[2])
      BY DEF Grown
    <3> QED
      BY <3>1, <3>2, LikeLaws, Zenon
  <2> QED
    BY <2>1, <2>2 DEF Grown
<1>2. ASSUME NEW n, NEW y \in InfoSet(r, n), y.type # "CHILD", y.type = "GLOBAL" => n \notin M
      PROVE  \E x \in InfoSet(s, n) : Like(x, y)
  BY <1>2 DEF Grown
<1>3. ASSUME NEW n, NEW y \in InfoSet(t, n), y.type # "CHILD",
             ~ (y.type = "GLOBAL" /\ n \in L \cup M)
      PROVE  \E x \in InfoSet(s, n) : Like(x, y)
  <2>1. PICK x \in InfoSet(r, n) : Like(x, y)
    BY <1>3 DEF Grown
  <2>2. x.type = y.type
    BY <2>1, LikeLaws
  <2>3. \E z \in InfoSet(s, n) : Like(z, x)
    BY <1>2, <1>3, <2>2
  <2> QED
    BY <2>1, <2>3, LikeLaws, Zenon
<1>4. ASSUME NEW e \in A \cup B, e[2].type # "CHILD"
      PROVE  \E x \in InfoSet(s, e[1]) : Like(x, e[2])
  <2>1. CASE e \in B
    BY <1>4, <2>1 DEF Grown
  <2>2. CASE e \in A
    <3>1. M = {}
      BY <2>2
    <3>2. PICK x \in InfoSet(r, e[1]) : Like(x, e[2])
      BY <1>4, <2>2 DEF Grown
    <3>3. x.type # "CHILD"
      BY <1>4, <3>2, LikeLaws
    <3>4. PICK z \in InfoSet(s, e[1]) : Like(z, x)
      BY <1>2, <3>1, <3>3
    <3> QED
      BY <3>2, <3>4, LikeLaws, Zenon
  <2> QED
    BY <2>1, <2>2
<1> QED
  BY <1>1, <1>3, <1>4 DEF Grown

LEMMA GrowsTwice ==
    ASSUME NEW t, NEW r, NEW s, NEW A, NEW B, NEW L, NEW M, Grows(t, r, A, L), Grows(r, s, B, M),
           A = {} \/ M = {}
    PROVE  Grows(t, s, A \cup B, L \cup M)
<1>1. Grown(t, s, A \cup B, L \cup M)
  BY GrownTwice DEF Grows
<1>2. Kept(t, s, L \cup M)
  BY DEF Grows, Kept
<1>3. Typed(s) /\ DOMAIN t \subseteq DOMAIN s
  BY DEF Grows
<1>4. IdsKept(t, s)
  BY IdsKeptTwice DEF Grows
<1> QED
  BY <1>1, <1>2, <1>3, <1>4 DEF Grows

LEMMA GrowsFromSame ==
    ASSUME NEW t, NEW r, Typed(t), Typed(r), DOMAIN t \subseteq DOMAIN r,
           \A n : InfoSet(r, n) = InfoSet(t, n)
    PROVE  Grows(t, r, {}, {})
  BY LikeLaws DEF Grows, Grown, IdsKept, Kept

LEMMA GrowsNot ==
    ASSUME NEW t, Typed(t)
    PROVE  Grows(t, t, {}, {})
  BY GrowsFromSame

LEMMA GrowsTouch ==
    ASSUME NEW t, Typed(t), NEW n \in Names
    PROVE  /\ Grows(t, Touch(t, n), {}, {})
           /\ \A m : InfoSet(Touch(t, n), m) = InfoSet(t, m)
           /\ n \in DOMAIN Touch(t, n)
<1>1. /\ Typed(Touch(t, n)) /\ DOMAIN Touch(t, n) = DOMAIN t \cup {n}
      /\ \A m : Infos(Touch(t, n), m) = Infos(t, m)
  BY TouchTable
<1>2. \A m : InfoSet(Touch(t, n), m) = InfoSet(t, m)
  BY <1>1 DEF InfoSet
<1> QED
  BY <1>1, <1>2, GrowsFromSame

WithInfo(t, n, si, r) ==
    /\ Typed(r) /\ DOMAIN r = DOMAIN t \cup {n}
    /\ InfoSet(r, n) = InfoSet(t, n) \cup {si}
    /\ \A m : m # n => InfoSet(r, m) = InfoSet(t, m)

LEMMA InsertedInfos ==
    ASSUME NEW t, Typed(t), NEW n \in Names, NEW si \in AllInfos
    PROVE  WithInfo(t, n, si, insert_info(t, n, si))
<1> DEFINE r == insert_info(t, n, si)
           list == Infos(t, n)
           k == Before(list, si.scope)
<1>1. list \in Seq(AllInfos) /\ si.scope \in Nat /\ \A i \in 1 .. Len(list) : list[i].scope \in Nat
  BY InfosTyped, InfoKinds, ElementOfSeq
<1>2. k \in 0 .. Len(list) /\ Len(list) \in Nat
  BY <1>1, BeforePlace, LenProperties
<1>3. InsertedAt(t, n, si, r, k)
  BY Inserted
<1> HIDE DEF r, k
<1>4. /\ Typed(r) /\ DOMAIN r = DOMAIN t \cup {n}
      /\ \A m : m # n => Infos(r, m) = Infos(t, m)
      /\ Infos(r, n) = r[n] /\ Len(r[n]) = Len(list) + 1
      /\ \A i \in 1 .. k : r[n][i] = list[i]
      /\ r[n][k + 1] = si
      /\ \A i \in k + 2 .. Len(list) + 1 : r[n][i] = list[i - 1]
  BY <1>3 DEF InsertedAt
<1>5. InfoSet(r, n) = {r[n][i] : i \in 1 .. Len(list) + 1}
  BY <1>4, InfoSetIs
<1>6. InfoSet(t, n) = {list[i] : i \in 1 .. Len(list)}
  BY InfoSetIs
<1> DEFINE q == r[n]
<1> HIDE DEF list, q
<1>7. ASSUME NEW i \in 1 .. Len(list) + 1
      PROVE  q[i] = si \/ \E j \in 1 .. Len(list) : q[i] = list[j]
  <2>1. CASE i \in 1 .. k
    BY <2>1, <1>2, <1>4 DEF q
  <2>2. CASE i = k + 1
    BY <2>2, <1>4 DEF q
  <2>3. CASE i \in k + 2 .. Len(list) + 1
    <3>1. i - 1 \in 1 .. Len(list)
      BY <2>3, <1>2
    <3> QED
      BY <2>3, <3>1, <1>4 DEF q
  <2> QED
    BY <2>1, <2>2, <2>3, <1>2
<1>8. ASSUME NEW j \in 1 .. Len(list)
      PROVE  \E i \in 1 .. Len(list) + 1 : q[i] = list[j]
  <2>1. CASE j \in 1 .. k
    BY <2>1, <1>2, <1>4 DEF q
  <2>2. CASE j \notin 1 .. k
    <3>1. j + 1 \in k + 2 .. Len(list) + 1 /\ j + 1 \in 1 .. Len(list) + 1 /\ (j + 1) - 1 = j
      BY <2>2, <1>2
    <3>2. q[j + 1] = list[(j + 1) - 1]
      BY <3>1, <1>4 DEF q
    <3> QED
      BY <3>1, <3>2
  <2> QED
    BY <2>1, <2>2
<1>9. k + 1 \in 1 .. Len(list) + 1 /\ q[k + 1] = si
  BY <1>2, <1>4 DEF q
<1>10. {q[i] : i \in 1 .. Len(list) + 1} = {list[i] : i \in 1 .. Len(list)} \cup {si}
  BY <1>7, <1>8, <1>9
<1>11. InfoSet(r, n) = InfoSet(t, n) \cup {si}
  BY <1>5, <1>6, <1>10 DEF q
<1>12. \A m : m # n => InfoSet(r, m) = InfoSet(t, m)
  BY <1>4 DEF InfoSet
<1> QED
  BY <1>4, <1>11, <1>12 DEF r, WithInfo

\* No transition is on a new info.
LEMMA GrowsInsert ==
    ASSUME NEW t, Typed(t), NEW n \in Names, NEW si \in AllInfos,
           si.type \in EVENT => si.tids = <<>>
    PROVE  Grows(t, insert_info(t, n, si), {<<n, si>>}, {})
<1> DEFINE r == insert_info(t, n, si)
<1>1. /\ Typed(r) /\ DOMAIN r = DOMAIN t \cup {n}
      /\ InfoSet(r, n) = InfoSet(t, n) \cup {si}
      /\ \A m : m # n => InfoSet(r, m) = InfoSet(t, m)
  <2>1. WithInfo(t, n, si, r)
    BY InsertedInfos
  <2> HIDE DEF r
  <2> QED
    BY <2>1 DEF WithInfo
<1> HIDE DEF r
<1>2. ASSUME NEW m, NEW x \in InfoSet(r, m)
      PROVE  \/ \E y \in InfoSet(t, m) : Like(x, y)
             \/ \E e \in {<<n, si>>} : e[1] = m /\ Like(x, e[2])
  <2>1. CASE x \in InfoSet(t, m)
    BY <2>1, LikeLaws
  <2>2. CASE x \notin InfoSet(t, m)
    <3>1. m = n /\ x = si
      BY <1>1, <2>2
    <3> QED
      BY <3>1, LikeLaws
  <2> QED
    BY <2>1, <2>2
<1>3. \A m : InfoSet(t, m) \subseteq InfoSet(r, m)
  BY <1>1
<1>4. \A m : \A y \in InfoSet(t, m) : \E x \in InfoSet(r, m) : Like(x, y)
  BY <1>3, LikeLaws
<1>5. \A e \in {<<n, si>>} : \E x \in InfoSet(r, e[1]) : Like(x, e[2])
  BY <1>1, LikeLaws
<1>6. Grown(t, r, {<<n, si>>}, {})
  BY <1>2, <1>4, <1>5, Zenon DEF Grown
<1>7. IdsKept(t, r)
  BY <1>1 DEF IdsKept
<1>8. Kept(t, r, {})
  BY <1>1 DEF Kept
<1> QED
  BY <1>1, <1>6, <1>7, <1>8 DEF Grows, r

LEMMA UpdatedInfos ==
    ASSUME NEW t, Typed(t), NEW n \in DOMAIN t, t[n] # <<>>, NEW si \in AllInfos
    PROVE  /\ Typed(Update(t, n, si)) /\ DOMAIN Update(t, n, si) = DOMAIN t
           /\ si \in InfoSet(Update(t, n, si), n) /\ t[n][1] \in InfoSet(t, n)
           /\ InfoSet(Update(t, n, si), n) \subseteq InfoSet(t, n) \cup {si}
           /\ InfoSet(t, n) \subseteq InfoSet(Update(t, n, si), n) \cup {t[n][1]}
           /\ \A m : m # n => InfoSet(Update(t, n, si), m) = InfoSet(t, m)
<1> DEFINE r == Update(t, n, si)
<1>1. UpdatedTo(t, n, si, r)
  BY Updated
<1> HIDE DEF r
<1>2. /\ Typed(r) /\ DOMAIN r = DOMAIN t
      /\ \A m : m # n => Infos(r, m) = Infos(t, m)
      /\ Infos(r, n) = r[n] /\ Len(r[n]) = Len(t[n]) /\ r[n][1] = si
      /\ \A i \in 2 .. Len(t[n]) : r[n][i] = t[n][i]
  BY <1>1 DEF UpdatedTo
<1>3. 1 \in 1 .. Len(t[n]) /\ Len(t[n]) \in Nat
  BY EmptySeq, LenProperties DEF Typed
<1>4. InfoSet(r, n) = {r[n][i] : i \in 1 .. Len(t[n])}
  BY <1>2, InfoSetIs
<1>5. InfoSet(t, n) = {t[n][i] : i \in 1 .. Len(t[n])}
  BY InfoSetIs
<1>6. \A i \in 1 .. Len(t[n]) : i = 1 \/ r[n][i] = t[n][i]
  BY <1>2, <1>3
<1>7. \A m : m # n => InfoSet(r, m) = InfoSet(t, m)
  BY <1>2 DEF InfoSet
<1>8. /\ si \in InfoSet(r, n) /\ t[n][1] \in InfoSet(t, n)
      /\ InfoSet(r, n) \subseteq InfoSet(t, n) \cup {si}
      /\ InfoSet(t, n) \subseteq InfoSet(r, n) \cup {t[n][1]}
  BY <1>2, <1>3, <1>4, <1>5, <1>6
<1> QED
  BY <1>2, <1>7, <1>8 DEF r

LEMMA GrowsUpdate ==
    ASSUME NEW t, Typed(t), NEW n \in DOMAIN t, t[n] # <<>>, NEW si \in AllInfos,
           Like(si, t[n][1]), si.type \in EVENT => si.tids = t[n][1].tids
    PROVE  Grows(t, Update(t, n, si), {}, {})
<1> DEFINE r == Update(t, n, si)
           old == t[n][1]
<1>1. /\ Typed(r) /\ DOMAIN r = DOMAIN t
      /\ si \in InfoSet(r, n) /\ old \in InfoSet(t, n)
      /\ InfoSet(r, n) \subseteq InfoSet(t, n) \cup {si}
      /\ InfoSet(t, n) \subseteq InfoSet(r, n) \cup {old}
      /\ \A m : m # n => InfoSet(r, m) = InfoSet(t, m)
  BY UpdatedInfos
<1>2. Like(si, old) /\ Like(old, si) /\ si.type = old.type
  BY DEF Like
<1>3. si.type \in EVENT => si.tids = old.tids
  OBVIOUS
<1> HIDE DEF r, old
<1>4. ASSUME NEW m, NEW x \in InfoSet(r, m)
      PROVE  \E y \in InfoSet(t, m) : Like(x, y)
  <2>1. CASE x \in InfoSet(t, m)
    BY <2>1, LikeLaws
  <2>2. CASE x \notin InfoSet(t, m)
    <3>1. m = n /\ x = si
      BY <1>1, <2>2
    <3> QED
      BY <3>1, <1>1, <1>2
  <2> QED
    BY <2>1, <2>2
<1>5. ASSUME NEW m, NEW y \in InfoSet(t, m)
      PROVE  \E x \in InfoSet(r, m) : Like(x, y)
  <2>1. CASE y \in InfoSet(r, m)
    BY <2>1, LikeLaws
  <2>2. CASE y \notin InfoSet(r, m)
    <3>1. m = n /\ y = old
      BY <1>1, <2>2
    <3> QED
      BY <3>1, <1>1, <1>2
  <2> QED
    BY <2>1, <2>2
<1>6. Grown(t, r, {}, {})
  BY <1>4, <1>5 DEF Grown
<1>7. IdsKept(t, r)
  BY <1>1, <1>2, <1>3 DEF IdsKept
<1>8. Kept(t, r, {})
  BY <1>1 DEF Kept
<1> QED
  BY <1>1, <1>6, <1>7, <1>8 DEF Grows, r

LEMMA GrowsDelete ==
    ASSUME NEW t, Typed(t), NEW n, type_of(t, n, 0) = "GLOBAL"
    PROVE  Grows(t, delete_info(t, n), {}, {n})
<1> DEFINE r == delete_info(t, n)
<1>0. /\ n \in DOMAIN t /\ t[n] # <<>> /\ t[n] \in Seq(AllInfos) /\ t[n][1].type = "GLOBAL"
  BY FirstInfo DEF Typed
<1>1. DeletedFrom(t, n, r)
  BY <1>0, Deleted
<1> HIDE DEF r
<1>2. /\ Typed(r) /\ DOMAIN r = DOMAIN t
      /\ \A m : m # n => Infos(r, m) = Infos(t, m)
      /\ Infos(r, n) = r[n] /\ Len(r[n]) = Len(t[n]) - 1
      /\ \A i \in 1 .. Len(t[n]) - 1 : r[n][i] = t[n][i + 1]
  BY <1>1 DEF DeletedFrom
<1>3. Len(t[n]) \in Nat \ {0}
  BY <1>0, EmptySeq, LenProperties
<1>4. InfoSet(r, n) = {r[n][i] : i \in 1 .. Len(t[n]) - 1}
  BY <1>2, InfoSetIs
<1>5. InfoSet(t, n) = {t[n][i] : i \in 1 .. Len(t[n])}
  BY <1>0, InfoSetIs
<1>6. \A m : m # n => InfoSet(r, m) = InfoSet(t, m)
  BY <1>2 DEF InfoSet
<1>7. InfoSet(r, n) \subseteq InfoSet(t, n)
  <2>1. \A i \in 1 .. Len(t[n]) - 1 : i + 1 \in 1 .. Len(t[n]) /\ r[n][i] = t[n][i + 1]
    BY <1>2, <1>3
  <2> QED
    BY <2>1, <1>4, <1>5
<1>8. ASSUME NEW y \in InfoSet(t, n), y \notin InfoSet(r, n)
      PROVE  y.type = "GLOBAL"
  <2>1. PICK i \in 1 .. Len(t[n]) : y = t[n][i]
    BY <1>5
  <2>2. CASE i = 1
    BY <1>0, <2>1, <2>2
  <2>3. CASE i # 1
    <3>1. i - 1 \in 1 .. Len(t[n]) - 1 /\ (i - 1) + 1 = i
      BY <2>1, <2>3, <1>3
    <3>2. r[n][i - 1] = y
      BY <3>1, <2>1, <1>2
    <3> QED
      BY <3>1, <3>2, <1>4, <1>8
  <2> QED
    BY <2>2, <2>3
<1>9. \A m : InfoSet(r, m) \subseteq InfoSet(t, m)
  BY <1>6, <1>7
<1>10. Grown(t, r, {}, {n})
  <2>1. \A m : \A x \in InfoSet(r, m) : \E y \in InfoSet(t, m) : Like(x, y)
    BY <1>9, LikeLaws
  <2>2. \A m : \A y \in InfoSet(t, m) : \/ y.type = "GLOBAL" /\ m \in {n}
                                       \/ \E x \in InfoSet(r, m) : Like(x, y)
    BY <1>6, <1>8, LikeLaws
  <2> QED
    BY <2>1, <2>2 DEF Grown
<1>11. IdsKept(t, r)
  BY <1>9 DEF IdsKept
<1>12. Kept(t, r, {n})
  BY <1>6 DEF Kept
<1> QED
  BY <1>2, <1>10, <1>11, <1>12 DEF Grows, r

\* Closing a scope takes only children away, and keeps each symbol that is something else.
LEMMA GrownClose ==
    ASSUME NEW t, Typed(t), NEW s \in Nat
    PROVE  /\ Grown(t, close_scope(t, s), {}, {}) /\ IdsKept(t, close_scope(t, s))
           /\ \A n : Own(t, n) # {} => n \in DOMAIN close_scope(t, s)
           /\ Typed(close_scope(t, s))
<1> DEFINE r == close_scope(t, s)
<1>1. CASE s <= 1
  <2>1. r = t
    BY <1>1 DEF close_scope
  <2>2. \A n : Own(t, n) # {} => n \in DOMAIN t
    BY InfoSetIs DEF Own
  <2> QED
    BY <2>1, <2>2, GrowsNot DEF Grows
<1>2. CASE ~ s <= 1
  <2>1. /\ DOMAIN r = {n \in DOMAIN t : Popped(t[n], s) # <<>>}
        /\ r = [n \in DOMAIN r |-> Popped(t[n], s)]
    BY <1>2 DEF close_scope
  <2>2. \A n \in DOMAIN t : t[n] \in Seq(AllInfos) /\ Popped(t[n], s) \in Seq(AllInfos)
    BY PoppedList DEF Typed, PoppedTo
  <2>3. Typed(r)
    BY <2>1, <2>2 DEF Typed
  <2>4. ASSUME NEW n \in DOMAIN t
        PROVE  /\ ToSet(Popped(t[n], s)) \subseteq InfoSet(t, n)
               /\ \A y \in InfoSet(t, n) : y \in ToSet(Popped(t[n], s)) \/ y.type = "CHILD"
    <3> DEFINE list == t[n]
               p == Popped(list, s)
    <3>1. PICK k \in 0 .. Len(list) : PoppedTo(list, s, p, k)
      BY <2>2, PoppedList
    <3>2. InfoSet(t, n) = {list[i] : i \in 1 .. Len(list)}
      BY InfoSetIs
    <3>3. list \in Seq(AllInfos) /\ p \in Seq(AllInfos)
      BY <2>2
    <3> HIDE DEF list, p
    <3>4. /\ \A i \in 1 .. k : list[i].scope = s
          /\ Len(p) = Len(list) - k
          /\ \A i \in 1 .. Len(list) - k : p[i] = list[k + i]
      BY <3>1 DEF PoppedTo
    <3>5. ToSet(p) = {p[i] : i \in 1 .. Len(list) - k} /\ Len(list) \in Nat
      BY <3>3, <3>4, LenProperties DEF ToSet
    <3>6. \A i \in 1 .. Len(list) - k : k + i \in 1 .. Len(list) /\ p[i] = list[k + i]
      BY <3>1, <3>4, <3>5
    <3>7. ToSet(p) \subseteq InfoSet(t, n)
      BY <3>2, <3>5, <3>6
    <3>8. ASSUME NEW i \in 1 .. Len(list)
          PROVE  list[i] \in ToSet(p) \/ list[i].type = "CHILD"
      <4>1. CASE i \in 1 .. k
        <5>1. list[i] \in AllInfos /\ list[i].scope = s
          BY <3>3, <3>4, <4>1, ElementOfSeq
        <5> QED
          BY <5>1, <1>2, InfoKinds DEF SCOPE_GLOBAL
      <4>2. CASE i \notin 1 .. k
        <5>1. i - k \in 1 .. Len(list) - k /\ k + (i - k) = i
          BY <4>2, <3>1, <3>5
        <5> QED
          BY <5>1, <3>5, <3>6
      <4> QED
        BY <4>1, <4>2
    <3> QED
      BY <3>2, <3>7, <3>8 DEF p, list
  <2>5. \A n \in DOMAIN r : InfoSet(r, n) = ToSet(Popped(t[n], s))
    BY <2>1 DEF InfoSet, Infos
  <2>6. \A n : n \notin DOMAIN r => InfoSet(r, n) = {}
    BY <2>3, InfoSetIs
  <2> HIDE DEF r
  <2>7. \A n : InfoSet(r, n) \subseteq InfoSet(t, n)
    BY <2>1, <2>4, <2>5, <2>6
  <2>8. ASSUME NEW n, NEW y \in InfoSet(t, n), y.type # "CHILD"
        PROVE  y \in InfoSet(r, n) /\ n \in DOMAIN r
    <3>1. n \in DOMAIN t
      BY InfoSetIs
    <3>2. y \in ToSet(Popped(t[n], s))
      BY <2>4, <2>8, <3>1
    <3>3. Popped(t[n], s) # <<>>
      BY <3>2 DEF ToSet
    <3> QED
      BY <2>1, <2>5, <3>1, <3>2, <3>3
  <2>9. Grown(t, r, {}, {})
    BY <2>7, <2>8, LikeLaws DEF Grown
  <2>10. IdsKept(t, r)
    BY <2>7 DEF IdsKept
  <2> QED
    BY <2>3, <2>8, <2>9, <2>10 DEF r, Own
<1> QED
  BY <1>1, <1>2

-----------------------------------------------------------------------------
(* What the infos say of their symbols. *)

LEMMA SoundKept ==
    ASSUME NEW t, Typed(t), InfosSound(t), NEW r, Typed(r), NEW L, Grown(t, r, {}, L)
    PROVE  InfosSound(r)
<1>1. ASSUME NEW n, NEW x \in InfoSet(r, n)
      PROVE  \E y \in InfoSet(t, n) : Like(x, y)
  BY DEF Grown
<1>2. ASSUME NEW n, NEW y \in InfoSet(t, n)
      PROVE  n \in DOMAIN t
  BY InfoSetIs
<1>3. ASSUME NEW n \in DOMAIN r, NEW a \in Own(r, n), NEW b \in Own(r, n)
      PROVE  a.type = b.type
  <2>1. PICK x \in InfoSet(t, n) : Like(a, x)
    BY <1>1 DEF Own
  <2>2. PICK y \in InfoSet(t, n) : Like(b, y)
    BY <1>1 DEF Own
  <2>3. x \in Own(t, n) /\ y \in Own(t, n) /\ n \in DOMAIN t
    BY <1>2, <2>1, <2>2, LikeLaws DEF Own
  <2> QED
    BY <2>1, <2>2, <2>3, LikeLaws DEF InfosSound
<1>4. ASSUME NEW n \in DOMAIN r, NEW x \in InfoSet(r, n)
      PROVE  NameFits(n, x)
  <2>1. PICK y \in InfoSet(t, n) : Like(x, y)
    BY <1>1
  <2>2. NameFits(n, y)
    BY <1>2 DEF InfosSound
  <2> QED
    BY <2>1, <2>2 DEF NameFits, Like, EVENT
<1> QED
  BY <1>3, <1>4 DEF InfosSound

LEMMA SoundInsert ==
    ASSUME NEW t, Typed(t), InfosSound(t), NEW n \in Names, NEW si \in AllInfos,
           NameFits(n, si), si.type # "CHILD" => Own(t, n) = {}
    PROVE  InfosSound(insert_info(t, n, si))
<1> DEFINE r == insert_info(t, n, si)
<1>1. WithInfo(t, n, si, r)
  BY InsertedInfos
<1> HIDE DEF r
<1>2. /\ Typed(r) /\ DOMAIN r = DOMAIN t \cup {n}
      /\ InfoSet(r, n) = InfoSet(t, n) \cup {si}
      /\ \A m : m # n => InfoSet(r, m) = InfoSet(t, m)
  BY <1>1 DEF WithInfo
<1>3. \A m : m \notin DOMAIN t => InfoSet(t, m) = {}
  BY InfoSetIs
<1>4. ASSUME NEW m \in DOMAIN r, NEW a \in Own(r, m), NEW b \in Own(r, m)
      PROVE  a.type = b.type
  <2>1. CASE m # n
    BY <1>2, <2>1 DEF InfosSound, Own
  <2>2. CASE m = n
    <3>1. CASE si.type = "CHILD"
      <4>1. a \in Own(t, n) /\ b \in Own(t, n)
        BY <1>2, <2>2, <3>1 DEF Own
      <4>2. n \in DOMAIN t
        BY <1>3, <4>1 DEF Own
      <4> QED
        BY <4>1, <4>2 DEF InfosSound
    <3>2. CASE si.type # "CHILD"
      <4>1. a = si /\ b = si
        BY <1>2, <2>2, <3>2 DEF Own
      <4> QED
        BY <4>1
    <3> QED
      BY <3>1, <3>2
  <2> QED
    BY <2>1, <2>2
<1>5. ASSUME NEW m \in DOMAIN r, NEW x \in InfoSet(r, m)
      PROVE  NameFits(m, x)
  BY <1>2, <1>3 DEF InfosSound
<1> QED
  BY <1>4, <1>5 DEF InfosSound, r

LEMMA IdsSoundKept ==
    ASSUME NEW t, Typed(t), NEW r, Typed(r), NEW c \in Nat, NEW d \in Nat, c <= d,
           IdsSound(t, c), IdsKept(t, r)
    PROVE  IdsSound(r, d)
<1> SUFFICES ASSUME NEW n \in DOMAIN r, NEW x \in InfoSet(r, n), x.type \in EVENT
             PROVE  /\ \A i, j \in DOMAIN x.tids : i < j => x.tids[i] < x.tids[j]
                    /\ \A i \in DOMAIN x.tids : x.tids[i] < d
  BY DEF IdsSound
<1>1. CASE x.tids = <<>>
  BY <1>1
<1>2. CASE x.tids # <<>>
  <2>1. PICK y \in InfoSet(t, n) : y.type \in EVENT /\ x.tids = y.tids
    BY <1>2 DEF IdsKept
  <2>2. n \in DOMAIN t /\ y \in AllInfos
    BY InfoSetIs
  <2>3. y.tids \in Seq(Nat)
    BY <2>1, <2>2, InfoKinds DEF EventInfos
  <2>4. \A i \in DOMAIN y.tids : y.tids[i] \in Nat
    BY <2>3, ElementOfSeq, LenProperties
  <2>5. /\ \A i, j \in DOMAIN y.tids : i < j => y.tids[i] < y.tids[j]
        /\ \A i \in DOMAIN y.tids : y.tids[i] < c
    BY <2>1, <2>2 DEF IdsSound
  <2> QED
    BY <2>1, <2>4, <2>5
<1> QED
  BY <1>1, <1>2

LEMMA FirstOfSet ==
    ASSUME NEW t, Typed(t), NEW n
    PROVE  /\ type_of(t, n, 0) # "NONE" =>
                /\ info(t, n, 0) \in InfoSet(t, n) /\ info(t, n, 0).type = type_of(t, n, 0)
                /\ n \in DOMAIN t
           /\ type_of(t, n, 0) = "NONE" <=> InfoSet(t, n) = {}
           /\ info(t, n, 0) = NIL <=> InfoSet(t, n) = {}
<1>1. ASSUME type_of(t, n, 0) # "NONE"
      PROVE  /\ info(t, n, 0) \in InfoSet(t, n) /\ info(t, n, 0).type = type_of(t, n, 0)
             /\ n \in DOMAIN t
  BY <1>1, FirstInfo, InfoSetIs, LenProperties
<1>2. type_of(t, n, 0) = "NONE" <=> InfoSet(t, n) = {}
  BY NoInfo, InfoSetIs
<1>3. info(t, n, 0) = NIL <=> InfoSet(t, n) = {}
  BY NoInfo, InfoSetIs
<1> QED
  BY <1>1, <1>2, <1>3

LEMMA GrownHas ==
    ASSUME NEW t, NEW r, NEW A, NEW L, Grown(t, r, A, L), NEW n
    PROVE  /\ HasState(t, n) => HasState(r, n)
           /\ HasEvent(t, n) => HasEvent(r, n)
           /\ HasState(r, n) => HasState(t, n) \/ \E e \in A : e[1] = n /\ e[2].type \in STATES
           /\ HasEvent(r, n) => HasEvent(t, n) \/ \E e \in A : e[1] = n /\ e[2].type \in EVENT
           /\ Own(t, n) # {} /\ n \notin L => Own(r, n) # {}
<1>1. "CHILD" \notin STATES \cup EVENT \cup {"GLOBAL"} /\ "GLOBAL" \notin STATES \cup EVENT
  BY DEF STATES, EVENT
<1>2. ASSUME NEW y \in Own(t, n), y.type # "GLOBAL" \/ n \notin L
      PROVE  \E x \in Own(r, n) : Like(x, y)
  <2>1. y \in InfoSet(t, n) /\ y.type # "CHILD"
    BY DEF Own
  <2>2. PICK x \in InfoSet(r, n) : Like(x, y)
    BY <1>2, <2>1 DEF Grown
  <2> QED
    BY <2>1, <2>2, LikeLaws DEF Own
<1>3. ASSUME NEW x \in Own(r, n), ~ \E e \in A : e[1] = n /\ e[2].type = x.type
      PROVE  \E y \in Own(t, n) : Like(x, y)
  <2>1. x \in InfoSet(r, n) /\ x.type # "CHILD"
    BY DEF Own
  <2>2. PICK y \in InfoSet(t, n) : Like(x, y)
    BY <1>3, <2>1, LikeLaws DEF Grown
  <2> QED
    BY <2>1, <2>2, LikeLaws DEF Own
<1>4. HasState(t, n) => HasState(r, n)
  BY <1>1, <1>2, LikeLaws DEF HasState
<1>5. HasEvent(t, n) => HasEvent(r, n)
  BY <1>1, <1>2, LikeLaws DEF HasEvent
<1>6. HasState(r, n) => HasState(t, n) \/ \E e \in A : e[1] = n /\ e[2].type \in STATES
  BY <1>1, <1>3, LikeLaws DEF HasState
<1>7. HasEvent(r, n) => HasEvent(t, n) \/ \E e \in A : e[1] = n /\ e[2].type \in EVENT
  BY <1>1, <1>3, LikeLaws DEF HasEvent
<1> QED
  BY <1>2, <1>4, <1>5, <1>6, <1>7

-----------------------------------------------------------------------------
(* The names of states in others. *)

StateNames == Seq(Identifiers) \ {<<>>}

LEMMA StateNamesAre ==
    /\ RootName \in StateNames /\ StateNames \subseteq Names
    /\ \A n \in Names : n # <<>> /\ Len(n) \in Nat \ {0} /\ DOMAIN n = 1 .. Len(n)
    /\ Identifiers \subseteq DOMAIN Spelling /\ "enter" \notin Identifiers /\ "exit" \notin Identifiers
    /\ "root" \in Identifiers
<1>1. Identifiers \subseteq DOMAIN Spelling /\ "enter" \notin Identifiers /\ "exit" \notin Identifiers
  BY DEF Identifiers
<1>2. "root" \in Identifiers
  BY IdentAssumption DEF Identifiers
<1>3. RootName \in StateNames
  BY <1>2 DEF StateNames, RootName
<1>4. StateNames \subseteq Names
  BY <1>1 DEF StateNames, Names
<1>5. \A n \in Names : n # <<>> /\ Len(n) \in Nat \ {0} /\ DOMAIN n = 1 .. Len(n)
  BY EmptySeq, LenProperties DEF Names
<1> QED
  BY <1>1, <1>2, <1>3, <1>4, <1>5

LEMMA AboveRoot == Above(RootName) = {RootName} /\ \A id : Above(<<id>>) = {RootName}
<1>1. \A id : Len(<<id>>) = 1
  OBVIOUS
<1> QED
  BY <1>1 DEF Above, RootName

LEMMA NameInStates ==
    ASSUME NEW p \in StateNames, NEW id \in Identifiers
    PROVE  /\ NameIn(p, id) \in StateNames
           /\ Above(NameIn(p, id)) = Above(p) \cup {p}
<1>1. p \in Seq(Identifiers) /\ Len(p) \in Nat \ {0}
  BY EmptySeq, LenProperties DEF StateNames
<1>2. CASE p = RootName
  <2>1. NameIn(p, id) = <<id>> /\ <<id>> \in StateNames
    BY <1>2 DEF NameIn, StateNames
  <2> QED
    BY <1>2, <2>1, AboveRoot
<1>3. CASE p # RootName
  <2> DEFINE q == Append(p, id)
  <2>1. NameIn(p, id) = q
    BY <1>3 DEF NameIn
  <2>2. /\ q \in Seq(Identifiers) /\ Len(q) = Len(p) + 1
        /\ \A i \in 1 .. Len(p) : q[i] = p[i]
    BY <1>1, AppendProperties
  <2>3. q \in StateNames
    BY <1>1, <2>2, EmptySeq DEF StateNames
  <2> HIDE DEF q
  <2>4. \A k \in 1 .. Len(p) : SubSeq(q, 1, k) = SubSeq(p, 1, k)
    <3> SUFFICES ASSUME NEW k \in 1 .. Len(p)
                 PROVE  SubSeq(q, 1, k) = SubSeq(p, 1, k)
      OBVIOUS
    <3>1. /\ SubSeq(q, 1, k) \in Seq(Identifiers) /\ Len(SubSeq(q, 1, k)) = k
          /\ \A i \in 1 .. k : SubSeq(q, 1, k)[i] = q[i]
      BY <1>1, <2>2, SubSeqProperties
    <3>2. /\ SubSeq(p, 1, k) \in Seq(Identifiers) /\ Len(SubSeq(p, 1, k)) = k
          /\ \A i \in 1 .. k : SubSeq(p, 1, k)[i] = p[i]
      BY <1>1, SubSeqProperties
    <3>3. \A i \in 1 .. k : SubSeq(q, 1, k)[i] = SubSeq(p, 1, k)[i]
      BY <3>1, <3>2, <2>2
    <3> QED
      BY <3>1, <3>2, <3>3, SeqEqual
  <2>5. SubSeq(p, 1, Len(p)) = p
    <3>1. /\ SubSeq(p, 1, Len(p)) \in Seq(Identifiers) /\ Len(SubSeq(p, 1, Len(p))) = Len(p)
          /\ \A i \in 1 .. Len(p) : SubSeq(p, 1, Len(p))[i] = p[i]
      BY <1>1, SubSeqProperties
    <3> QED
      BY <1>1, <3>1, SeqEqual
  <2>6. Len(q) - 1 = Len(p) /\ 1 .. Len(p) = (1 .. Len(p) - 1) \cup {Len(p)}
    BY <1>1, <2>2
  <2>7. Above(q) = {RootName} \cup {SubSeq(p, 1, k) : k \in 1 .. Len(p)}
    BY <2>4, <2>6 DEF Above
  <2>8. {SubSeq(p, 1, k) : k \in 1 .. Len(p)} = {SubSeq(p, 1, k) : k \in 1 .. Len(p) - 1} \cup {p}
    BY <2>5, <2>6
  <2> QED
    BY <2>1, <2>3, <2>7, <2>8 DEF Above
<1> QED
  BY <1>2, <1>3

\* The parents whose bodies are open lie in each other.
LEMMA LineageNames ==
    ASSUME ParserInv, Lineage
    PROVE  /\ Inside => \A k \in 1 .. scope : OpenParents[k] \in StateNames
           /\ Inside /\ scope > 0 => OpenParents[scope] = sy_parent /\ sy_parent \in StateNames
           /\ InDescribed => Current \in StateNames
           /\ at = "children" => Header \in StateNames /\ scope > 0
<1>1. scope \in Nat
  BY InvFacts
<1>2. ASSUME Inside, \E k \in 1 .. scope : OpenParents[k] \notin StateNames
      PROVE  FALSE
  <2> DEFINE S == {k \in 1 .. scope : OpenParents[k] \notin StateNames}
  <2>1. S \in SUBSET Nat /\ S # {}
    BY <1>1, <1>2
  <2>2. PICK m \in S : \A k \in S : m <= k
    <3> HIDE DEF S
    <3> QED
      BY <2>1, Least
  <2>3. OpenParents[1] = RootName
    BY <1>1, <1>2 DEF Lineage
  <2>4. m \in 2 .. scope
    BY <1>1, <2>2, <2>3, StateNamesAre
  <2>5. m - 1 \in 1 .. scope /\ m - 1 \notin S
    BY <1>1, <2>2, <2>4
  <2>6. PICK id \in Identifiers : OpenParents[m] = NameIn(OpenParents[m - 1], id)
    BY <1>2, <2>4 DEF Lineage
  <2>7. OpenParents[m - 1] \in StateNames
    BY <2>5
  <2> QED
    BY <2>2, <2>6, <2>7, NameInStates
<1>3. Inside /\ scope > 0 => OpenParents[scope] = sy_parent
  BY <1>1 DEF OpenParents
<1>4. Inside /\ scope > 0 => sy_parent \in StateNames
  BY <1>1, <1>2, <1>3
<1>5. InDescribed => Inside
  BY DEF InDescribed, Inside
<1>6. InDescribed => Current \in StateNames
  <2>1. CASE InDescribed /\ scope = 0
    BY <2>1, StateNamesAre DEF Lineage
  <2>2. CASE InDescribed /\ scope # 0
    BY <2>2, <1>1, <1>4, <1>5, NameInStates DEF Lineage
  <2> QED
    BY <2>1, <2>2
<1>7. at = "children" => Header \in StateNames /\ scope > 0
  <2> SUFFICES ASSUME at = "children"
               PROVE  Header \in StateNames /\ scope > 0
    OBVIOUS
  <2>1. scope > 0 /\ Inside
    BY InvFacts DEF StackShape, Inside
  <2> QED
    BY <2>1, <1>4, NameInStates DEF Lineage
<1> QED
  BY <1>2, <1>3, <1>4, <1>6, <1>7

-----------------------------------------------------------------------------
(* What names enter into the table. *)

\* The parents of the open scopes are named like states.
NamedScopes(ps) == DOMAIN ps \subseteq Nat \ {0, 1} /\ \A k \in DOMAIN ps : ps[k] \in StateNames

\* The symbol of a reference, in the table in which it was entered.
Referred(s, dots) ==
    /\ s.name \in StateNames /\ s.error \in BOOLEAN
    /\ Grows(table, s.table, {}, {}) \/ Grows(table, s.table, {<<s.name, global_info>>}, {})
    /\ InfosSound(s.table)
    /\ s.name \in DOMAIN s.table
    /\ dots = 0 /\ ~ s.error => LeadsToState(s.table, s.name)

LEMMA ForwardGrows ==
    ASSUME NEW t, Typed(t), InfosSound(t), NEW n \in StateNames
    PROVE  /\ \/ Grows(t, ForwardReference(t, n), {}, {})
              \/ Grows(t, ForwardReference(t, n), {<<n, global_info>>}, {})
           /\ InfosSound(ForwardReference(t, n))
           /\ n \in DOMAIN ForwardReference(t, n)
           /\ \/ LeadsToState(ForwardReference(t, n), n)
              \/ ForwardReference(t, n) = t /\ type_of(t, n, 0) # "NONE"
<1>1. n \in Names
  BY StateNamesAre
<1>2. global_info \in AllInfos /\ global_info.type = "GLOBAL"
  BY NewInfos, KindsAreInfos DEF global_info
<1>3. CASE info(t, n, 0) = NIL
  <2> DEFINE r == insert_info(t, n, global_info)
  <2>1. ForwardReference(t, n) = r
    BY <1>3 DEF ForwardReference
  <2>2. Grows(t, r, {<<n, global_info>>}, {})
    BY <1>1, <1>2, GrowsInsert DEF EVENT
  <2>3. InfoSet(t, n) = {}
    BY <1>3, FirstOfSet
  <2>4. NameFits(n, global_info)
    BY <1>2 DEF NameFits, StateNames
  <2>5. InfosSound(r)
    BY <1>1, <1>2, <2>3, <2>4, SoundInsert DEF Own
  <2>6. WithInfo(t, n, global_info, r)
    BY <1>1, <1>2, InsertedInfos
  <2>7. n \in DOMAIN r /\ LeadsToState(r, n)
    BY <1>2, <2>6 DEF WithInfo, LeadsToState, Own
  <2> QED
    BY <2>1, <2>2, <2>5, <2>7
<1>4. CASE info(t, n, 0) # NIL
  <2>1. ForwardReference(t, n) = t
    BY <1>4 DEF ForwardReference
  <2>2. type_of(t, n, 0) # "NONE" /\ n \in DOMAIN t
    BY <1>4, FirstOfSet
  <2> QED
    BY <2>1, <2>2, GrowsNot
<1> QED
  BY <1>3, <1>4

LEMMA StateNameReferred ==
    ASSUME NEW ps, NamedScopes(ps), Scoped(table, ps), InfosSound(table),
           NEW ref \in References, scope \in Nat
    PROVE  /\ Referred(state_name(ref), ref.dots)
           /\ state_name(ref).name = RootName => ref.id = "root"
<1> DEFINE sy == <<ref.id>>
           named == Touch(table, sy)
           type  == type_of(named, sy, Dots(ref))
           parent == info(named, sy, 0).parent
           name  == (IF type = "CHILD" THEN Append(parent, ref.id) ELSE sy) \o ref.substates
           r == ForwardReference(named, name)
<1>0. ref.id \in Identifiers /\ ref.dots \in Nat /\ ref.substates \in Seq(Identifiers)
  BY DEF References
<1>1. sy \in Names /\ Dots(ref) \in Nat /\ sy \in StateNames
  BY <1>0, NilIsNoName DEF Dots, StateNames
<1>2. Scoped(named, ps) /\ Typed(named) /\ Typed(table)
  BY <1>1, TouchScoped DEF Scoped
<1>3. Grows(table, named, {}, {}) /\ \A m : InfoSet(named, m) = InfoSet(table, m)
  BY <1>1, <1>2, GrowsTouch
<1>4. InfosSound(named)
  BY <1>2, <1>3, SoundKept DEF Grows
<1>5. /\ state_name(ref).name = name
      /\ state_name(ref).table = r
      /\ state_name(ref).error = (type \notin STATES \cup {"CHILD", "GLOBAL", "NONE"})
  BY DEF state_name
<1> HIDE DEF named, r
<1>6. ASSUME type = "CHILD"
      PROVE  parent \in StateNames
  <2>1. type_of(named, sy, 0) = "CHILD" /\ info(named, sy, 0) \in ChildInfos
    BY <1>1, <1>2, <1>6, ChildInFront DEF Scoped, NamedScopes
  <2>2. sy \in DOMAIN named /\ 1 \in DOMAIN named[sy] /\ info(named, sy, 0) = named[sy][1]
    BY <1>2, <2>1, FirstInfo
  <2>3. InScope(named[sy][1], ps) /\ named[sy][1].type = "CHILD"
    BY <1>2, <2>1, <2>2, InfoKinds, KindsAreInfos DEF Scoped, Nested
  <2> QED
    BY <2>2, <2>3 DEF InScope, NamedScopes
<1>7. name \in StateNames /\ (type = "CHILD" => Len(name) >= 2)
      /\ (type # "CHILD" => name[1] = ref.id)
  <2> DEFINE b == IF type = "CHILD" THEN Append(parent, ref.id) ELSE sy
  <2>1. /\ b \in Seq(Identifiers) /\ Len(b) >= 1 /\ (type = "CHILD" => Len(b) >= 2)
        /\ (type # "CHILD" => b[1] = ref.id)
    <3>1. CASE type = "CHILD"
      <4>1. parent \in Seq(Identifiers) /\ Len(parent) >= 1
        BY <3>1, <1>6, EmptySeq, LenProperties DEF StateNames
      <4> QED
        BY <3>1, <4>1, <1>0, AppendProperties
    <3>2. CASE type # "CHILD"
      BY <3>2, <1>0
    <3> QED
      BY <3>1, <3>2
  <2>2. name = b \o ref.substates
    OBVIOUS
  <2> HIDE DEF b, name
  <2>3. /\ name \in Seq(Identifiers) /\ Len(name) = Len(b) + Len(ref.substates)
        /\ \A i \in 1 .. Len(b) + Len(ref.substates) :
              name[i] = IF i <= Len(b) THEN b[i] ELSE ref.substates[i - Len(b)]
    BY <1>0, <2>1, <2>2, ConcatProperties, Zenon
  <2>4. Len(b) \in Nat /\ Len(ref.substates) \in Nat
    BY <1>0, <2>1, LenProperties
  <2>5. name[1] = b[1] /\ Len(name) >= 1 /\ (type = "CHILD" => Len(name) >= 2)
    BY <2>1, <2>3, <2>4
  <2>6. name \in StateNames
    BY <2>3, <2>5, EmptySeq DEF StateNames
  <2> QED
    BY <2>1, <2>5, <2>6
<1>8. name = RootName => ref.id = "root"
  <2> HIDE DEF type, name
  <2>1. Len(RootName) = 1 /\ RootName[1] = "root"
    BY DEF RootName
  <2> SUFFICES ASSUME name = RootName PROVE ref.id = "root"
    OBVIOUS
  <2>2. Len(name) = 1 /\ name[1] = "root"
    BY <2>1
  <2>3. type # "CHILD"
    BY <1>7, <2>2
  <2> QED
    BY <1>7, <2>2, <2>3
<1>9. /\ Grows(named, r, {}, {}) \/ Grows(named, r, {<<name, global_info>>}, {})
      /\ InfosSound(r) /\ name \in DOMAIN r
      /\ LeadsToState(r, name) \/ (r = named /\ type_of(named, name, 0) # "NONE")
  <2>1. name \in StateNames
    BY <1>7
  <2> HIDE DEF name, type
  <2> QED
    BY <2>1, <1>2, <1>4, ForwardGrows DEF r
<1>10. Grows(table, r, {}, {}) \/ Grows(table, r, {<<name, global_info>>}, {})
  <2> HIDE DEF name, type
  <2>1. CASE Grows(named, r, {}, {})
    BY <2>1, <1>3, GrowsTwice
  <2>2. CASE Grows(named, r, {<<name, global_info>>}, {})
    <3>1. Grows(table, r, {} \cup {<<name, global_info>>}, {} \cup {})
      BY <2>2, <1>3, GrowsTwice
    <3>2. {} \cup {<<name, global_info>>} = {<<name, global_info>>} /\ {} \cup {} = {}
      OBVIOUS
    <3> QED
      BY <3>1, <3>2
  <2> QED
    BY <2>1, <2>2, <1>9
<1>11. ASSUME ref.dots = 0, type \in STATES \cup {"CHILD", "GLOBAL", "NONE"}
       PROVE  LeadsToState(r, name)
  <2>1. Dots(ref) = 0
    BY <1>11 DEF Dots
  <2>2. type = type_of(named, sy, 0)
    BY <2>1
  <2> SUFFICES ASSUME r = named, type_of(named, name, 0) # "NONE"
               PROVE  LeadsToState(r, name)
    BY <1>9
  <2> DEFINE si == info(named, name, 0)
  <2>3. si \in InfoSet(named, name) /\ si.type = type_of(named, name, 0) /\ name \in DOMAIN named
    BY <1>2, FirstOfSet
  <2>4. si \in AllInfos /\ NameFits(name, si)
    BY <1>2, <1>4, <2>3, InfoSetIs DEF InfosSound
  <2>5. si.type \in STATES \cup EVENT \cup {"GLOBAL", "CHSM", "CHILD"}
    BY <2>4, InfoKinds DEF ANY
  <2>6. ASSUME Len(name) = 1
        PROVE  si.type \in STATES \cup {"GLOBAL"}
    <3> HIDE DEF si, name, type
    <3>1. type # "CHILD" /\ name[1] = ref.id
      BY <1>7, <2>6
    <3>2. name = sy
      <4>1. name \in Seq(Identifiers)
        BY <1>7 DEF StateNames
      <4>2. name = <<name[1]>>
        BY <2>6, <4>1
      <4> QED
        BY <3>1, <4>2
    <3>3. si.type = type
      BY <2>2, <2>3, <3>2
    <3> QED
      BY <1>11, <2>3, <3>1, <3>3
  <2>7. ASSUME Len(name) # 1
        PROVE  si.type \in STATES \cup {"GLOBAL"}
    <3>1. si.type \notin {"CHILD", "USER_EVENT", "CHSM"}
      <4>1. Len(<<Machine>>) = 1
        OBVIOUS
      <4> QED
        BY <2>4, <2>7, <4>1 DEF NameFits
    <3>2. si.type # "ENEX_EVENT"
      <4> SUFFICES ASSUME si.type = "ENEX_EVENT" PROVE FALSE
        OBVIOUS
      <4>1. /\ si.kind \in {"enter", "exit"} /\ si.state \in Seq(Identifiers)
            /\ name = <<si.kind>> \o si.state
        BY <2>4 DEF NameFits
      <4> HIDE DEF si, name, type
      <4>2. name \in Seq(Identifiers) /\ Len(name) >= 1
        BY <1>7, EmptySeq, LenProperties DEF StateNames
      <4>3. name[1] = si.kind
        BY <4>1
      <4> QED
        BY <4>1, <4>2, <4>3, StateNamesAre
    <3> QED
      BY <2>5, <3>1, <3>2 DEF EVENT
  <2>8. si \in Own(named, name) /\ si.type \in STATES \cup {"GLOBAL"}
    BY <2>3, <2>6, <2>7 DEF Own, STATES
  <2> QED
    BY <2>8 DEF LeadsToState
<1> HIDE DEF name, type
<1>12. Referred(state_name(ref), ref.dots)
  BY <1>5, <1>7, <1>9, <1>10, <1>11 DEF Referred
<1> QED
  BY <1>5, <1>8, <1>12

\* What a step that names states and events leaves in the table and in the list of events.
Entering(r, A, evs, fine, plain) ==
    /\ Typed(r) /\ DOMAIN table \subseteq DOMAIN r /\ Kept(table, r, {}) /\ Grown(table, r, A, {})
    /\ InfosSound(r)
    /\ \A e \in A : e[2].type \notin STATES
    /\ \A e \in A : e[2].type \in EVENT =>
          /\ Own(table, e[1]) = {} /\ evs = Append(events_, e[1])
          /\ fine => e[2].base = NIL \/ HasEvent(table, e[2].base)
          /\ fine /\ plain => (e[2].type = "ENEX_EVENT" => LeadsToState(r, e[2].state))
    /\ evs = events_ \/ \E n \in Names : evs = Append(events_, n) /\ HasEvent(r, n)

WithEvent(ev) == IF ev.new THEN Append(events_, ev.name) ELSE events_

EventEntered(ev, plain) ==
    /\ \E A : /\ Entering(ev.table, A, WithEvent(ev), ~ ev.error, plain)
              /\ \A e \in A : e[2].type # "CHILD"
    /\ IdsKept(table, ev.table)
    /\ ev.name \in DOMAIN ev.table /\ ev.name \in Names
    /\ ~ ev.error => HasEvent(ev.table, ev.name)

LEMMA AppendedSet ==
    ASSUME NEW q \in Seq(Names), NEW n \in Names
    PROVE  ToSet(Append(q, n)) = ToSet(q) \cup {n}
<1>1. /\ Append(q, n) \in Seq(Names) /\ Len(Append(q, n)) = Len(q) + 1 /\ Len(q) \in Nat
      /\ \A i \in 1 .. Len(q) : Append(q, n)[i] = q[i]
      /\ Append(q, n)[Len(q) + 1] = n
      /\ DOMAIN q = 1 .. Len(q) /\ DOMAIN Append(q, n) = 1 .. Len(q) + 1
  BY AppendProperties, LenProperties
<1> QED
  BY <1>1 DEF ToSet

LEMMA OneInserted ==
    ASSUME NEW t, Typed(t), InfosSound(t), NEW n \in Names, NEW si \in AllInfos,
           si.type \in EVENT, si.tids = <<>>, InfoSet(t, n) = {}, NameFits(n, si)
    PROVE  /\ Grows(t, insert_info(t, n, si), {<<n, si>>}, {})
           /\ InfosSound(insert_info(t, n, si))
           /\ HasEvent(insert_info(t, n, si), n)
           /\ n \in DOMAIN insert_info(t, n, si)
<1> DEFINE r == insert_info(t, n, si)
<1>1. Grows(t, r, {<<n, si>>}, {})
  BY GrowsInsert
<1>2. InfosSound(r)
  BY SoundInsert DEF Own
<1>3. WithInfo(t, n, si, r)
  BY InsertedInfos
<1> HIDE DEF r
<1>4. si \in Own(r, n) /\ n \in DOMAIN r
  BY <1>3 DEF WithInfo, Own, EVENT
<1> QED
  BY <1>1, <1>2, <1>4 DEF HasEvent, r

LEMMA UserEventEntered ==
    ASSUME Typed(table), InfosSound(table), events_ \in Seq(Names), NEW id \in Identifiers, NEW plain
    PROVE  EventEntered(user_event(id), plain)
<1> DEFINE n == <<id>>
           named == Touch(table, n)
           si == user_event_info(NIL)
           r == insert_info(named, n, si)
           ev == user_event(id)
<1>1. n \in Names
  BY NilIsNoName
<1>2. /\ Typed(named) /\ Grows(table, named, {}, {}) /\ \A m : InfoSet(named, m) = InfoSet(table, m)
      /\ n \in DOMAIN named
  BY <1>1, GrowsTouch DEF Grows
<1>3. InfosSound(named)
  BY <1>2, SoundKept DEF Grows
<1>4. /\ ev.name = n
      /\ ev.table = IF info(named, n, 0) = NIL THEN r ELSE named
      /\ ev.new = (info(named, n, 0) = NIL)
      /\ ev.error = (info(named, n, 0) # NIL /\ type_of(named, n, 0) # "USER_EVENT")
  BY DEF user_event, type_check
<1>5. /\ si \in AllInfos /\ si.type = "USER_EVENT" /\ si.tids = <<>> /\ si.base = NIL
      /\ Len(n) = 1 /\ si.state = NIL
  BY NewInfos, KindsAreInfos DEF user_event_info
<1>6. NameFits(n, si)
  BY <1>5 DEF NameFits, STATES
<1> HIDE DEF named, si, r, ev, n
<1>7. CASE info(named, n, 0) = NIL
  <2>1. InfoSet(named, n) = {}
    BY <1>2, <1>7, FirstOfSet
  <2>2. /\ Grows(named, r, {<<n, si>>}, {}) /\ InfosSound(r) /\ HasEvent(r, n) /\ n \in DOMAIN r
    BY <1>1, <1>2, <1>3, <1>5, <1>6, <2>1, OneInserted DEF EVENT, r
  <2>3. Grows(table, r, {} \cup {<<n, si>>}, {} \cup {})
    BY <1>2, <2>2, GrowsTwice
  <2>4. {} \cup {<<n, si>>} = {<<n, si>>} /\ {} \cup {} = {}
    OBVIOUS
  <2>5. WithEvent(ev) = Append(events_, n) /\ ev.table = r
    BY <1>1, <1>4, <1>7 DEF WithEvent
  <2>6. Own(table, n) = {}
    BY <1>2, <2>1 DEF Own
  <2>7. /\ Typed(r) /\ DOMAIN table \subseteq DOMAIN r /\ Kept(table, r, {})
        /\ Grown(table, r, {<<n, si>>}, {}) /\ IdsKept(table, r)
    BY <2>3, <2>4 DEF Grows
  <2>8. Entering(r, {<<n, si>>}, WithEvent(ev), ~ ev.error, plain)
    BY <1>1, <1>5, <2>2, <2>5, <2>6, <2>7 DEF Entering, STATES, EVENT
  <2>9. \A e \in {<<n, si>>} : e[2].type # "CHILD"
    BY <1>5
  <2>10. \E A : /\ Entering(r, A, WithEvent(ev), ~ ev.error, plain)
                /\ \A e \in A : e[2].type # "CHILD"
    BY <2>8, <2>9
  <2>11. EventEntered(ev, plain)
    BY <1>1, <1>4, <2>2, <2>5, <2>7, <2>10 DEF EventEntered
  <2> QED
    BY <2>11 DEF ev
<1>8. CASE info(named, n, 0) # NIL
  <2>1. WithEvent(ev) = events_ /\ ev.table = named
    BY <1>4, <1>8 DEF WithEvent
  <2>2. Entering(named, {}, events_, ~ ev.error, plain) /\ IdsKept(table, named)
    BY <1>2, <1>3 DEF Entering, Grows
  <2>3. ASSUME type_of(named, n, 0) = "USER_EVENT"
        PROVE  HasEvent(named, n)
    BY <1>2, <2>3, FirstOfSet DEF HasEvent, Own, EVENT
  <2>4. \E A : /\ Entering(named, A, WithEvent(ev), ~ ev.error, plain)
               /\ \A e \in A : e[2].type # "CHILD"
    BY <2>1, <2>2
  <2>5. EventEntered(ev, plain)
    BY <1>1, <1>2, <1>4, <1>8, <2>1, <2>2, <2>3, <2>4 DEF EventEntered
  <2> QED
    BY <2>5 DEF ev
<1> QED
  BY <1>7, <1>8

LEMMA EnexEventEntered ==
    ASSUME NEW ps, NamedScopes(ps), Scoped(table, ps), InfosSound(table), events_ \in Seq(Names),
           NEW ref \in References, scope \in Nat, NEW kind \in {"enter", "exit"}
    PROVE  EventEntered(enex_event(kind, ref), ref.dots = 0)
<1> DEFINE s == state_name(ref)
           n == <<kind>> \o s.name
           si == event_info(kind, s.name)
           r == insert_info(s.table, n, si)
           ev == enex_event(kind, ref)
           plain == ref.dots = 0
<1>1. Referred(s, ref.dots)
  BY StateNameReferred
<1>2. /\ ev.name = n
      /\ ev.table = IF info(s.table, n, 0) = NIL THEN r ELSE s.table
      /\ ev.new = (info(s.table, n, 0) = NIL)
      /\ ev.error = s.error
  BY DEF enex_event
<1> HIDE DEF s, ev
<1>3. /\ s.name \in StateNames /\ s.name \in Names /\ InfosSound(s.table) /\ Typed(s.table)
      /\ s.name \in Seq(Identifiers) /\ Len(s.name) >= 1
  BY <1>1, StateNamesAre, EmptySeq, LenProperties DEF Referred, Grows, StateNames
<1>4. /\ n \in Names /\ Len(n) # 1 /\ n[1] = kind /\ 1 \in DOMAIN n
  <2>1. kind \in DOMAIN Spelling /\ s.name \in Seq(DOMAIN Spelling)
    BY <1>3, IdentAssumption DEF Names
  <2>2. <<kind>> \in Seq(DOMAIN Spelling) /\ Len(<<kind>>) = 1 /\ <<kind>>[1] = kind
    BY <2>1
  <2>3. /\ n \in Seq(DOMAIN Spelling) /\ Len(n) = Len(<<kind>>) + Len(s.name)
        /\ \A i \in 1 .. Len(<<kind>>) + Len(s.name) :
              n[i] = IF i <= Len(<<kind>>) THEN <<kind>>[i] ELSE s.name[i - Len(<<kind>>)]
    BY <2>1, <2>2, ConcatProperties, Zenon
  <2> HIDE DEF n
  <2>4. Len(s.name) \in Nat
    BY <1>3, LenProperties
  <2>8. Len(n) >= 2 /\ Len(n) \in Nat /\ Len(n) # 1 /\ Len(n) # 0
    BY <1>3, <2>2, <2>3, <2>4
  <2>5. Len(n) >= 2 /\ n[1] = kind /\ Len(n) \in Nat
    BY <1>3, <2>2, <2>3, <2>4
  <2>6. Len(n) # 1 /\ n # <<>>
    BY <2>8, <2>3, EmptySeq
  <2>7. 1 \in DOMAIN n
    BY <2>3, <2>5, LenProperties
  <2> QED
    BY <2>3, <2>5, <2>6, <2>7 DEF Names
<1>5. /\ si \in AllInfos /\ si.type = "ENEX_EVENT" /\ si.tids = <<>> /\ si.base = NIL
      /\ si.kind = kind /\ si.state = s.name
  BY <1>3, NewInfos, KindsAreInfos DEF event_info
<1> HIDE DEF si
<1>6. NameFits(n, si)
  BY <1>3, <1>5 DEF NameFits, STATES
<1> HIDE DEF n, r
<1>7. ~ ev.error /\ plain => LeadsToState(s.table, s.name)
  BY <1>1, <1>2 DEF Referred
<1> HIDE DEF plain
<1>8. PICK B : /\ Grows(table, s.table, B, {}) /\ \A e \in B : e[2].type = "GLOBAL"
  BY <1>1 DEF Referred, global_info
<1>9. CASE info(s.table, n, 0) = NIL
  <2>1. InfoSet(s.table, n) = {}
    BY <1>3, <1>9, FirstOfSet
  <2>2. /\ Grows(s.table, r, {<<n, si>>}, {}) /\ InfosSound(r) /\ HasEvent(r, n) /\ n \in DOMAIN r
    BY <1>3, <1>4, <1>5, <1>6, <2>1, OneInserted DEF EVENT, r
  <2>3. Grows(table, r, B \cup {<<n, si>>}, {} \cup {})
    BY <1>8, <2>2, GrowsTwice
  <2>4. {} \cup {} = {}
    OBVIOUS
  <2>5. WithEvent(ev) = Append(events_, n) /\ ev.table = r
    BY <1>2, <1>9 DEF WithEvent
  <2>6. ~ ev.error /\ plain => LeadsToState(r, s.name)
    <3>1. WithInfo(s.table, n, si, r)
      BY <1>3, <1>4, <1>5, InsertedInfos DEF r
    <3>2. \A m : InfoSet(s.table, m) \subseteq InfoSet(r, m)
      BY <3>1 DEF WithInfo
    <3> QED
      BY <1>7, <3>2 DEF LeadsToState, Own
  <2>7. /\ \A e \in B \cup {<<n, si>>} : e[2].type \notin STATES
        /\ \A e \in B \cup {<<n, si>>} : e[2].type \in EVENT => e = <<n, si>>
        /\ \A e \in B \cup {<<n, si>>} : e[2].type # "CHILD"
    BY <1>5, <1>8 DEF STATES, EVENT
  <2>8. Own(table, n) = {}
    <3>1. Own(s.table, n) = {} /\ Grown(table, s.table, B, {})
      BY <1>8, <2>1 DEF Own, Grows
    <3> QED
      BY <3>1, GrownHas
  <2>9. /\ Typed(r) /\ DOMAIN table \subseteq DOMAIN r /\ Kept(table, r, {})
        /\ Grown(table, r, B \cup {<<n, si>>}, {}) /\ IdsKept(table, r)
    BY <2>3, <2>4 DEF Grows
  <2>10. Entering(r, B \cup {<<n, si>>}, WithEvent(ev), ~ ev.error, plain)
    BY <1>4, <1>5, <2>2, <2>5, <2>6, <2>7, <2>8, <2>9 DEF Entering
  <2> QED
    BY <1>2, <1>4, <2>2, <2>5, <2>7, <2>9, <2>10 DEF EventEntered, ev, plain
<1>10. CASE info(s.table, n, 0) # NIL
  <2>1. WithEvent(ev) = events_ /\ ev.table = s.table
    BY <1>2, <1>10 DEF WithEvent
  <2>2. \A e \in B : e[2].type \notin STATES \cup EVENT
    BY <1>8 DEF STATES, EVENT
  <2>3. Entering(s.table, B, events_, ~ ev.error, plain) /\ IdsKept(table, s.table)
    BY <1>3, <1>8, <2>2 DEF Entering, Grows
  <2>4. HasEvent(s.table, n) /\ n \in DOMAIN s.table
    <3> DEFINE x == info(s.table, n, 0)
    <3>1. x \in InfoSet(s.table, n) /\ n \in DOMAIN s.table
      BY <1>3, <1>10, FirstOfSet
    <3>2. x \in AllInfos /\ NameFits(n, x)
      BY <1>3, <3>1, InfoSetIs DEF InfosSound
    <3> HIDE DEF x
    <3>3. x.type \notin {"CHILD", "USER_EVENT", "CHSM"}
      <4>2. Len(n) # 1
        BY <1>4, Zenon
      <4>3. Len(<<Machine>>) = 1
        OBVIOUS
      <4>1. n # <<Machine>>
        BY <4>2, <4>3, Zenon
      <4> QED
        BY <3>2, <4>1, <4>2, Zenon DEF NameFits
    <3>4. x.type \notin STATES \cup {"GLOBAL"}
      <4> SUFFICES ASSUME n \in Seq(Identifiers) PROVE FALSE
        BY <3>2 DEF NameFits
      <4>1. n[1] \in Identifiers
        BY <1>4, ElementOfSeq, LenProperties
      <4> QED
        BY <4>1, <1>4, StateNamesAre
    <3>5. x.type \in STATES \cup EVENT \cup {"GLOBAL", "CHSM", "CHILD"}
      BY <3>2, InfoKinds DEF ANY
    <3>6. x.type \in EVENT
      BY <3>3, <3>4, <3>5 DEF EVENT
    <3> QED
      BY <3>1, <3>6 DEF HasEvent, Own, EVENT
  <2>5. \A e \in B : e[2].type # "CHILD"
    BY <1>8
  <2> QED
    BY <1>2, <1>4, <2>1, <2>3, <2>4, <2>5 DEF EventEntered, ev, plain
<1> QED
  BY <1>9, <1>10

-----------------------------------------------------------------------------
(* The steps that list no state and open or close no scope. *)

\* What stays as it is.
Frame ==
    /\ scope' = scope /\ sy_parent' = sy_parent /\ sy_outer_deep_' = sy_outer_deep_
    /\ states_' = states_ /\ desc'.type = desc.type
    /\ written'.deep = written.deep /\ written'.history = written.history
    /\ budget'.refs = budget.refs
    /\ errors => errors'
    /\ emitted' => at' = "done" /\ ~ errors'
    /\ at \notin {"chsm", "done", "undefined"}

\* The parser stays where it is, or moves on within the description of a state.
SamePlace ==
    \/ at' = at /\ stack' = stack
    \/ InDescribed /\ InDescribed' /\ \A k \in 1 .. scope + 1 : stack'[k] = stack[k]
    \/ at = "end" /\ at' = "done" /\ stack' = stack

Quiet(A) ==
    /\ Frame /\ SamePlace
    /\ Entering(table', A, events_', ~ errors', PlainText)
    /\ InDescribed => \A e \in A : e[2].type # "CHILD"

\* What is pushed for a target leads to a state.
TargetRead ==
    errors' \/ LET item == stack'[Len(stack') - 1]
               IN  item.tag = "ptr" /\ (item.val # NIL /\ PlainText => LeadsToState(table', item.val))

\* No transition is added.
Steady ==
    /\ transitions_' = transitions_ /\ IdsKept(table, table')
    /\ at' = "action" => (at = "action" /\ stack' = stack) \/ TargetRead

\* The stack gets no other pointers than those to symbols.
PushedAlive ==
    \A i \in DOMAIN stack' : stack'[i].tag = "ptr" =>
        stack'[i].val \in DOMAIN table' \cup {NIL} \/ \E j \in DOMAIN stack : stack'[i] = stack[j]

QuietStep == (\E A : Quiet(A)) /\ Steady /\ PushedAlive

\* The parser ends here.
Stopped ==
    /\ at' = "undefined" /\ budget'.refs = budget.refs /\ (errors => errors')
    /\ UNCHANGED <<table, scope, sy_parent, sy_outer_deep_, stack, states_, events_, transitions_,
                   emitted, written>>
    /\ errors' \/ ~ HasChsm
    /\ at \notin {"done", "undefined"}

LEMMA ScopesNamed ==
    ASSUME ParserInv, Lineage, at # "undefined"
    PROVE  NamedScopes(ScopeParents)
<1>1. /\ TypeOK /\ StackShape /\ scope \in Nat /\ DOMAIN ScopeParents \subseteq Nat \ {0, 1}
  BY ScopedOf
<1>2. ASSUME NEW k \in DOMAIN ScopeParents
      PROVE  ScopeParents[k] \in StateNames
  <2>1. k \in Nat \ {0, 1} /\ (k <= scope \/ (InHeader /\ k = scope + 1))
    BY <1>1 DEF ScopeParents
  <2>2. Inside
    <3>1. CASE at = "chsm"
      BY <1>1, <2>1, <3>1 DEF StackShape, InHeader, Inside
    <3>2. CASE at \in {"end", "done"}
      BY <1>1, <2>1, <3>2 DEF StackShape, InHeader, Inside
    <3> QED
      BY <3>1, <3>2 DEF Inside
  <2>3. CASE k <= scope
    <3>1. k \in 1 .. scope /\ ScopeParents[k] = OpenParents[k]
      BY <1>1, <2>1, <2>3 DEF ScopeParents
    <3> QED
      BY <2>2, <3>1, LineageNames
  <2>4. CASE InHeader /\ k = scope + 1
    <3>1. ScopeParents[k] = Header
      BY <1>1, <2>1, <2>4 DEF ScopeParents
    <3>2. CASE at = "children"
      BY <3>1, <3>2, LineageNames
    <3>3. CASE at # "children"
      <4>1. InDescribed
        BY <1>1, <2>4, <3>3 DEF InHeader, Inside, InDescribed, TypeOK
      <4>2. Header = Current
        BY <3>3 DEF Header, Current
      <4> QED
        BY <3>1, <4>1, <4>2, LineageNames
    <3> QED
      BY <3>2, <3>3
  <2> QED
    BY <2>1, <2>3, <2>4
<1> QED
  BY <1>1, <1>2 DEF NamedScopes

LEMMA EnteringNothing ==
    ASSUME Typed(table), InfosSound(table), NEW f, NEW p
    PROVE  Entering(table, {}, events_, f, p) /\ IdsKept(table, table)
<1>1. Grows(table, table, {}, {})
  BY GrowsNot
<1> QED
  BY <1>1 DEF Entering, Grows

LEMMA EnteringWeaker ==
    ASSUME NEW r, NEW A, NEW evs, NEW f, NEW g, NEW p, NEW q, Entering(r, A, evs, f, p),
           g => f, q => p
    PROVE  Entering(r, A, evs, g, q)
  BY DEF Entering

LEMMA PlainDots ==
    ASSUME NEW r \in budget.refs
    PROVE  PlainText => r.dots = 0
  BY DEF PlainText

\* Where a state is described, what was pushed last lies above it.
LEMMA DescribedStack ==
    ASSUME ParserInv, InDescribed
    PROVE  /\ scope \in Nat /\ stack \in Seq(Items) /\ Len(stack) \in Nat /\ Len(stack) > scope
           /\ DOMAIN stack = 1 .. Len(stack) /\ 1 .. scope + 1 \subseteq 1 .. Len(stack)
           /\ NamePtr(stack[scope + 1]) /\ Inside
<1>1. at # "undefined" /\ Inside
  BY DEF InDescribed, Inside
<1>2. /\ StackShape /\ scope \in Nat /\ stack \in Seq(Items) /\ Len(stack) \in Nat
  BY <1>1, ScopedOf
<1>3. Len(stack) > scope /\ NamePtr(stack[scope + 1])
  BY <1>2 DEF StackShape
<1>4. DOMAIN stack = 1 .. Len(stack)
  BY <1>2, LenProperties
<1> QED
  BY <1>1, <1>2, <1>3, <1>4

LEMMA SameStackAlive ==
    ASSUME stack' = stack
    PROVE  PushedAlive
  BY DEF PushedAlive

LEMMA KeptBeginning ==
    ASSUME ParserInv, InDescribed, InDescribed', NEW l \in Nat, l > scope,
           \A k \in 1 .. l : stack'[k] = stack[k]
    PROVE  SamePlace
<1>1. scope \in Nat
  BY DescribedStack
<1>2. \A k \in 1 .. scope + 1 : k \in 1 .. l
  BY <1>1
<1> QED
  BY <1>2 DEF SamePlace

LEMMA PushedOnTop ==
    ASSUME NEW l \in Nat, NEW q \in Seq(Items), stack' = q, l <= Len(q), stack \in Seq(Items),
           l <= Len(stack),
           \A k \in 1 .. l : q[k] = stack[k],
           \A k \in l + 1 .. Len(q) : q[k].tag = "ptr" => q[k].val \in DOMAIN table' \cup {NIL}
    PROVE  PushedAlive
<1>1. DOMAIN q = 1 .. Len(q) /\ Len(q) \in Nat /\ DOMAIN stack = 1 .. Len(stack) /\ Len(stack) \in Nat
  BY LenProperties
<1>2. \A i \in 1 .. Len(q) : i \in 1 .. l \/ i \in l + 1 .. Len(q)
  BY <1>1
<1>3. 1 .. l \subseteq DOMAIN stack
  BY <1>1
<1> QED
  BY <1>1, <1>2, <1>3 DEF PushedAlive

\* The actions that leave the table alone.
LEMMA SameTableQuiet ==
    ASSUME ParserInv, InfosSound(table), Frame, SamePlace, table' = table, events_' = events_
    PROVE  (\E A : Quiet(A)) /\ IdsKept(table, table')
<1>1. Typed(table)
  BY InvFacts
<1>2. Entering(table, {}, events_, ~ errors', PlainText) /\ IdsKept(table, table)
  BY <1>1, EnteringNothing
<1>3. Quiet({})
  BY <1>2 DEF Quiet
<1> QED
  BY <1>2, <1>3

LEMMA TransitionBeginQuiet ==
    ASSUME ParserInv, TableInv, transition_begin
    PROVE  QuietStep
<1>1. /\ at \in {"actions", "transitions"} /\ at' = "event"
      /\ stack' = stack \o <<Num(0)>>
      /\ budget' = [budget EXCEPT !.transitions = budget.transitions - 1]
      /\ desc' = [desc EXCEPT !.block = FALSE]
      /\ UNCHANGED <<table, scope, sy_parent, sy_outer_deep_, states_, events_, transitions_,
                     errors, emitted, written>>
  BY DEF transition_begin, Push, NoEventYet
<1>2. TypeOK
  BY InvFacts
<1>3. InDescribed /\ InDescribed'
  BY <1>1 DEF InDescribed
<1>4. /\ scope \in Nat /\ stack \in Seq(Items) /\ Len(stack) \in Nat /\ Len(stack) > scope
  BY <1>3, DescribedStack
<1>5. Num(0) \in Items /\ Num(0).tag = "int"
  BY ItemsTyped DEF Num
<1>6. /\ stack' \in Seq(Items) /\ Len(stack') = Len(stack) + 1
      /\ \A k \in 1 .. Len(stack) : stack'[k] = stack[k]
      /\ stack'[Len(stack) + 1] = Num(0)
  BY <1>1, <1>4, <1>5, PushedOne
<1>7. SamePlace
  BY <1>3, <1>4, <1>6, KeptBeginning
<1>8. PushedAlive
  <2>1. \A k \in Len(stack) + 1 .. Len(stack') : k = Len(stack) + 1
    BY <1>4, <1>6
  <2>2. \A k \in Len(stack) + 1 .. Len(stack') : stack'[k].tag # "ptr"
    BY <1>5, <1>6, <2>1
  <2>3. Len(stack) <= Len(stack') /\ Len(stack) <= Len(stack)
    BY <1>4, <1>6
  <2> QED
    BY <1>4, <1>6, <2>2, <2>3, PushedOnTop
<1>9. Frame
  <2>1. budget'.refs = budget.refs
    BY <1>1, <1>2 DEF TypeOK, TextTypes
  <2>2. desc'.type = desc.type
    BY <1>1, <1>2 DEF TypeOK
  <2>3. ~ emitted /\ at \notin {"chsm", "done", "undefined"}
    BY <1>1 DEF TableInv, EmittedFine
  <2> QED
    BY <1>1, <2>1, <2>2, <2>3 DEF Frame
<1> QED
  BY <1>1, <1>7, <1>8, <1>9, SameTableQuiet DEF QuietStep, Steady, TableInv

LEMMA EventErrorQuiet ==
    ASSUME ParserInv, TableInv, event_error
    PROVE  QuietStep
<1>1. /\ at = "event" /\ at' = "type" /\ errors' /\ stack' = stack
      /\ UNCHANGED <<desc, table, scope, sy_parent, sy_outer_deep_, stack, states_, events_,
                     transitions_, emitted, written, budget>>
  BY DEF event_error
<1>2. InDescribed /\ InDescribed'
  BY <1>1 DEF InDescribed
<1>3. SamePlace
  BY <1>1, <1>2 DEF SamePlace
<1>4. ~ emitted
  BY <1>1 DEF TableInv, EmittedFine
<1>5. Frame
  BY <1>1, <1>4 DEF Frame
<1> QED
  BY <1>1, <1>3, <1>5, SameTableQuiet, SameStackAlive DEF QuietStep, Steady, TableInv

LEMMA TargetErrorQuiet ==
    ASSUME ParserInv, TableInv, target_error
    PROVE  QuietStep
<1>1. /\ at = "type" /\ at' = "action" /\ errors' /\ stack' = stack
      /\ desc' = [desc EXCEPT !.block = FALSE]
      /\ written' = [written EXCEPT !.targets = FALSE]
      /\ UNCHANGED <<table, scope, sy_parent, sy_outer_deep_, stack, states_, events_,
                     transitions_, emitted, budget>>
  BY DEF target_error
<1>2. InDescribed /\ InDescribed'
  BY <1>1 DEF InDescribed
<1>3. SamePlace
  BY <1>1, <1>2 DEF SamePlace
<1>4. TypeOK
  BY InvFacts
<1>5. ~ emitted
  BY <1>1 DEF TableInv, EmittedFine
<1>6. desc'.type = desc.type
  BY <1>1, <1>4 DEF TypeOK
<1>7. written'.deep = written.deep /\ written'.history = written.history
  BY <1>1, <1>4 DEF TypeOK, Writings
<1>8. Frame
  BY <1>1, <1>5, <1>6, <1>7 DEF Frame
<1>9. TargetRead
  BY <1>1 DEF TargetRead
<1> QED
  BY <1>1, <1>3, <1>8, <1>9, SameTableQuiet, SameStackAlive DEF QuietStep, Steady, TableInv

LEMMA SpecEndQuiet ==
    ASSUME ParserInv, TableInv, spec_end, desc.type # "STATE"
    PROVE  QuietStep
<1>1. /\ at \in {"actions", "transitions"} /\ at' = "is" /\ stack' = stack
      /\ desc' = [desc EXCEPT !.block = FALSE]
      /\ UNCHANGED <<table, scope, sy_parent, sy_outer_deep_, states_, events_,
                     transitions_, errors, emitted, written, budget>>
  BY DEF spec_end
<1>2. InDescribed /\ InDescribed'
  BY <1>1 DEF InDescribed
<1>3. SamePlace
  BY <1>1, <1>2 DEF SamePlace
<1>4. TypeOK
  BY InvFacts
<1>5. ~ emitted /\ at \notin {"chsm", "done", "undefined"}
  BY <1>1 DEF TableInv, EmittedFine
<1>6. desc'.type = desc.type
  BY <1>1, <1>4 DEF TypeOK
<1>7. Frame
  BY <1>1, <1>5, <1>6 DEF Frame
<1> QED
  BY <1>1, <1>3, <1>7, SameTableQuiet, SameStackAlive DEF QuietStep, Steady, TableInv

\* What follows from pushing a target.
LEMMA TargetQuiet ==
    ASSUME ParserInv, at = "type", NEW x \in DOMAIN table' \cup {NIL}, x \in Names \cup {NIL},
           NEW y \in Nat, NEW b, TargetPushed(x, y, b)
    PROVE  /\ SamePlace /\ PushedAlive /\ desc'.type = desc.type
           /\ stack'[Len(stack') - 1] = Ptr(x)
<1>1. /\ at' = "action" /\ stack' = stack \o <<Ptr(x), Num(y)>>
      /\ desc' = [desc EXCEPT !.block = b]
  BY DEF TargetPushed
<1>2. InDescribed /\ InDescribed'
  BY <1>1 DEF InDescribed
<1>3. /\ scope \in Nat /\ stack \in Seq(Items) /\ Len(stack) \in Nat /\ Len(stack) > scope
  BY <1>2, DescribedStack
<1>4. Num(y) \in Items /\ Num(y).tag = "int" /\ Ptr(x) \in Items /\ Ptr(x).val = x
  BY ItemsTyped DEF Num, Ptr
<1>5. /\ stack' \in Seq(Items) /\ Len(stack') = Len(stack) + 2
      /\ \A k \in 1 .. Len(stack) : stack'[k] = stack[k]
      /\ stack'[Len(stack) + 1] = Ptr(x) /\ stack'[Len(stack) + 2] = Num(y)
  BY <1>1, <1>3, <1>4, PushedTwo
<1>6. SamePlace
  BY <1>2, <1>3, <1>5, KeptBeginning
<1>7. PushedAlive
  <2>1. \A k \in Len(stack) + 1 .. Len(stack') : k = Len(stack) + 1 \/ k = Len(stack) + 2
    BY <1>3, <1>5
  <2>2. \A k \in Len(stack) + 1 .. Len(stack') :
            stack'[k].tag = "ptr" => stack'[k].val \in DOMAIN table' \cup {NIL}
    BY <1>4, <1>5, <2>1
  <2>3. Len(stack) <= Len(stack') /\ Len(stack) <= Len(stack)
    BY <1>3, <1>5
  <2> QED
    BY <1>3, <1>5, <2>2, <2>3, PushedOnTop
<1>8. TypeOK
  BY InvFacts
<1>9. desc'.type = desc.type
  BY <1>1, <1>8 DEF TypeOK
<1>10. Len(stack') - 1 = Len(stack) + 1
  BY <1>3, <1>5
<1> QED
  BY <1>5, <1>6, <1>7, <1>9, <1>10

LEMMA BlockRefs ==
    ASSUME ParserInv, NEW yes, Block(yes)
    PROVE  budget'.refs = budget.refs
<1>1. budget \in TextTypes
  BY InvFacts DEF TypeOK
<1>2. \A x : [budget EXCEPT !.blocks = x].refs = budget.refs
  BY <1>1 DEF TextTypes
<1> QED
  BY <1>2 DEF Block

LEMMA TargetFunctionQuiet ==
    ASSUME ParserInv, TableInv, target_function
    PROVE  QuietStep
<1>1. /\ at = "type" /\ Block(TRUE)
      /\ TargetPushed(NIL, ids.target + 1, TRUE)
      /\ UNCHANGED <<table, errors, written>>
  BY DEF target_function, TargetPushed, Push
<1>2. ids.target + 1 \in Nat
  BY InvFacts DEF TypeOK
<1>3. SamePlace /\ PushedAlive /\ desc'.type = desc.type /\ stack'[Len(stack') - 1] = Ptr(NIL)
  BY <1>1, <1>2, TargetQuiet
<1>4. ~ emitted
  BY <1>1 DEF TableInv, EmittedFine
<1>5. /\ UNCHANGED <<scope, sy_parent, sy_outer_deep_, states_, events_, transitions_, emitted>>
  BY <1>1 DEF TargetPushed
<1>6. Frame
  BY <1>1, <1>3, <1>4, <1>5, BlockRefs DEF Frame
<1>7. TargetRead
  BY <1>3 DEF TargetRead, Ptr
<1> QED
  BY <1>1, <1>3, <1>5, <1>6, <1>7, SameTableQuiet DEF QuietStep, Steady, TableInv

LEMMA EnterExitActionQuiet ==
    ASSUME ParserInv, TableInv, NEW kind \in {"enter", "exit"}, enter_exit_action(kind)
    PROVE  QuietStep \/ Stopped
<1> DEFINE sy == Peek(0).val
           si == info(table, sy, 0)
           new == IF kind = "enter" THEN [si EXCEPT !.enterAction = TRUE]
                                    ELSE [si EXCEPT !.exitAction = TRUE]
           field == IF kind = "enter" THEN si.enterAction ELSE si.exitAction
<1>1. at = "actions" /\ InDescribed /\ TypeOK /\ Typed(table)
  BY InvFacts DEF enter_exit_action, InDescribed
<1>2. /\ scope \in Nat /\ Len(stack) = scope + 1 /\ sy = Current
  <2>1. StackShape
    BY InvFacts
  <2>2. Len(stack) = scope + 1
    BY <1>1, <2>1 DEF StackShape
  <2> QED
    BY <1>1, <2>2, DescribedStack DEF Peek, Current
<1>3. CASE type_of(table, sy, 0) \in STATES
  <2>1. /\ table' = Update(table, sy, new)
        /\ errors' = (errors \/ field)
        /\ at' \in {"actions", "transitions"}
        /\ desc' = [desc EXCEPT !.block = TRUE]
        /\ written' = [written EXCEPT !.legal = written.legal /\ ~ field]
        /\ Block(TRUE)
        /\ UNCHANGED <<scope, sy_parent, sy_outer_deep_, stack, states_, events_,
                       transitions_, emitted>>
    BY <1>1, <1>3 DEF enter_exit_action
  <2>2. /\ sy \in DOMAIN table /\ table[sy] # <<>> /\ si = table[sy][1] /\ si \in AllInfos
        /\ si.type \in STATES
    BY <1>1, <1>3, FirstInfo DEF STATES
  <2> HIDE DEF si
  <2>3. new \in AllInfos /\ new.type = si.type /\ new.history = si.history
    BY <2>2, InfoKinds, KindsAreInfos DEF StateInfos
  <2> HIDE DEF new, sy
  <2>4. Like(new, si) /\ new.type \notin EVENT
    BY <2>2, <2>3 DEF Like, STATES, EVENT
  <2>5. Grows(table, table', {}, {})
    BY <1>1, <2>1, <2>2, <2>3, <2>4, GrowsUpdate
  <2>6. InfosSound(table')
    BY <1>1, <2>5, SoundKept DEF TableInv, Grows
  <2>7. Entering(table', {}, events_', ~ errors', PlainText)
    BY <2>1, <2>5, <2>6 DEF Entering, Grows
  <2>8. InDescribed' /\ SamePlace
    BY <1>1, <2>1 DEF InDescribed, SamePlace
  <2>9. Frame
    <3>1. desc'.type = desc.type
      BY <1>1, <2>1 DEF TypeOK
    <3>2. written'.deep = written.deep /\ written'.history = written.history
      BY <1>1, <2>1 DEF TypeOK, Writings
    <3>3. ~ emitted
      BY <1>1 DEF TableInv, EmittedFine
    <3> QED
      BY <1>1, <2>1, <3>1, <3>2, <3>3, BlockRefs DEF Frame
  <2>10. Quiet({})
    BY <2>7, <2>8, <2>9 DEF Quiet
  <2>11. Steady
    BY <2>1, <2>5 DEF Steady, Grows
  <2> QED
    BY <2>1, <2>10, <2>11, SameStackAlive DEF QuietStep
<1>4. CASE type_of(table, sy, 0) \notin STATES
  <2>1. Undefined
    BY <1>4 DEF enter_exit_action
  <2>2. errors
    <3>1. SUFFICES ASSUME ~ errors PROVE FALSE
      OBVIOUS
    <3>2. HasState(table, sy) /\ InfoSet(table, sy) = Own(table, sy)
      BY <1>1, <1>2, <3>1 DEF TableInv, CurrentDefined
    <3>3. PICK a \in Own(table, sy) : a.type \in STATES
      BY <3>2 DEF HasState
    <3>4. InfoSet(table, sy) # {}
      BY <3>2, <3>3
    <3>5. info(table, sy, 0) \in Own(table, sy) /\ info(table, sy, 0).type = type_of(table, sy, 0)
          /\ sy \in DOMAIN table
      BY <1>1, <3>2, <3>4, FirstOfSet
    <3>6. type_of(table, sy, 0) = a.type
      BY <3>3, <3>5 DEF TableInv, InfosSound
    <3> QED
      BY <1>4, <3>3, <3>6
  <2> QED
    BY <1>1, <2>1, <2>2 DEF Undefined, Stopped
<1> QED
  BY <1>3, <1>4

\* The symbol that a reference enters.
LEMMA ReferredQuiet ==
    ASSUME ParserInv, TableInv, at # "undefined", NEW ref \in budget.refs
    PROVE  /\ Referred(state_name(ref), ref.dots)
           /\ \E A : /\ Entering(state_name(ref).table, A, events_, ~ state_name(ref).error, PlainText)
                     /\ \A e \in A : e[2].type = "GLOBAL"
           /\ IdsKept(table, state_name(ref).table)
           /\ state_name(ref).name \in Names
<1> DEFINE s == state_name(ref)
<1>1. /\ TypeOK /\ scope \in Nat /\ Scoped(table, ScopeParents)
  BY ScopedOf
<1>2. NamedScopes(ScopeParents) /\ InfosSound(table)
  BY ScopesNamed DEF TableInv
<1>3. ref \in References
  <2>1. budget \in TextTypes
    BY <1>1 DEF TypeOK
  <2> QED
    BY <2>1, BudgetTyped
<1>4. Referred(s, ref.dots)
  BY <1>1, <1>2, <1>3, StateNameReferred
<1> HIDE DEF s
<1>5. PICK A : Grows(table, s.table, A, {}) /\ \A e \in A : e[2].type = "GLOBAL"
  BY <1>4 DEF Referred, global_info
<1>6. Entering(s.table, A, events_, ~ s.error, PlainText)
  <2>1. \A e \in A : e[2].type \notin STATES \cup EVENT
    BY <1>5 DEF STATES, EVENT
  <2> QED
    BY <1>4, <1>5, <2>1 DEF Entering, Grows, Referred
<1>7. s.name \in Names /\ IdsKept(table, s.table)
  BY <1>4, <1>5, StateNamesAre DEF Referred, Grows
<1> QED
  BY <1>4, <1>5, <1>6, <1>7 DEF s

LEMMA TargetStateQuiet ==
    ASSUME ParserInv, TableInv, NEW ref \in budget.refs, target_state(ref)
    PROVE  QuietStep
<1> DEFINE s == state_name(ref)
           R == written.refs \cup {[ref |-> ref, name |-> s.name, in |-> sy_parent, from |-> From]}
<1>1. /\ at = "type" /\ at # "undefined"
      /\ table' = s.table /\ errors' = (errors \/ s.error)
      /\ TargetPushed(s.name, 0, FALSE)
      /\ written' = [written EXCEPT !.refs = R]
      /\ budget' = budget
  BY DEF target_state, TargetPushed, Push, TargetItems
<1> HIDE DEF R
<1>2. /\ Referred(s, ref.dots) /\ IdsKept(table, s.table) /\ s.name \in Names
      /\ \E A : /\ Entering(s.table, A, events_, ~ s.error, PlainText)
                /\ \A e \in A : e[2].type = "GLOBAL"
  BY <1>1, ReferredQuiet
<1> HIDE DEF s
<1>3. SamePlace /\ PushedAlive /\ desc'.type = desc.type /\ stack'[Len(stack') - 1] = Ptr(s.name)
  BY <1>1, <1>2, TargetQuiet DEF Referred
<1>4. /\ UNCHANGED <<scope, sy_parent, sy_outer_deep_, states_, events_, transitions_, emitted>>
  BY <1>1 DEF TargetPushed
<1>5. Frame
  <2>1. written'.deep = written.deep /\ written'.history = written.history
    BY <1>1, InvFacts DEF TypeOK, Writings
  <2>2. ~ emitted
    BY <1>1 DEF TableInv, EmittedFine
  <2> QED
    BY <1>1, <1>3, <1>4, <2>1, <2>2 DEF Frame
<1>6. TargetRead
  <2>1. ~ errors' /\ PlainText => LeadsToState(table', s.name)
    BY <1>1, <1>2, PlainDots DEF Referred
  <2> QED
    BY <1>3, <2>1 DEF TargetRead, Ptr
<1>7. PICK A : /\ Entering(s.table, A, events_, ~ s.error, PlainText)
               /\ \A e \in A : e[2].type = "GLOBAL"
  BY <1>2
<1>8. Entering(table', A, events_', ~ errors', PlainText)
  BY <1>1, <1>4, <1>7, EnteringWeaker
<1>9. Quiet(A)
  BY <1>3, <1>5, <1>7, <1>8 DEF Quiet
<1>10. Steady
  BY <1>1, <1>2, <1>4, <1>6 DEF Steady
<1> QED
  BY <1>3, <1>9, <1>10 DEF QuietStep

LEMMA EmbeddedStateNameQuiet ==
    ASSUME ParserInv, TableInv, NEW ref \in budget.refs, embedded_state_name(ref)
    PROVE  QuietStep
<1> DEFINE s == state_name(ref)
<1>1. /\ desc.block /\ at # "undefined" /\ at' = at /\ stack' = stack
      /\ table' = s.table /\ errors' = (errors \/ s.error)
      /\ desc' = [desc EXCEPT !.block = FALSE]
      /\ UNCHANGED <<scope, sy_parent, sy_outer_deep_, states_, events_, transitions_, emitted,
                     written, budget>>
  BY DEF embedded_state_name, InBlock
<1>2. /\ IdsKept(table, s.table)
      /\ \E A : /\ Entering(s.table, A, events_, ~ s.error, PlainText)
                /\ \A e \in A : e[2].type = "GLOBAL"
  BY <1>1, ReferredQuiet
<1> HIDE DEF s
<1>3. at \notin {"chsm", "done", "undefined"}
  BY <1>1, InvFacts DEF StackShape
<1>4. Frame
  <2>1. ~ emitted
    BY <1>3 DEF TableInv, EmittedFine
  <2>2. desc'.type = desc.type
    BY <1>1, InvFacts DEF TypeOK
  <2> QED
    BY <1>1, <1>3, <2>1, <2>2 DEF Frame
<1>5. PICK A : /\ Entering(s.table, A, events_, ~ s.error, PlainText)
               /\ \A e \in A : e[2].type = "GLOBAL"
  BY <1>2
<1>6. Entering(table', A, events_', ~ errors', PlainText)
  BY <1>1, <1>5, EnteringWeaker
<1>7. Quiet(A)
  BY <1>1, <1>4, <1>5, <1>6 DEF Quiet, SamePlace
<1>8. Steady
  BY <1>1, <1>2 DEF Steady
<1> QED
  BY <1>1, <1>7, <1>8, SameStackAlive DEF QuietStep

LEMMA EmbeddedEventNameQuiet ==
    ASSUME ParserInv, TableInv, NEW id \in budget.events, embedded_event_name(id)
    PROVE  QuietStep
<1> DEFINE ev == user_event(id)
<1>1. /\ desc.block /\ at # "undefined" /\ at' = at /\ stack' = stack
      /\ table' = ev.table /\ errors' = (errors \/ ev.error)
      /\ events_' = WithEvent(ev)
      /\ desc' = [desc EXCEPT !.block = FALSE]
      /\ UNCHANGED <<scope, sy_parent, sy_outer_deep_, states_, transitions_, emitted,
                     written, budget>>
  BY DEF embedded_event_name, InBlock, WithEvent
<1>2. EventEntered(ev, PlainText)
  <2>1. TypeOK /\ Typed(table) /\ InfosSound(table)
    BY InvFacts DEF TableInv
  <2>2. budget \in TextTypes /\ events_ \in Seq(Names)
    BY <2>1 DEF TypeOK
  <2>3. id \in Identifiers
    BY <2>2, BudgetTyped
  <2> QED
    BY <2>1, <2>2, <2>3, UserEventEntered
<1> HIDE DEF ev
<1>3. at \notin {"chsm", "done", "undefined"}
  BY <1>1, InvFacts DEF StackShape
<1>4. Frame
  <2>1. ~ emitted
    BY <1>3 DEF TableInv, EmittedFine
  <2>2. desc'.type = desc.type
    BY <1>1, InvFacts DEF TypeOK
  <2> QED
    BY <1>1, <1>3, <2>1, <2>2 DEF Frame
<1>5. PICK A : /\ Entering(ev.table, A, WithEvent(ev), ~ ev.error, PlainText)
               /\ \A e \in A : e[2].type # "CHILD"
  BY <1>2 DEF EventEntered
<1>6. Entering(table', A, events_', ~ errors', PlainText)
  BY <1>1, <1>5, EnteringWeaker
<1>8. Quiet(A)
  BY <1>1, <1>4, <1>5, <1>6 DEF Quiet, SamePlace
<1>9. Steady
  BY <1>1, <1>2 DEF Steady, EventEntered
<1> QED
  BY <1>1, <1>8, <1>9, SameStackAlive DEF QuietStep

LEMMA EventConditionSpecQuiet ==
    ASSUME ParserInv, TableInv, NEW ev, NEW p, EventEntered(ev, p), PlainText => p,
           ev.error \in BOOLEAN, NEW c \in BOOLEAN, event_condition_spec(ev, c)
    PROVE  QuietStep
<1>0. /\ TypeOK /\ StackShape /\ scope \in Nat /\ stack \in Seq(Items) /\ Len(stack) \in Nat
      /\ at \in {"event", "type"}
  BY ScopedOf DEF event_condition_spec
<1>1. PICK n \in Nat : Len(stack) = scope + 2 + 2 * n /\ CountedEvents(n) /\ Peek(0) = Num(n)
  BY <1>0, EventsRead
<1> DEFINE id == IF c THEN ids.condition + 1 ELSE 0
<1>2. stack' = Dropped(1) \o <<Ptr(ev.name), Num(id), Num(n + 1)>>
  <2>1. Peek(0).val = n
    BY <1>1 DEF Num
  <2> QED
    BY <2>1, Zenon DEF event_condition_spec
<1>3. /\ table' = ev.table /\ events_' = WithEvent(ev)
      /\ errors' = (errors \/ ev.error) /\ at' = "type"
      /\ desc' = [desc EXCEPT !.block = c] /\ Block(c)
      /\ UNCHANGED <<scope, sy_parent, sy_outer_deep_, states_, transitions_, emitted, written>>
  BY DEF event_condition_spec, WithEvent
<1>4. id \in Nat
  BY <1>0 DEF TypeOK
<1> HIDE DEF id
<1>5. InDescribed /\ InDescribed'
  BY <1>0, <1>3 DEF InDescribed
<1> DEFINE r == Dropped(1)
           l == scope + 1 + 2 * n
<1>6. 1 \in 0 .. Len(stack) /\ Len(stack) - 1 = l /\ l \in Nat /\ l > scope /\ l <= Len(stack)
  BY <1>0, <1>1
<1> HIDE DEF l
<1>7. r \in Seq(Items) /\ Len(r) = l /\ \A k \in 1 .. l : r[k] = stack[k]
  BY <1>0, <1>6, DroppedItems
<1> HIDE DEF r
<1>8. /\ Ptr(ev.name) \in Items /\ Num(id) \in Items /\ Num(n + 1) \in Items
      /\ ev.name \in DOMAIN ev.table
      /\ Ptr(ev.name).val = ev.name /\ Num(id).tag = "int" /\ Num(n + 1).tag = "int"
  BY <1>4, ItemsTyped DEF EventEntered, Ptr, Num
<1>9. /\ stack' \in Seq(Items) /\ Len(stack') = l + 3
      /\ \A k \in 1 .. l : stack'[k] = r[k]
      /\ stack'[l + 1] = Ptr(ev.name) /\ stack'[l + 2] = Num(id) /\ stack'[l + 3] = Num(n + 1)
  BY <1>2, <1>7, <1>8, PushedThree DEF r
<1>10. \A k \in 1 .. l : stack'[k] = stack[k]
  BY <1>7, <1>9
<1>11. SamePlace
  BY <1>5, <1>6, <1>10, KeptBeginning
<1>12. PushedAlive
  <2>1. \A k \in l + 1 .. Len(stack') : k = l + 1 \/ k = l + 2 \/ k = l + 3
    BY <1>6, <1>9
  <2>2. \A k \in l + 1 .. Len(stack') :
            stack'[k].tag = "ptr" => stack'[k].val \in DOMAIN table' \cup {NIL}
    BY <1>3, <1>8, <1>9, <2>1
  <2>3. l <= Len(stack')
    BY <1>6, <1>9
  <2> QED
    BY <1>0, <1>6, <1>9, <1>10, <2>2, <2>3, PushedOnTop
<1>13. Frame
  <2>1. desc'.type = desc.type
    BY <1>0, <1>3 DEF TypeOK
  <2>2. ~ emitted
    BY <1>0 DEF TableInv, EmittedFine
  <2> QED
    BY <1>0, <1>3, <2>1, <2>2, BlockRefs DEF Frame
<1>14. PICK A : /\ Entering(ev.table, A, WithEvent(ev), ~ ev.error, p)
                /\ \A e \in A : e[2].type # "CHILD"
  BY DEF EventEntered
<1>15. Entering(table', A, events_', ~ errors', PlainText)
  BY <1>3, <1>14, EnteringWeaker
<1>16. Quiet(A)
  BY <1>11, <1>13, <1>14, <1>15 DEF Quiet
<1>17. Steady
  BY <1>3 DEF Steady, EventEntered
<1> QED
  BY <1>12, <1>16, <1>17 DEF QuietStep

LEMMA UserEventSpecQuiet ==
    ASSUME ParserInv, TableInv, NEW e \in budget.events, NEW c \in BOOLEAN,
           event_condition_spec(user_event(e), c)
    PROVE  QuietStep
<1>1. TypeOK /\ Scoped(table, ScopeParents) /\ Typed(table) /\ InfosSound(table)
  BY ScopedOf, InvFacts DEF event_condition_spec, TableInv
<1>2. budget \in TextTypes /\ events_ \in Seq(Names)
  BY <1>1 DEF TypeOK
<1>3. e \in Identifiers
  BY <1>2, BudgetTyped
<1>4. EventEntered(user_event(e), PlainText)
  BY <1>1, <1>2, <1>3, UserEventEntered
<1>5. user_event(e).error \in BOOLEAN
  BY <1>1, <1>3, UserEventScoped
<1> QED
  BY <1>4, <1>5, EventConditionSpecQuiet

LEMMA EnexEventSpecQuiet ==
    ASSUME ParserInv, TableInv, NEW k \in {"enter", "exit"}, NEW r \in budget.refs,
           event_condition_spec(enex_event(k, r), FALSE)
    PROVE  QuietStep
<1>1. /\ TypeOK /\ Scoped(table, ScopeParents) /\ Typed(table) /\ InfosSound(table)
      /\ scope \in Nat /\ DOMAIN ScopeParents \subseteq Nat \ {0, 1} /\ NamedScopes(ScopeParents)
  BY ScopedOf, InvFacts, ScopesNamed DEF event_condition_spec, TableInv
<1>2. budget \in TextTypes /\ events_ \in Seq(Names)
  BY <1>1 DEF TypeOK
<1>3. r \in References
  BY <1>2, BudgetTyped
<1>4. EventEntered(enex_event(k, r), r.dots = 0)
  BY <1>1, <1>2, <1>3, EnexEventEntered
<1>5. enex_event(k, r).error \in BOOLEAN
  BY <1>1, <1>3, EnexEventScoped
<1>6. PlainText => r.dots = 0
  BY PlainDots
<1> DEFINE p == r.dots = 0
<1>7. EventEntered(enex_event(k, r), p) /\ (PlainText => p)
  BY <1>4, <1>6
<1> HIDE DEF p
<1> QED
  BY <1>5, <1>7, EventConditionSpecQuiet

LEMMA ChildQuiet ==
    ASSUME ParserInv, TableInv, NEW id \in budget.idents, child(id)
    PROVE  QuietStep
<1> DEFINE parent == Peek(0).val
           n == <<id>>
           named == Touch(table, n)
           si == child_info(scope, parent)
           r == insert_info(named, n, si)
<1>0. /\ TypeOK /\ StackShape /\ scope \in Nat /\ Typed(table) /\ at = "children"
      /\ InfosSound(table)
  BY ScopedOf, InvFacts DEF child, TableInv
<1>1. id \in Identifiers
  <2>1. budget \in TextTypes
    BY <1>0 DEF TypeOK
  <2> QED
    BY <2>1, BudgetTyped
<1>2. parent \in Names /\ n \in Names
  BY <1>0, <1>1, NilIsNoName DEF StackShape, Peek, NamePtr
<1>3. /\ table' = named \/ table' = r
      /\ errors => errors'
      /\ at' = at /\ stack' = stack
      /\ desc' = [desc EXCEPT !.children = desc.children + 1]
      /\ UNCHANGED <<scope, sy_parent, sy_outer_deep_, states_, events_, transitions_,
                     emitted, budget>>
  BY DEF child
<1>4. written'.deep = written.deep /\ written'.history = written.history
  <2> DEFINE D == written.declared \cup {Append(parent, id)}
             l == written.legal /\ Append(parent, id) \notin written.declared
  <2>1. written' = [written EXCEPT !.declared = D, !.legal = l]
    BY DEF child
  <2> HIDE DEF D, l
  <2> QED
    BY <1>0, <2>1 DEF TypeOK, Writings
<1>5. /\ si \in AllInfos /\ si.type = "CHILD"
  BY <1>0, <1>2, NewInfos, KindsAreInfos DEF child_info
<1> HIDE DEF parent
<1>6. /\ Typed(named) /\ Grows(table, named, {}, {}) /\ \A m : InfoSet(named, m) = InfoSet(table, m)
  BY <1>0, <1>2, GrowsTouch DEF Grows
<1>7. InfosSound(named)
  BY <1>0, <1>6, SoundKept DEF Grows
<1>8. Len(n) = 1
  OBVIOUS
<1> HIDE DEF named, si, n
<1>9. /\ Grows(table, r, {<<n, si>>}, {}) /\ InfosSound(r)
  <2>1. Grows(named, r, {<<n, si>>}, {})
    BY <1>2, <1>5, <1>6, GrowsInsert DEF EVENT
  <2>2. Grows(table, r, {} \cup {<<n, si>>}, {} \cup {})
    BY <1>6, <2>1, GrowsTwice
  <2>3. {} \cup {<<n, si>>} = {<<n, si>>} /\ {} \cup {} = {}
    OBVIOUS
  <2>4. NameFits(n, si)
    BY <1>5, <1>8 DEF NameFits, STATES
  <2>5. InfosSound(r)
    BY <1>2, <1>5, <1>6, <1>7, <2>4, SoundInsert
  <2> QED
    BY <2>2, <2>3, <2>5
<1> HIDE DEF r
<1>10. PICK A \in {{}, {<<n, si>>}} : Grows(table, table', A, {}) /\ InfosSound(table')
  BY <1>3, <1>6, <1>7, <1>9
<1>11. \A e \in A : e[2].type = "CHILD"
  BY <1>5, <1>10
<1>12. Entering(table', A, events_', ~ errors', PlainText)
  BY <1>3, <1>10, <1>11 DEF Entering, Grows, STATES, EVENT
<1>13. ~ InDescribed
  BY <1>0 DEF InDescribed
<1>14. Frame
  <2>1. desc'.type = desc.type
    BY <1>0, <1>3 DEF TypeOK
  <2>2. ~ emitted
    BY <1>0 DEF TableInv, EmittedFine
  <2> QED
    BY <1>0, <1>3, <1>4, <2>1, <2>2 DEF Frame
<1>15. Quiet(A)
  BY <1>3, <1>12, <1>13, <1>14 DEF Quiet, SamePlace
<1>16. Steady
  BY <1>0, <1>3, <1>10 DEF Steady, Grows
<1> QED
  BY <1>3, <1>15, <1>16, SameStackAlive DEF QuietStep

\* What is changed in place says what it said.
LEMMA SameGrown ==
    ASSUME NEW t, Typed(t), NEW r, Typed(r), SamePlaces(t, r)
    PROVE  /\ Grown(t, r, {}, {}) /\ Kept(t, r, {})
           /\ \A n : \A x \in InfoSet(r, n) : n \in DOMAIN t /\ \E i \in DOMAIN t[n] : x = r[n][i]
           /\ \A n \in DOMAIN t : \A i \in DOMAIN t[n] : t[n][i] \in InfoSet(t, n)
<1>1. ASSUME NEW n \in DOMAIN t
      PROVE  /\ InfoSet(t, n) = {t[n][i] : i \in DOMAIN t[n]}
             /\ InfoSet(r, n) = {r[n][i] : i \in DOMAIN t[n]}
  <2>1. n \in DOMAIN r /\ DOMAIN r[n] = DOMAIN t[n]
    BY DEF SamePlaces
  <2>2. Infos(t, n) = t[n] /\ Infos(r, n) = r[n]
    BY <2>1, InfoSetIs
  <2>3. t[n] \in Seq(AllInfos) /\ r[n] \in Seq(AllInfos)
    BY <2>1 DEF Typed
  <2>4. DOMAIN t[n] = 1 .. Len(t[n]) /\ DOMAIN r[n] = 1 .. Len(r[n])
    BY <2>3, LenProperties
  <2> QED
    BY <2>1, <2>2, <2>4, InfoSetIs
<1>2. ASSUME NEW n, n \notin DOMAIN t
      PROVE  InfoSet(t, n) = {} /\ InfoSet(r, n) = {}
  BY <1>2, InfoSetIs DEF SamePlaces
<1>3. \A n : \A x \in InfoSet(r, n) : n \in DOMAIN t /\ \E i \in DOMAIN t[n] : x = r[n][i]
  BY <1>1, <1>2
<1>4. \A n \in DOMAIN t : \A i \in DOMAIN t[n] : Like(r[n][i], t[n][i])
  BY DEF SamePlaces
<1>5. \A n : \A x \in InfoSet(r, n) : \E y \in InfoSet(t, n) : Like(x, y)
  BY <1>1, <1>3, <1>4
<1>6. \A n : \A y \in InfoSet(t, n) : \E x \in InfoSet(r, n) : Like(x, y)
  BY <1>1, <1>2, <1>4
<1>7. Grown(t, r, {}, {})
  BY <1>5, <1>6 DEF Grown
<1>8. Kept(t, r, {})
  BY <1>6 DEF Kept
<1> QED
  BY <1>1, <1>3, <1>7, <1>8

LEMMA NullChsmStopped ==
    ASSUME ParserInv, NullChsm
    PROVE  Stopped
  BY DEF NullChsm, Undefined, Stopped

LEMMA ChsmQuiet ==
    ASSUME ParserInv, TableInv, chsm
    PROVE  QuietStep
<1>0. /\ TypeOK /\ Typed(table) /\ at = "end" /\ InfosSound(table)
  BY InvFacts DEF chsm, TableInv
<1>1. /\ table' = table \/ table' = backpatch_enter_exit_events
      /\ at' = "done" /\ (errors => errors') /\ emitted' = ~ errors'
      /\ UNCHANGED <<desc, scope, sy_parent, sy_outer_deep_, stack, states_, events_, transitions_,
                     written, budget>>
  BY DEF chsm
<1>2. /\ Typed(table') /\ SamePlaces(table, table')
      /\ \A n \in DOMAIN table : \A i \in DOMAIN table[n] :
            table'[n][i] = table[n][i] \/ table'[n][i].type \in STATES
  <2>1. SamePlaces(table, table)
    BY DEF SamePlaces, Like
  <2> QED
    BY <1>0, <1>1, <2>1, BackpatchTable
<1>3. Grown(table, table', {}, {}) /\ Kept(table, table', {})
  BY <1>0, <1>2, SameGrown
<1>4. InfosSound(table')
  BY <1>0, <1>2, <1>3, SoundKept
<1>5. IdsKept(table, table')
  <2>1. SUFFICES ASSUME NEW n, NEW x \in InfoSet(table', n), x.type \in EVENT
                 PROVE  x \in InfoSet(table, n)
    BY DEF IdsKept
  <2>2. n \in DOMAIN table /\ \E i \in DOMAIN table[n] : x = table'[n][i]
    BY <1>0, <1>2, SameGrown
  <2>3. PICK i \in DOMAIN table[n] : x = table'[n][i]
    BY <2>2
  <2>4. x = table[n][i]
    BY <1>2, <2>1, <2>2, <2>3 DEF STATES, EVENT
  <2> QED
    BY <1>0, <1>2, <2>2, <2>4, SameGrown
<1>6. DOMAIN table \subseteq DOMAIN table'
  BY <1>2 DEF SamePlaces
<1>7. Entering(table', {}, events_', ~ errors', PlainText)
  BY <1>1, <1>2, <1>3, <1>4, <1>6 DEF Entering
<1>8. Frame /\ SamePlace
  BY <1>0, <1>1 DEF Frame, SamePlace
<1>9. Quiet({})
  BY <1>7, <1>8 DEF Quiet
<1>10. Steady
  BY <1>1, <1>5 DEF Steady
<1> QED
  BY <1>1, <1>9, <1>10, SameStackAlive DEF QuietStep

\* An event that is described is new, and its base is an event.
LEMMA UserEventDescribed ==
    ASSUME Typed(table), InfosSound(table), NEW t, Grows(table, t, {}, {}),
           \A m : InfoSet(t, m) = InfoSet(table, m), NEW n \in Names, Len(n) = 1,
           type_of(t, n, 0) \notin ANY, NEW si \in AllInfos, si.type = "USER_EVENT", si.tids = <<>>,
           si.state = NIL,
           NEW f, f => si.base = NIL \/ HasEvent(table, si.base), NEW p
    PROVE  /\ Entering(insert_info(t, n, si), {<<n, si>>}, Append(events_, n), f, p)
           /\ IdsKept(table, insert_info(t, n, si))
<1> DEFINE r == insert_info(t, n, si)
           A == {<<n, si>>}
<1>1. Typed(t) /\ InfosSound(t)
  BY SoundKept DEF Grows
<1>2. InfoSet(t, n) = {}
  <2>1. type_of(t, n, 0) = "NONE"
    BY <1>1, NoInfo
  <2> QED
    BY <1>1, <2>1, FirstOfSet
<1>3. NameFits(n, si) /\ si.type \in EVENT /\ si.type \notin STATES /\ si.type # "ENEX_EVENT"
  BY DEF NameFits, EVENT, STATES
<1>4. Grows(t, r, A, {}) /\ InfosSound(r) /\ HasEvent(r, n)
  BY <1>1, <1>2, <1>3, OneInserted
<1>5. Own(table, n) = {}
  BY <1>2 DEF Own
<1> HIDE DEF r
<1>6. Grows(table, r, A, {})
  <2>1. Grows(table, r, {} \cup A, {} \cup {})
    BY <1>4, GrowsTwice
  <2>2. {} \cup A = A /\ {} \cup {} = {}
    OBVIOUS
  <2> QED
    BY <2>1, <2>2
<1>7. \A e \in A : e[1] = n /\ e[2] = si
  OBVIOUS
<1> HIDE DEF A
<1>8. Entering(r, A, Append(events_, n), f, p)
  BY <1>3, <1>4, <1>5, <1>6, <1>7 DEF Entering, Grows
<1> QED
  BY <1>6, <1>8 DEF Grows, r, A

LEMMA EventDescriptionQuiet ==
    ASSUME ParserInv, TableInv, NEW id \in budget.events, NEW base \in Bases, NEW params \in {0, 1},
           NEW precondition \in budget.preconditions,
           event_description(id, base, params, precondition)
    PROVE  QuietStep \/ Stopped
<1> DEFINE n       == <<id>>
           named   == Touch(IF base = NIL THEN table ELSE Touch(table, <<base>>), <<id>>)
           baseOK  == BaseExists(named, base)
           new     == not_exists(named, <<id>>, ANY)
           si      == [user_event_info(IF base = NIL THEN NIL ELSE <<base>>) EXCEPT
                          !.params = params, !.precondition = precondition]
           old     == info(named, <<id>>, 0)
           bad     == ~new /\ old.type # "USER_EVENT" /\ (params > 0 \/ precondition # "none")
<1>0. /\ TypeOK /\ StackShape /\ scope \in Nat /\ stack \in Seq(Items) /\ Len(stack) \in Nat
      /\ Typed(table) /\ InfosSound(table) /\ at = "description" /\ id \in Identifiers
      /\ base = NIL \/ base \in Identifiers
      /\ precondition \in {"none", "expr", "func"} /\ params \in Nat
  <2>1. ParserInv /\ at = "description"
    BY DEF event_description
  <2>2. budget \in TextTypes
    BY InvFacts DEF TypeOK
  <2>3. budget.events \subseteq Identifiers /\ budget.preconditions \subseteq {"none", "expr", "func"}
    BY <2>2, BudgetTyped
  <2>4. id \in Identifiers /\ (base = NIL \/ base \in Identifiers)
        /\ precondition \in {"none", "expr", "func"} /\ params \in Nat
    BY <2>3 DEF Bases
  <2> QED
    BY <2>1, <2>4, ScopedOf, InvFacts DEF TableInv
<1>1. n \in Names /\ (base # NIL => <<base>> \in Names) /\ Len(n) = 1 /\ n = <<id>>
  BY <1>0, NilIsNoName
<1>2. Grows(table, named, {}, {}) /\ \A m : InfoSet(named, m) = InfoSet(table, m)
  <2> DEFINE t == IF base = NIL THEN table ELSE Touch(table, <<base>>)
  <2>1. Grows(table, t, {}, {}) /\ \A m : InfoSet(t, m) = InfoSet(table, m)
    BY <1>0, <1>1, GrowsTouch, GrowsNot
  <2>2. Typed(t)
    BY <2>1 DEF Grows
  <2> HIDE DEF t
  <2>3. /\ Grows(t, Touch(t, <<id>>), {}, {})
        /\ \A m : InfoSet(Touch(t, <<id>>), m) = InfoSet(t, m)
    BY <1>1, <2>2, GrowsTouch
  <2>4. Grows(table, Touch(t, <<id>>), {} \cup {}, {} \cup {})
    BY <2>1, <2>3, GrowsTwice
  <2>5. {} \cup {} = {}
    OBVIOUS
  <2> QED
    BY <2>1, <2>3, <2>4, <2>5 DEF t
<1>3. Typed(named) /\ InfosSound(named)
  BY <1>0, <1>2, SoundKept DEF Grows
<1>4. /\ si \in AllInfos /\ si.type = "USER_EVENT" /\ si.tids = <<>> /\ si.state = NIL
      /\ si.base = IF base = NIL THEN NIL ELSE <<base>>
  <2> DEFINE b == IF base = NIL THEN NIL ELSE <<base>>
  <2>1. b \in Names \cup {NIL}
    BY <1>0, <1>1, NilIsNoName
  <2>2. user_event_info(b) \in EventInfos
    BY <2>1, NewInfos
  <2>3. /\ user_event_info(b).type = "USER_EVENT" /\ user_event_info(b).tids = <<>>
        /\ user_event_info(b).base = b /\ user_event_info(b).state = NIL
    BY DEF user_event_info
  <2> DEFINE u == user_event_info(b)
             v == [u EXCEPT !.params = params, !.precondition = precondition]
  <2>4. si = v
    OBVIOUS
  <2> HIDE DEF u, si
  <2>5. v \in EventInfos /\ v.type = u.type /\ v.tids = u.tids /\ v.base = u.base /\ v.state = u.state
    BY <1>0, <2>2 DEF EventInfos, u
  <2>6. v \in AllInfos
    BY <2>5, KindsAreInfos
  <2> QED
    BY <2>3, <2>4, <2>5, <2>6 DEF u
<1>5. /\ IF bad
         THEN /\ at' = "undefined" /\ errors' = TRUE /\ UNCHANGED <<desc, table, events_>>
         ELSE /\ table' = IF new THEN insert_info(named, <<id>>, si)
                          ELSE IF old.type = "USER_EVENT" /\ precondition # "none"
                          THEN Update(named, <<id>>, [old EXCEPT !.precondition = precondition])
                          ELSE named
              /\ events_' = IF new THEN Append(events_, <<id>>) ELSE events_
              /\ errors' = (errors \/ ~baseOK \/ ~new)
              /\ desc' = [desc EXCEPT !.block = (precondition # "none")]
              /\ at' = "description"
      /\ budget' = [budget EXCEPT !.descriptions = @ - 1,
                                  !.blocks = IF precondition = "none" THEN @ ELSE @ - 1]
      /\ UNCHANGED <<scope, sy_parent, sy_outer_deep_, stack, states_, transitions_, emitted,
                     written>>
  BY DEF event_description
<1>6. budget'.refs = budget.refs
  <2>1. budget \in TextTypes
    BY <1>0 DEF TypeOK
  <2>2. \A x, y : [budget EXCEPT !.descriptions = x, !.blocks = y].refs = budget.refs
    BY <2>1 DEF TextTypes
  <2> QED
    BY <1>5, <2>2
<1> HIDE DEF si
<1>7. baseOK => base = NIL \/ HasEvent(table, <<base>>)
  <2>1. SUFFICES ASSUME baseOK, base # NIL PROVE HasEvent(table, <<base>>)
    OBVIOUS
  <2>2. type_of(named, <<base>>, 0) = "USER_EVENT"
    BY <2>1 DEF BaseExists, type_check
  <2> HIDE DEF named
  <2>3. info(named, <<base>>, 0) \in InfoSet(named, <<base>>)
        /\ info(named, <<base>>, 0).type = "USER_EVENT"
    BY <1>3, <2>2, FirstOfSet
  <2>4. info(named, <<base>>, 0) \in InfoSet(table, <<base>>)
    BY <1>2, <2>3
  <2> QED
    BY <2>3, <2>4 DEF HasEvent, Own, EVENT
<1>8. ~new => /\ old \in AllInfos /\ <<id>> \in DOMAIN named /\ named[<<id>>] # <<>>
              /\ old = named[<<id>>][1]
  <2>1. ~new => type_of(named, <<id>>, 0) # "NONE"
    BY DEF not_exists, ANY, STATES, EVENT
  <2> HIDE DEF named
  <2> QED
    BY <1>3, <2>1, FirstInfo
<1>9. new <=> type_of(named, n, 0) \notin ANY
  BY DEF not_exists
<1> HIDE DEF named, new, old, baseOK, n
<1>10. CASE bad
  BY <1>0, <1>5, <1>6, <1>10 DEF Stopped
<1>11. CASE ~bad
  <2>1. PICK A : Entering(table', A, events_', ~ errors', PlainText) /\ IdsKept(table, table')
    <3>1. CASE new
      <4> DEFINE f == ~ errors'
      <4>1. f => si.base = NIL \/ HasEvent(table, si.base)
        BY <1>4, <1>5, <1>7, <1>11
      <4> HIDE DEF f
      <4>2. /\ Entering(insert_info(named, n, si), {<<n, si>>}, Append(events_, n), f, PlainText)
            /\ IdsKept(table, insert_info(named, n, si))
        BY <1>0, <1>1, <1>2, <1>4, <1>9, <3>1, <4>1, UserEventDescribed
      <4>3. table' = insert_info(named, n, si) /\ events_' = Append(events_, n)
        BY <1>1, <1>5, <1>11, <3>1
      <4> QED
        BY <4>2, <4>3 DEF f
    <3>2. CASE ~new /\ old.type = "USER_EVENT" /\ precondition # "none"
      <4> DEFINE chg == [old EXCEPT !.precondition = precondition]
      <4>1. old \in EventInfos /\ old.type \in EVENT /\ old.type \notin STATES
        BY <1>8, <3>2, InfoKinds DEF EVENT, STATES
      <4>2. /\ chg \in EventInfos /\ chg.type = old.type /\ chg.tids = old.tids
            /\ chg.kind = old.kind /\ chg.state = old.state /\ chg.base = old.base
        BY <1>0, <4>1 DEF EventInfos
      <4>3. chg \in AllInfos /\ Like(chg, old)
        BY <4>1, <4>2, KindsAreInfos DEF Like
      <4>4. table' = Update(named, <<id>>, chg) /\ events_' = events_
        BY <1>5, <1>11, <3>2
      <4> HIDE DEF chg
      <4>5. Grows(named, table', {}, {})
        BY <1>3, <1>8, <3>2, <4>2, <4>3, <4>4, GrowsUpdate
      <4>6. Grows(table, table', {} \cup {}, {} \cup {})
        BY <1>2, <4>5, GrowsTwice
      <4>7. {} \cup {} = {}
        OBVIOUS
      <4>8. Grows(table, table', {}, {})
        BY <4>6, <4>7
      <4>9. InfosSound(table')
        BY <1>0, <4>8, SoundKept DEF Grows
      <4>10. Entering(table', {}, events_', ~ errors', PlainText)
        BY <4>4, <4>8, <4>9 DEF Entering, Grows
      <4> QED
        BY <4>8, <4>10 DEF Grows
    <3>3. CASE ~new /\ ~(old.type = "USER_EVENT" /\ precondition # "none")
      <4>1. table' = named /\ events_' = events_
        BY <1>5, <1>11, <3>3
      <4>2. Entering(table', {}, events_', ~ errors', PlainText)
        BY <1>2, <1>3, <4>1 DEF Entering, Grows
      <4> QED
        BY <1>2, <4>1, <4>2 DEF Grows
    <3> QED
      BY <3>1, <3>2, <3>3
  <2>2. ~ InDescribed /\ at # "end"
    BY <1>0 DEF InDescribed
  <2>3. SamePlace
    BY <1>0, <1>5, <1>11 DEF SamePlace
  <2>4. desc'.type = desc.type
    BY <1>0, <1>5, <1>11 DEF TypeOK
  <2>5. ~ emitted
    BY <1>0 DEF TableInv, EmittedFine
  <2>6. Frame
    BY <1>0, <1>5, <1>6, <1>11, <2>4, <2>5 DEF Frame
  <2>7. Quiet(A)
    BY <2>1, <2>2, <2>3, <2>6 DEF Quiet
  <2>8. at' # "action" /\ stack' = stack /\ transitions_' = transitions_
    BY <1>0, <1>5, <1>11
  <2>9. Steady
    BY <2>1, <2>8 DEF Steady
  <2> QED
    BY <2>7, <2>8, <2>9, SameStackAlive DEF QuietStep
<1> QED
  BY <1>10, <1>11

LEMMA AscendingConcat ==
    ASSUME NEW p \in Seq(Nat), NEW q \in Seq(Nat), NEW c \in Nat, NEW d \in Nat, c <= d,
           \A i, j \in DOMAIN p : i < j => p[i] < p[j],
           \A i, j \in DOMAIN q : i < j => q[i] < q[j],
           \A i \in DOMAIN p : p[i] < c, \A i \in DOMAIN q : c <= q[i] /\ q[i] < d
    PROVE  /\ \A i, j \in DOMAIN (p \o q) : i < j => (p \o q)[i] < (p \o q)[j]
           /\ \A i \in DOMAIN (p \o q) : (p \o q)[i] < d
<1> DEFINE w == p \o q
           k == Len(p)
           l == Len(q)
<1>1. /\ w \in Seq(Nat) /\ Len(w) = k + l
      /\ \A i \in 1 .. k + l : w[i] = IF i <= k THEN p[i] ELSE q[i - k]
  BY ConcatProperties, Zenon
<1>2. /\ k \in Nat /\ l \in Nat /\ DOMAIN p = 1 .. k /\ DOMAIN q = 1 .. l
      /\ \A i \in 1 .. k : p[i] \in Nat
      /\ \A i \in 1 .. l : q[i] \in Nat
  BY LenProperties
<1> HIDE DEF w, k, l
<1>3. DOMAIN w = 1 .. k + l
  BY <1>1, LenProperties
<1>4. \A i \in 1 .. k + l : i <= k => i \in 1 .. k /\ w[i] = p[i]
  BY <1>1, <1>2
<1>5. \A i \in 1 .. k + l : ~ (i <= k) => i - k \in 1 .. l /\ w[i] = q[i - k]
  BY <1>1, <1>2
<1>6. ASSUME NEW i \in 1 .. k + l, NEW j \in 1 .. k + l, i < j
      PROVE  w[i] < w[j]
  <2>1. CASE j <= k
    <3>1. i <= k
      BY <1>2, <1>6, <2>1
    <3> QED
      BY <1>2, <1>4, <1>6, <2>1, <3>1
  <2>2. CASE ~ (j <= k) /\ i <= k
    <3>1. w[i] = p[i] /\ i \in 1 .. k /\ w[j] = q[j - k] /\ j - k \in 1 .. l
      BY <1>4, <1>5, <2>2
    <3>2. p[i] < c /\ c <= q[j - k] /\ p[i] \in Nat /\ q[j - k] \in Nat
      BY <1>2, <3>1
    <3> QED
      BY <3>1, <3>2
  <2>3. CASE ~ (j <= k) /\ ~ (i <= k)
    <3>1. w[i] = q[i - k] /\ i - k \in 1 .. l /\ w[j] = q[j - k] /\ j - k \in 1 .. l
      BY <1>5, <2>3
    <3>2. i - k < j - k
      BY <1>2, <1>6
    <3> QED
      BY <1>2, <3>1, <3>2
  <2> QED
    BY <2>1, <2>2, <2>3
<1>7. ASSUME NEW i \in 1 .. k + l
      PROVE  w[i] < d
  <2>1. CASE i <= k
    <3>1. w[i] = p[i] /\ i \in 1 .. k
      BY <1>4, <2>1
    <3>2. p[i] < c /\ p[i] \in Nat
      BY <1>2, <3>1
    <3> QED
      BY <3>1, <3>2
  <2>2. CASE ~ (i <= k)
    BY <1>2, <1>5, <2>2
  <2> QED
    BY <2>1, <2>2
<1> QED
  BY <1>3, <1>6, <1>7 DEF w

\* The ids that an event gets are those of the new transitions.
LEMMA IdsAdded ==
    ASSUME Typed(table), NEW s, NEW n, scope \in Nat, Whole(s, n), transitions_ \in Seq(Transitions),
           IdsSound(table, Len(transitions_))
    PROVE  IdsSound(WithTransitions(s), Len(transitions_) + n)
<1> DEFINE r == WithTransitions(s)
           c == Len(transitions_)
           d == c + n
<1>1. NumEvents(s) = n /\ n \in Nat
  BY WholeRead DEF Whole
<1>2. c \in Nat /\ d \in Nat /\ c <= d /\ d = c + n
  BY <1>1, LenProperties
<1>3. /\ Typed(r) /\ SamePlaces(table, r)
      /\ \A m \in DOMAIN table : \A i \in DOMAIN table[m] :
            r[m][i] = table[m][i] \/ r[m][i] = Using(table[m][i], AddedIds(s, m))
  BY <1>1, WithTransitionsTable
<1>4. \A m : /\ AddedIds(s, m) \in Seq(Nat)
             /\ IsAscending(AddedIds(s, m))
             /\ ToSet(AddedIds(s, m)) = {c + i - 1 : i \in {i \in 1 .. n : EventOf(s, i) = m}}
  BY <1>1, NewIds
<1> HIDE DEF r, c, d
<1>5. SUFFICES ASSUME NEW m \in DOMAIN r, NEW x \in InfoSet(r, m), x.type \in EVENT
               PROVE  /\ \A i, j \in DOMAIN x.tids : i < j => x.tids[i] < x.tids[j]
                      /\ \A i \in DOMAIN x.tids : x.tids[i] < d
  BY DEF IdsSound, r, c, d
<1>6. PICK i \in DOMAIN table[m] : x = r[m][i]
  BY <1>3, SameGrown
<1>7. m \in DOMAIN table
  BY <1>3 DEF SamePlaces
<1> DEFINE y == table[m][i]
<1>8. y \in InfoSet(table, m) /\ y \in AllInfos
  <2>1. y \in InfoSet(table, m)
    BY <1>3, <1>6, <1>7, SameGrown
  <2> QED
    BY <2>1, InfoSetIs
<1>9. y.type = x.type
  BY <1>3, <1>6, <1>7 DEF SamePlaces, Like
<1> HIDE DEF y
<1>10. y \in EventInfos /\ y.tids \in Seq(Nat)
  <2>1. y \in EventInfos
    BY <1>5, <1>8, <1>9, InfoKinds DEF EVENT
  <2> QED
    BY <2>1 DEF EventInfos
<1> DEFINE p == y.tids
           q == AddedIds(s, m)
<1>11. /\ \A a, b \in DOMAIN p : a < b => p[a] < p[b]
       /\ \A a \in DOMAIN p : p[a] < c
  BY <1>5, <1>7, <1>8, <1>9 DEF IdsSound, c
<1>12. x = y \/ x = Using(y, q)
  BY <1>3, <1>6, <1>7 DEF y
<1>13. CASE x = y
  <2>1. \A a \in DOMAIN p : p[a] \in Nat
    BY <1>10
  <2> HIDE DEF p
  <2>2. \A a \in DOMAIN p : p[a] < d
    BY <1>2, <1>11, <2>1
  <2>3. x.tids = p
    BY <1>13 DEF p
  <2> QED
    BY <1>11, <2>2, <2>3
<1>14. CASE x = Using(y, q)
  <2>1. x.tids = p \o q
    BY <1>10, <1>14 DEF Using, AddIds, EventInfos
  <2>2. \A a, b \in DOMAIN q : a < b => q[a] < q[b]
    BY <1>4 DEF IsAscending
  <2>3. \A a \in DOMAIN q : c <= q[a] /\ q[a] < d
    <3>1. SUFFICES ASSUME NEW a \in DOMAIN q PROVE c <= q[a] /\ q[a] < d
      OBVIOUS
    <3>2. q[a] \in ToSet(q)
      BY DEF ToSet
    <3> HIDE DEF q
    <3>3. PICK k \in 1 .. n : q[a] = c + k - 1
      BY <1>4, <3>2 DEF q
    <3> QED
      BY <1>1, <1>2, <3>3
  <2>4. p \in Seq(Nat) /\ q \in Seq(Nat)
    BY <1>4, <1>10
  <2> HIDE DEF p, q
  <2> QED
    BY <1>2, <1>11, <2>1, <2>2, <2>3, <2>4, AscendingConcat
<1> QED
  BY <1>12, <1>13, <1>14

\* What the end of a transition changes.
Adding(s, n) ==
    /\ Quiet({}) /\ PushedAlive
    /\ InDescribed /\ scope > 0 /\ at' = "transitions"
    /\ Whole(s, n)
    /\ transitions_' = transitions_ \o AddedTransitions(s)
    /\ IdsSound(table', Len(transitions_'))
    /\ \/ s[Len(s) - 2].val = NIL
       \/ at = "action" /\ s[Len(s) - 2] = stack[Len(stack) - 1]

TransitionStep == \E s, n : Adding(s, n)

LEMMA TransitionMadeAdds ==
    ASSUME ParserInv, TableInv, at \in {"action", "type"}, NEW s, NEW n, Whole(s, n),
           NEW action, TransitionMade(s, action),
           s[Len(s) - 2].val = NIL \/ (at = "action" /\ s[Len(s) - 2] = stack[Len(stack) - 1])
    PROVE  Adding(s, n)
<1>0. /\ TypeOK /\ StackShape /\ scope \in Nat /\ stack \in Seq(Items) /\ Len(stack) \in Nat
      /\ Typed(table) /\ InfosSound(table) /\ transitions_ \in Seq(Transitions)
  <2>1. ParserInv /\ at # "undefined"
    OBVIOUS
  <2> QED
    BY <2>1, ScopedOf, InvFacts DEF TableInv, TypeOK
<1>1. NumEvents(s) = n /\ n \in Nat
  BY <1>0, WholeRead DEF Whole
<1>2. /\ transitions_' = transitions_ \o AddedTransitions(s)
      /\ table' = WithTransitions(s)
      /\ stack' = SubSeq(s, 1, Len(s) - 4 - 2 * NumEvents(s))
      /\ at' = "transitions" /\ desc' = [desc EXCEPT !.block = action] /\ Block(action)
      /\ UNCHANGED <<scope, sy_parent, sy_outer_deep_, states_, events_, errors, emitted, written>>
  BY DEF TransitionMade
<1>3. InDescribed /\ InDescribed' /\ scope > 0
  BY <1>0, <1>2 DEF InDescribed, StackShape
<1>4. /\ stack' \in Seq(Items) /\ Len(stack') = scope + 1
      /\ \A k \in 1 .. scope + 1 : stack'[k] = stack[k]
  <2>1. Len(s) - 4 - 2 * NumEvents(s) = scope + 1 /\ Len(s) = scope + 5 + 2 * n
    BY <1>0, <1>1 DEF Whole
  <2>2. s \in Seq(Items)
    BY DEF Whole
  <2>3. stack' = SubSeq(s, 1, scope + 1)
    BY <1>2, <2>1
  <2>4. scope + 1 \in 1 .. Len(s) /\ Len(s) \in Nat
    BY <1>0, <1>1, <2>1
  <2>5. \A i \in 1 .. scope + 1 : s[i] \in Items
    BY <1>0, <2>2, <2>4, ElementOfSeq
  <2>6. /\ stack' \in Seq(Items) /\ Len(stack') = scope + 1
        /\ \A k \in 1 .. scope + 1 : stack'[k] = s[k]
    BY <1>0, <2>2, <2>3, <2>4, <2>5, SubSeqProperties
  <2> QED
    BY <2>6 DEF Whole
<1>5. SamePlace
  BY <1>3, <1>4 DEF SamePlace
<1>6. PushedAlive
  <2>1. DOMAIN stack' = 1 .. scope + 1 /\ DOMAIN stack = 1 .. Len(stack)
    BY <1>0, <1>4, LenProperties
  <2>2. Len(stack) > scope
    BY <1>3, DescribedStack
  <2>3. 1 .. scope + 1 \subseteq DOMAIN stack
    BY <1>0, <2>1, <2>2
  <2> QED
    BY <1>4, <2>1, <2>3 DEF PushedAlive
<1>7. /\ Typed(table') /\ SamePlaces(table, table')
  BY <1>0, <1>1, <1>2, WithTransitionsTable
<1>8. Grown(table, table', {}, {}) /\ Kept(table, table', {})
  BY <1>0, <1>7, SameGrown
<1>9. InfosSound(table')
  BY <1>0, <1>7, <1>8, SoundKept
<1>10. DOMAIN table \subseteq DOMAIN table'
  BY <1>7 DEF SamePlaces
<1>11. Entering(table', {}, events_', ~ errors', PlainText)
  BY <1>2, <1>7, <1>8, <1>9, <1>10 DEF Entering
<1>12. Frame
  <2>1. desc'.type = desc.type
    BY <1>0, <1>2 DEF TypeOK
  <2>2. ~ emitted
    <3>1. emitted => at = "done"
      BY DEF TableInv, EmittedFine
    <3> QED
      BY <3>1
  <2>3. at \notin {"chsm", "done", "undefined"}
    OBVIOUS
  <2>4. budget'.refs = budget.refs
    BY <1>2, BlockRefs
  <2> QED
    BY <1>2, <2>1, <2>2, <2>3, <2>4 DEF Frame
<1>13. Quiet({})
  BY <1>5, <1>11, <1>12 DEF Quiet
<1>14. IdsSound(table', Len(transitions_'))
  <2>1. AddedTransitions(s) \in Seq(Transitions) /\ Len(AddedTransitions(s)) = n
    BY <1>0, TransitionsAdded
  <2>2. Len(transitions_') = Len(transitions_) + n
    <3>1. Len(transitions_ \o AddedTransitions(s)) = Len(transitions_) + Len(AddedTransitions(s))
      BY <1>0, <2>1, ConcatProperties, Zenon
    <3> QED
      BY <1>2, <2>1, <3>1
  <2>3. IdsSound(table, Len(transitions_))
    BY DEF TableInv
  <2> QED
    BY <1>0, <1>2, <2>2, <2>3, IdsAdded
<1> QED
  BY <1>2, <1>3, <1>6, <1>13, <1>14 DEF Adding

\* A whole transition is added, or the machine is hidden.
LEMMA WholeTransitionStep ==
    ASSUME ParserInv, TableInv, at \in {"action", "type"}, NEW action \in BOOLEAN,
           NEW items, transition(items, action), NEW n \in Nat, Targeted(stack \o items, n),
           NEW q, q = stack \o items,
           q[Len(q) - 1].val = NIL \/ (at = "action" /\ q[Len(q) - 1] = stack[Len(stack) - 1])
    PROVE  TransitionStep \/ Stopped
<1> DEFINE id == IF action THEN ids.action + 1 ELSE 0
           s == stack \o items \o <<Num(id)>>
<1>0. TypeOK /\ scope \in Nat
  <2>1. ParserInv /\ at # "undefined"
    OBVIOUS
  <2> QED
    BY <2>1, ScopedOf
<1>1. ids \in [condition : Nat, target : Nat, action : Nat]
  BY <1>0 DEF TypeOK
<1>2. id \in Nat
  BY <1>1
<1>3. Whole(s, n)
  <2> HIDE DEF id
  <2> QED
    BY <1>0, <1>2, WholeAfter
<1>4. TransitionTyped(s)
  <2> HIDE DEF s
  <2> QED
    BY <1>0, <1>3, WholeRead
<1>5. \/ Undefined /\ ~ HasChsm
      \/ TransitionMade(s, action)
  BY <1>4, Zenon DEF transition, TransitionMade
<1>6. s = q \o <<Num(id)>> /\ q \in Seq(Items) /\ Num(id) \in Items
  <2> HIDE DEF id
  <2> QED
    BY <1>2, ItemsTyped DEF Targeted
<1> HIDE DEF s, id
<1>7. s[Len(s) - 2] = q[Len(q) - 1]
  <2>1. Len(s) = Len(q) + 1 /\ \A k \in 1 .. Len(q) : s[k] = q[k]
    BY <1>6, PushedOne
  <2>2. Len(q) = scope + 4 + 2 * n
    BY DEF Targeted
  <2>3. Len(s) - 2 = Len(q) - 1 /\ Len(q) - 1 \in 1 .. Len(q)
    BY <1>0, <2>1, <2>2
  <2> QED
    BY <2>1, <2>3
<1>8. CASE Undefined /\ ~ HasChsm
  BY <1>8 DEF Undefined, Stopped
<1>9. CASE TransitionMade(s, action)
  <2>1. Adding(s, n)
    BY <1>3, <1>7, <1>9, TransitionMadeAdds
  <2> QED
    BY <2>1 DEF TransitionStep
<1> QED
  BY <1>5, <1>8, <1>9

LEMMA TransitionExternalStep ==
    ASSUME ParserInv, TableInv, NEW action \in BOOLEAN, transition_external(action)
    PROVE  TransitionStep \/ Stopped
<1>0. at = "action" /\ transition(<<>>, action)
  BY DEF transition_external
<1>1. CASE written.targets
  <2>1. PICK n \in Nat : Targeted(stack, n)
    BY <1>0, <1>1, ActionTargeted
  <2>2. stack \o <<>> = stack
    BY ScopedOf, <1>0
  <2> QED
    BY <1>0, <2>1, <2>2, WholeTransitionStep
<1>2. CASE ~written.targets
  <2>1. Undefined
    BY <1>0, <1>2, NoTargetTransition
  <2>2. errors
    BY <1>0, <1>2, ScopedOf DEF StackShape
  <2> QED
    BY <1>0, <2>1, <2>2 DEF Undefined, Stopped
<1> QED
  BY <1>1, <1>2

LEMMA TransitionInternalStep ==
    ASSUME ParserInv, TableInv, transition_internal
    PROVE  TransitionStep \/ Stopped
<1> DEFINE q == stack \o <<Ptr(NIL), Num(0)>>
<1>0. at = "type" /\ transition(<<Ptr(NIL), Num(0)>>, TRUE)
  BY DEF transition_internal
<1>1. PICK n \in Nat : Targeted(q, n)
  BY <1>0, InternalTargeted
<1>2. q[Len(q) - 1].val = NIL
  <2>1. /\ Ptr(NIL) \in Items /\ Num(0) \in Items /\ stack \in Seq(Items) /\ Len(stack) \in Nat
        /\ Ptr(NIL).val = NIL
    BY <1>0, ItemsTyped, ScopedOf DEF Ptr, Num
  <2>2. /\ q \in Seq(Items) /\ Len(q) = Len(stack) + 2 /\ q[Len(stack) + 1] = Ptr(NIL)
    BY <2>1, PushedTwo
  <2> HIDE DEF q
  <2>3. Len(q) - 1 = Len(stack) + 1
    BY <2>1, <2>2
  <2> QED
    BY <2>1, <2>2, <2>3
<1>3. q = stack \o <<Ptr(NIL), Num(0)>>
  OBVIOUS
<1> HIDE DEF q
<1> DEFINE a == TRUE
<1>4. a \in BOOLEAN /\ transition(<<Ptr(NIL), Num(0)>>, a)
  BY <1>0
<1> HIDE DEF a
<1> QED
  BY <1>0, <1>1, <1>2, <1>3, <1>4, WholeTransitionStep

-----------------------------------------------------------------------------
(* What the steps that list no state keep. *)

LEMMA QuietPlaces ==
    ASSUME ParserInv, Frame, SamePlace
    PROVE  /\ InDescribed' <=> InDescribed
           /\ Inside' <=> Inside
           /\ at' = "children" <=> at = "children"
           /\ at' \notin {"chsm", "undefined"}
           /\ OpenParents' = OpenParents
           /\ InDescribed => Current' = Current
           /\ at = "children" => Header' = Header
<1>0. /\ scope' = scope /\ sy_parent' = sy_parent /\ at \notin {"chsm", "done", "undefined"}
      /\ scope \in Nat
  BY ScopedOf DEF Frame
<1>1. CASE at' = at /\ stack' = stack
  BY <1>0, <1>1 DEF InDescribed, Inside, OpenParents, Current, Header
<1>2. CASE InDescribed /\ InDescribed' /\ \A k \in 1 .. scope + 1 : stack'[k] = stack[k]
  <2>1. /\ Inside /\ Inside' /\ at # "children" /\ at' # "children"
        /\ at' \notin {"chsm", "undefined"}
    BY <1>2 DEF InDescribed, Inside
  <2>2. Current' = Current
    <3>1. scope + 1 \in 1 .. scope + 1
      BY <1>0
    <3> QED
      BY <1>0, <1>2, <3>1 DEF Current
  <2>3. OpenParents' = OpenParents
    <3> DEFINE f(k) == IF k < scope THEN stack[k + 1].val ELSE sy_parent
               g(k) == IF k < scope THEN stack'[k + 1].val ELSE sy_parent
    <3>1. \A k \in 1 .. scope : k < scope => k + 1 \in 1 .. scope + 1
      BY <1>0
    <3>2. \A k \in 1 .. scope : f(k) = g(k)
      BY <1>2, <3>1
    <3>3. OpenParents = [k \in 1 .. scope |-> f(k)]
      BY DEF OpenParents
    <3>4. OpenParents' = [k \in 1 .. scope |-> g(k)]
      BY <1>0 DEF OpenParents
    <3> QED
      BY <3>2, <3>3, <3>4
  <2> QED
    BY <1>2, <2>1, <2>2, <2>3
<1>3. CASE at = "end" /\ at' = "done" /\ stack' = stack
  BY <1>0, <1>3 DEF InDescribed, Inside, OpenParents, Current, Header
<1> QED
  BY <1>1, <1>2, <1>3 DEF SamePlace

LEMMA QuietTable ==
    ASSUME ParserInv, TableInv, NEW A, Quiet(A), IdsSound(table', Len(transitions_'))
    PROVE  TableInv'
<1>0. /\ Frame /\ SamePlace /\ Entering(table', A, events_', ~ errors', PlainText)
      /\ InDescribed => \A e \in A : e[2].type # "CHILD"
  BY DEF Quiet
<1>1. /\ InDescribed' <=> InDescribed
      /\ Inside' <=> Inside
      /\ at' = "children" <=> at = "children"
      /\ at' \notin {"chsm", "undefined"}
      /\ OpenParents' = OpenParents
      /\ InDescribed => Current' = Current
      /\ at = "children" => Header' = Header
  BY <1>0, QuietPlaces
<1>2. scope' = scope /\ sy_parent' = sy_parent /\ (errors => errors')
      /\ (emitted' => at' = "done" /\ ~ errors')
  BY <1>0 DEF Frame
<1>3. Lineage'
  BY <1>1, <1>2 DEF TableInv, Lineage
<1>4. Untouched' /\ NoSilentCrash' /\ EmittedFine'
  BY <1>1, <1>2 DEF Untouched, NoSilentCrash, EmittedFine
<1>5. Grown(table, table', A, {}) /\ InfosSound(table')
  BY <1>0 DEF Entering
<1>6. CurrentDefined'
  <2>1. SUFFICES ASSUME ~ errors', InDescribed'
                 PROVE  /\ HasState(table', Current')
                        /\ InfoSet(table', Current') = Own(table', Current')
    BY DEF CurrentDefined
  <2>2. /\ ~ errors /\ InDescribed /\ Current' = Current
        /\ HasState(table, Current) /\ InfoSet(table, Current) = Own(table, Current)
    BY <1>1, <1>2, <2>1 DEF TableInv, CurrentDefined
  <2>3. HasState(table', Current)
    BY <1>5, <2>2, GrownHas
  <2>4. \A x \in InfoSet(table', Current) : x.type # "CHILD"
    BY <1>0, <1>5, <2>2 DEF Grown, Own, Like
  <2> QED
    BY <2>2, <2>3, <2>4 DEF Own
<1> QED
  BY <1>3, <1>4, <1>5, <1>6 DEF TableInv

LEMMA QuietStepTable ==
    ASSUME ParserInv, TableInv, QuietStep
    PROVE  TableInv'
<1>0. PICK A : Quiet(A)
  BY DEF QuietStep
<1>1. /\ IdsKept(table, table') /\ transitions_' = transitions_ /\ IdsSound(table, Len(transitions_))
  BY DEF QuietStep, Steady, TableInv
<1>2. Typed(table) /\ Typed(table')
  BY <1>0, InvFacts DEF Quiet, Entering
<1>3. Len(transitions_) \in Nat
  BY InvFacts, LenProperties DEF TypeOK
<1>4. IdsSound(table', Len(transitions_'))
  BY <1>1, <1>2, <1>3, IdsSoundKept
<1> QED
  BY <1>0, <1>4, QuietTable

LEMMA TransitionStepTable ==
    ASSUME ParserInv, TableInv, TransitionStep
    PROVE  TableInv'
<1>1. PICK s, n : Adding(s, n)
  BY DEF TransitionStep
<1> QED
  BY <1>1, QuietTable DEF Adding

LEMMA StoppedTable ==
    ASSUME ParserInv, TableInv, Stopped
    PROVE  TableInv'
<1>1. ~ InDescribed' /\ ~ Inside' /\ at' = "undefined" /\ ~ emitted'
  BY DEF Stopped, InDescribed, Inside, TableInv, EmittedFine
<1>2. Lineage' /\ Untouched' /\ EmittedFine' /\ CurrentDefined'
  BY <1>1 DEF Lineage, Untouched, EmittedFine, CurrentDefined
<1>3. NoSilentCrash'
  BY DEF Stopped, NoSilentCrash, HasChsm
<1>4. InfosSound(table') /\ IdsSound(table', Len(transitions_'))
  BY DEF Stopped, TableInv
<1> QED
  BY <1>2, <1>3, <1>4 DEF TableInv

-----------------------------------------------------------------------------
(* The steps that list a state, or open or close a scope. *)

\* What a declaration leaves behind: the state is new and listed, or known before.
DeclaredAs(d, name) ==
    /\ d.name = name
    /\ Grows(table, d.table, {}, {name}) /\ InfosSound(d.table) /\ name \in DOMAIN d.table
    /\ \/ InfoSet(d.table, name) = {} /\ d.states = Append(states_, name)
       \/ InfoSet(d.table, name) # {} /\ d.states = states_
    /\ errors => d.errors

LEMMA MarkedGrows ==
    ASSUME Typed(table), NEW id \in Identifiers, NameIn(sy_parent, id) \in Names
    PROVE  /\ Grows(table, MarkedTable(id), {}, {})
           /\ NameIn(sy_parent, id) \in DOMAIN MarkedTable(id)
<1> DEFINE named == Touch(table, <<id>>)
           kid == info(named, <<id>>, 0)
           chg == [kid EXCEPT !.defined = TRUE]
           name == NameIn(sy_parent, id)
           up == Update(named, <<id>>, chg)
<1>1. <<id>> \in Names /\ name \in Names
  BY NilIsNoName
<1>2. Grows(table, named, {}, {}) /\ Typed(named)
  BY <1>1, GrowsTouch DEF Grows
<1> HIDE DEF named, name
<1>3. ASSUME type_of(named, <<id>>, 0) = "CHILD"
      PROVE  Grows(table, up, {}, {})
  <2>1. /\ <<id>> \in DOMAIN named /\ named[<<id>>] # <<>>
        /\ kid = named[<<id>>][1] /\ kid \in AllInfos /\ kid.type = "CHILD"
    BY <1>2, <1>3, FirstInfo
  <2> HIDE DEF kid
  <2>2. kid \in ChildInfos
    BY <2>1, InfoKinds
  <2>3. chg \in AllInfos /\ chg.type = kid.type
    BY <2>2, ChildUpdated, KindsAreInfos
  <2>4. Like(chg, kid) /\ chg.type \notin EVENT
    BY <2>1, <2>3 DEF Like, STATES, EVENT
  <2> HIDE DEF chg
  <2>5. Grows(named, up, {}, {})
    BY <1>2, <2>1, <2>3, <2>4, GrowsUpdate
  <2>6. Grows(table, up, {} \cup {}, {} \cup {})
    BY <1>2, <2>5, GrowsTwice
  <2>7. {} \cup {} = {}
    OBVIOUS
  <2> QED
    BY <2>6, <2>7
<1> HIDE DEF up
<1>4. MarkedTable(id) = Touch(up, name) \/ MarkedTable(id) = Touch(named, name)
  BY DEF MarkedTable, named, name, up, kid, chg
<1>5. ASSUME NEW t, Grows(table, t, {}, {})
      PROVE  Grows(table, Touch(t, name), {}, {}) /\ name \in DOMAIN Touch(t, name)
  <2>1. Grows(t, Touch(t, name), {}, {}) /\ name \in DOMAIN Touch(t, name)
    BY <1>1, <1>5, GrowsTouch DEF Grows
  <2>2. Grows(table, Touch(t, name), {} \cup {}, {} \cup {})
    BY <1>5, <2>1, GrowsTwice
  <2>3. {} \cup {} = {}
    OBVIOUS
  <2> QED
    BY <2>1, <2>2, <2>3
<1>6. CASE type_of(named, <<id>>, 0) = "CHILD"
  BY <1>2, <1>3, <1>4, <1>5, <1>6 DEF name
<1>7. CASE type_of(named, <<id>>, 0) # "CHILD"
  <2>1. MarkedTable(id) = Touch(named, name)
    BY <1>7 DEF MarkedTable, named, name
  <2> QED
    BY <1>2, <1>5, <2>1 DEF name
<1> QED
  BY <1>6, <1>7

LEMMA RealGrows ==
    ASSUME Typed(table), NEW id \in Identifiers, NameIn(sy_parent, id) \in Names
    PROVE  /\ Grows(table, RealTable(id), {}, {NameIn(sy_parent, id)})
           /\ NameIn(sy_parent, id) \in DOMAIN RealTable(id)
<1> DEFINE name == NameIn(sy_parent, id)
           m == MarkedTable(id)
<1>1. Grows(table, m, {}, {}) /\ name \in DOMAIN m /\ Typed(m)
  BY MarkedGrows DEF Grows
<1>2. CASE type_of(m, name, 0) = "GLOBAL"
  <2>1. RealTable(id) = delete_info(m, name)
    BY <1>2 DEF RealTable
  <2> HIDE DEF m, name
  <2>2. Grows(m, delete_info(m, name), {}, {name})
    BY <1>1, <1>2, GrowsDelete
  <2>3. Grows(table, RealTable(id), {} \cup {}, {} \cup {name})
    BY <1>1, <2>1, <2>2, GrowsTwice
  <2>4. {} \cup {} = {} /\ {} \cup {name} = {name}
    OBVIOUS
  <2>5. Grows(table, RealTable(id), {}, {name}) /\ name \in DOMAIN RealTable(id)
    BY <1>1, <2>1, <2>2, <2>3, <2>4 DEF Grows
  <2> QED
    BY <2>5 DEF name
<1>3. CASE type_of(m, name, 0) # "GLOBAL"
  <2>1. RealTable(id) = m
    BY <1>3 DEF RealTable
  <2> HIDE DEF m, name
  <2>2. Grows(m, m, {}, {name})
    <3>1. Grows(m, m, {}, {})
      BY <1>1, GrowsNot
    <3> QED
      BY <3>1 DEF Grows, Grown, Kept
  <2>3. Grows(table, m, {} \cup {}, {} \cup {name})
    BY <1>1, <2>2, GrowsTwice
  <2>4. {} \cup {} = {} /\ {} \cup {name} = {name}
    OBVIOUS
  <2>5. Grows(table, RealTable(id), {}, {name}) /\ name \in DOMAIN RealTable(id)
    BY <1>1, <2>1, <2>3, <2>4
  <2> QED
    BY <2>5 DEF name
<1> QED
  BY <1>2, <1>3

LEMMA Declared ==
    ASSUME Typed(table), InfosSound(table), NEW id \in Identifiers, sy_parent \in StateNames
    PROVE  DeclaredAs(state_declaration(id), NameIn(sy_parent, id))
<1> DEFINE name == NameIn(sy_parent, id)
           r == RealTable(id)
           d == state_declaration(id)
<1>1. name \in Names
  BY NameInStates, StateNamesAre
<1>2. Grows(table, r, {}, {name}) /\ name \in DOMAIN r /\ Typed(r)
  BY <1>1, RealGrows DEF Grows
<1>3. InfosSound(r)
  BY <1>2, SoundKept DEF Grows
<1>4. /\ d.name = name
      /\ (errors => d.errors)
      /\ d.states = IF Fresh(id) THEN Append(states_, name) ELSE states_
      /\ d.table = IF Fresh(id) /\ type_of(r, sy_parent, 0) \in PARENT THEN GrownTable(id) ELSE r
  BY StateDeclarationIs
<1>5. Fresh(id) <=> InfoSet(r, name) = {}
  <2>1. Fresh(id) <=> info(r, name, 0) = NIL
    BY DEF Fresh
  <2> HIDE DEF r, name
  <2> QED
    BY <1>2, <2>1, FirstOfSet
<1>6. ASSUME type_of(r, sy_parent, 0) \in PARENT
      PROVE  /\ Grows(r, GrownTable(id), {}, {})
             /\ \A m : m # sy_parent => InfoSet(GrownTable(id), m) = InfoSet(r, m)
             /\ InfoSet(r, sy_parent) # {}
  <2> DEFINE parent == info(r, sy_parent, 0)
             new == [parent EXCEPT !.children = Append(@, name)]
  <2>1. /\ sy_parent \in DOMAIN r /\ r[sy_parent] # <<>> /\ r[sy_parent][1] = parent
        /\ parent \in AllInfos /\ parent.type \in PARENT
    BY <1>2, <1>6, FirstInfo DEF PARENT
  <2>2. GrownTable(id) = Update(r, sy_parent, new)
    BY DEF GrownTable
  <2> HIDE DEF r, parent, name
  <2>3. parent \in StateInfos /\ parent.children \in Seq(Names)
    BY <2>1, InfoKinds DEF PARENT, STATES, StateInfos
  <2>4. Append(parent.children, name) \in Seq(Names)
    BY <1>1, <2>3, AppendProperties
  <2>5. new \in StateInfos
    BY <2>3, <2>4, StateUpdated
  <2>6. new.type = parent.type /\ new.history = parent.history
    BY <2>3 DEF StateInfos
  <2>7. new \in AllInfos /\ Like(new, parent) /\ new.type \notin EVENT
    BY <2>1, <2>5, <2>6, KindsAreInfos DEF Like, PARENT, EVENT
  <2> HIDE DEF new
  <2>8. sy_parent \in Names
    BY StateNamesAre
  <2>9. Grows(r, GrownTable(id), {}, {})
    BY <1>2, <2>1, <2>2, <2>7, GrowsUpdate
  <2>10. \A m : m # sy_parent => InfoSet(GrownTable(id), m) = InfoSet(r, m)
    BY <1>2, <2>1, <2>2, <2>7, UpdatedInfos
  <2>11. r[sy_parent][1] \in InfoSet(r, sy_parent)
    BY <1>2, <2>1, <2>7, UpdatedInfos
  <2> QED
    BY <2>9, <2>10, <2>11
<1> HIDE DEF r, name, d
<1>7. CASE Fresh(id) /\ type_of(r, sy_parent, 0) \in PARENT
  <2>1. d.table = GrownTable(id) /\ d.states = Append(states_, name)
    BY <1>4, <1>7
  <2>2. Grows(table, d.table, {} \cup {}, {name} \cup {})
    BY <1>2, <1>6, <1>7, <2>1, GrowsTwice
  <2>3. {} \cup {} = {} /\ {name} \cup {} = {name}
    OBVIOUS
  <2>4. Grows(table, d.table, {}, {name})
    BY <2>2, <2>3
  <2>5. InfosSound(d.table)
    BY <2>4, SoundKept DEF Grows
  <2>6. name # sy_parent /\ InfoSet(d.table, name) = {}
    BY <1>5, <1>6, <1>7, <2>1
  <2>7. name \in DOMAIN d.table
    BY <1>2, <1>6, <1>7, <2>1 DEF Grows
  <2>8. DeclaredAs(d, name)
    BY <1>4, <2>1, <2>4, <2>5, <2>6, <2>7 DEF DeclaredAs
  <2> QED
    BY <2>8 DEF d, name
<1>8. CASE ~(Fresh(id) /\ type_of(r, sy_parent, 0) \in PARENT)
  <2>1. d.table = r
    BY <1>4, <1>8
  <2>2. DeclaredAs(d, name)
    BY <1>2, <1>3, <1>4, <1>5, <2>1 DEF DeclaredAs
  <2> QED
    BY <2>2 DEF d, name
<1> QED
  BY <1>7, <1>8

\* What the definition of a state leaves behind.
DefinedAs(t, n, si) ==
    \/ /\ not_exists(t, n, ANY) /\ InfoSet(t, n) = {}
       /\ Grows(t, table', {<<n, si>>}, {}) /\ InfosSound(table')
       /\ InfoSet(table', n) = {si} /\ n \in DOMAIN table'
    \/ ~ not_exists(t, n, ANY) /\ table' = t

LEMMA Defined ==
    ASSUME NEW t, Typed(t), InfosSound(t), NEW n \in StateNames, NEW si \in StateInfos,
           Define(t, n, si)
    PROVE  DefinedAs(t, n, si)
<1>1. CASE not_exists(t, n, ANY)
  <2>1. table' = insert_info(t, n, si)
    BY <1>1 DEF Define
  <2>2. InfoSet(t, n) = {}
    <3>1. type_of(t, n, 0) = "NONE"
      BY <1>1, NoInfo DEF not_exists
    <3> QED
      BY <3>1, FirstOfSet
  <2>3. n \in Names /\ si \in AllInfos /\ si.type \in STATES /\ si.type \notin EVENT
    BY StateNamesAre, KindsAreInfos DEF StateInfos, STATES, EVENT
  <2>4. NameFits(n, si)
    BY <2>3 DEF NameFits, STATES, StateNames
  <2>5. Grows(t, table', {<<n, si>>}, {})
    BY <2>1, <2>3, GrowsInsert
  <2>6. InfosSound(table')
    BY <2>1, <2>2, <2>3, <2>4, SoundInsert DEF Own
  <2>7. InfoSet(table', n) = {si} /\ n \in DOMAIN table'
    <3>1. WithInfo(t, n, si, table')
      BY <2>1, <2>3, InsertedInfos
    <3> QED
      BY <2>2, <3>1 DEF WithInfo
  <2> QED
    BY <1>1, <2>2, <2>5, <2>6, <2>7 DEF DefinedAs
<1>2. CASE ~ not_exists(t, n, ANY)
  BY <1>2 DEF Define, DefinedAs
<1> QED
  BY <1>1, <1>2

\* What all these steps leave alone.
Onward ==
    /\ UNCHANGED <<events_, transitions_, emitted>> /\ ~ emitted
    /\ errors => errors'
    /\ budget'.refs = budget.refs

\* The scopes that are open stay open ...
SameScopes == scope' = scope /\ sy_parent' = sy_parent /\ \A k \in 1 .. scope : stack'[k] = stack[k]

SameHistories ==
    /\ sy_outer_deep_' = sy_outer_deep_
    /\ written'.deep = written.deep /\ written'.history = written.history

\* The history of a parent is written.
WroteHistory(sy, h) ==
    /\ sy_outer_deep_' = Deepen(sy, h)
    /\ written'.history = IF h # "none" THEN written.history \cup {sy} ELSE written.history
    /\ written'.deep = IF h = "deep" THEN written.deep \cup {sy} ELSE written.deep

NewTable == Typed(table') /\ InfosSound(table') /\ IdsKept(table, table')

StateDescribed(name, si) ==
    /\ at = "description" /\ at' = "actions" /\ desc'.type = "STATE"
    /\ Onward /\ SameScopes /\ SameHistories /\ NewTable
    /\ stack' = stack \o <<Ptr(name)>> /\ stack'[scope + 1] = Ptr(name) /\ Len(stack') = scope + 1
    /\ si.type = "STATE"
    /\ DOMAIN table \subseteq DOMAIN table' /\ name \in DOMAIN table'
    /\ ~ errors' =>
          /\ Grown(table, table', {<<name, si>>}, {name}) /\ InfoSet(table', name) = {si}
          /\ states_' = Append(states_, name) /\ ~ HasState(table, name)

LEMMA WroteFields ==
    ASSUME written \in Writings, NEW sy, NEW h, NEW l, Wrote(sy, h, l), sy_outer_deep_' = Deepen(sy, h)
    PROVE  WroteHistory(sy, h)
<1> DEFINE H == IF h # "none" THEN written.history \cup {sy} ELSE written.history
           D == IF h = "deep" THEN written.deep \cup {sy} ELSE written.deep
           b == written.legal /\ l
<1>1. written' = [written EXCEPT !.legal = b, !.history = H, !.deep = D]
  BY DEF Wrote
<1> HIDE DEF H, D, b
<1>2. written'.history = H /\ written'.deep = D
  BY <1>1 DEF Writings
<1> QED
  BY <1>2 DEF H, D, WroteHistory

LEMMA DescribedFields ==
    ASSUME written \in Writings, NEW id, Described(id)
    PROVE  written'.deep = written.deep /\ written'.history = written.history
<1>1. \E S, l : written' = [written EXCEPT !.described = S, !.legal = l]
  BY DEF Described
<1> QED
  BY <1>1 DEF Writings

LEMMA ErrorsOnward ==
    ASSUME TableInv, at # "done", UNCHANGED <<events_, transitions_, emitted>>, errors => errors',
           budget'.refs = budget.refs
    PROVE  Onward
  BY DEF TableInv, EmittedFine, Onward

LEMMA FewerDescriptions ==
    ASSUME TypeOK, Describe
    PROVE  budget'.refs = budget.refs
<1>1. budget \in TextTypes
  BY DEF TypeOK
<1>2. \A x : [budget EXCEPT !.descriptions = x].refs = budget.refs
  BY <1>1 DEF TextTypes
<1> QED
  BY <1>2 DEF Describe

LEMMA StateDescriptionStep ==
    ASSUME ParserInv, TableInv, NEW id \in budget.idents, state_description(id)
    PROVE  id \in Identifiers /\ \E si : StateDescribed(NameIn(sy_parent, id), si)
<1> DEFINE d == state_declaration(id)
           si == state_info("STATE", sy_parent, next_no_, FALSE)
           name == NameIn(sy_parent, id)
<1>0. /\ TypeOK /\ StackShape /\ scope \in Nat /\ stack \in Seq(Items) /\ Len(stack) \in Nat
      /\ at = "description" /\ id \in Identifiers /\ Typed(table) /\ InfosSound(table)
  BY ScopedOf, BudgetTyped, InvFacts DEF state_description, Describe, TypeOK, TableInv
<1>1. /\ Len(stack) = scope /\ scope > 0 /\ sy_parent \in StateNames /\ Inside
  BY <1>0, InBody, LineageNames DEF Inside, TableInv
<1>2. DeclaredAs(d, name)
  BY <1>0, <1>1, Declared
<1>3. /\ Define(d.table, d.name, si) /\ states_' = d.states /\ stack' = stack \o <<Ptr(d.name)>>
      /\ errors' = (d.errors \/ ~not_exists(d.table, d.name, ANY))
      /\ at' = "actions" /\ desc' = [type |-> "STATE", children |-> 0, block |-> FALSE]
      /\ Describe /\ Described(id)
      /\ UNCHANGED <<scope, sy_parent, sy_outer_deep_, events_, transitions_, emitted>>
  BY DEF state_description, Push
<1>4. si \in StateInfos /\ si.type = "STATE"
  <2>1. next_no_ \in Nat /\ sy_parent \in Names /\ "STATE" \in STATES
    BY <1>0, <1>1, StateNamesAre DEF TypeOK, STATES
  <2> QED
    BY <2>1, NewInfos DEF state_info
<1>5. name \in StateNames
  BY <1>0, <1>1, NameInStates
<1> HIDE DEF d, si, name
<1>6. /\ d.name = name /\ Grows(table, d.table, {}, {name}) /\ InfosSound(d.table)
      /\ name \in DOMAIN d.table /\ (errors => d.errors) /\ Typed(d.table)
  BY <1>2 DEF DeclaredAs, Grows
<1>7. DefinedAs(d.table, name, si)
  BY <1>3, <1>4, <1>5, <1>6, Defined
<1>10. /\ NewTable /\ DOMAIN table \subseteq DOMAIN table' /\ name \in DOMAIN table'
       /\ ~ errors' =>
             /\ Grown(table, table', {<<name, si>>}, {name}) /\ InfoSet(table', name) = {si}
             /\ states_' = Append(states_, name) /\ ~ HasState(table, name)
  <2>1. CASE not_exists(d.table, name, ANY)
    <3>1. /\ InfoSet(d.table, name) = {}
          /\ Grows(d.table, table', {<<name, si>>}, {}) /\ InfosSound(table')
          /\ InfoSet(table', name) = {si} /\ name \in DOMAIN table'
      BY <1>7, <2>1 DEF DefinedAs
    <3>2. states_' = Append(states_, name)
      BY <1>2, <1>3, <3>1 DEF DeclaredAs
    <3> DEFINE A == {<<name, si>>}
    <3>3. Grows(d.table, table', A, {})
      BY <3>1
    <3>4. {} \cup A = A /\ {name} \cup {} = {name}
      OBVIOUS
    <3>5. Grows(table, table', {} \cup A, {name} \cup {})
      <4> HIDE DEF A
      <4> QED
        BY <1>6, <3>3, GrowsTwice
    <3>6. Grows(table, table', A, {name})
      BY <3>4, <3>5
    <3>7. ~ HasState(table, name)
      <4>1. HasState(table, name) => HasState(d.table, name)
        BY <1>6, GrownHas DEF Grows
      <4> QED
        BY <3>1, <4>1 DEF HasState, Own
    <3> QED
      BY <3>1, <3>2, <3>6, <3>7 DEF Grows, NewTable
  <2>2. CASE ~not_exists(d.table, name, ANY)
    <3>1. table' = d.table /\ errors'
      BY <1>3, <1>6, <1>7, <2>2 DEF DefinedAs
    <3> QED
      BY <1>6, <3>1 DEF Grows, NewTable
  <2> QED
    BY <2>1, <2>2
<1>11. Onward
  <2>1. errors => errors'
    BY <1>3, <1>6
  <2> QED
    BY <1>0, <1>3, <2>1, ErrorsOnward, FewerDescriptions
<1>12. SameHistories
  BY <1>0, <1>3, DescribedFields DEF SameHistories, TypeOK
<1>13. /\ SameScopes /\ stack' = stack \o <<Ptr(name)>> /\ stack'[scope + 1] = Ptr(name)
       /\ Len(stack') = scope + 1
  <2>1. Ptr(name) \in Items
    BY <1>5, StateNamesAre, ItemsTyped
  <2>2. stack' = stack \o <<Ptr(name)>>
    BY <1>3, <1>6
  <2> QED
    BY <1>0, <1>1, <1>3, <2>1, <2>2, PushedOne DEF SameScopes
<1>14. StateDescribed(name, si)
  BY <1>0, <1>3, <1>4, <1>10, <1>11, <1>12, <1>13 DEF StateDescribed
<1> QED
  BY <1>0, <1>14 DEF name

ParentDescribed(name) ==
    /\ at = "description" /\ at' = "children" /\ desc'.type \in PARENT
    /\ Onward /\ SameScopes /\ SameHistories /\ NewTable
    /\ stack' = stack \o <<Ptr(NIL), Ptr(name)>> /\ stack'[scope + 2] = Ptr(name)
    /\ Grown(table, table', {}, {name}) /\ Kept(table, table', {name})
    /\ DOMAIN table \subseteq DOMAIN table' /\ name \in DOMAIN table'
    /\ states_' = states_ \/ states_' = Append(states_, name)
    /\ InfoSet(table', name) = {} => (~ errors' => ~ errors /\ states_' = Append(states_, name))

LEMMA ParentDescriptionStep ==
    ASSUME ParserInv, TableInv, NEW id \in budget.idents, NEW type \in budget.parents,
           parent_description(id, type)
    PROVE  id \in Identifiers /\ ParentDescribed(NameIn(sy_parent, id))
<1> DEFINE d == state_declaration(id)
           name == NameIn(sy_parent, id)
<1>0. /\ TypeOK /\ StackShape /\ scope \in Nat /\ stack \in Seq(Items) /\ Len(stack) \in Nat
      /\ at = "description" /\ id \in Identifiers /\ Typed(table) /\ InfosSound(table)
      /\ type \in PARENT
  BY ScopedOf, BudgetTyped, InvFacts DEF parent_description, Describe, TypeOK, TableInv
<1>1. /\ Len(stack) = scope /\ scope > 0 /\ sy_parent \in StateNames /\ Inside
  BY <1>0, InBody, LineageNames DEF Inside, TableInv
<1>2. DeclaredAs(d, name)
  BY <1>0, <1>1, Declared
<1>3. /\ table' = d.table /\ states_' = d.states /\ stack' = stack \o <<Ptr(NIL), Ptr(d.name)>>
      /\ errors' = d.errors
      /\ at' = "children" /\ desc' = [type |-> type, children |-> 0, block |-> FALSE]
      /\ Describe /\ Described(id)
      /\ UNCHANGED <<scope, sy_parent, sy_outer_deep_, events_, transitions_, emitted>>
  BY DEF parent_description, Push
<1>4. name \in StateNames
  BY <1>0, <1>1, NameInStates
<1> HIDE DEF d, name
<1>5. /\ d.name = name /\ Grows(table, d.table, {}, {name}) /\ InfosSound(d.table)
      /\ name \in DOMAIN d.table /\ (errors => d.errors) /\ Typed(d.table)
  BY <1>2 DEF DeclaredAs, Grows
<1>6. /\ NewTable /\ DOMAIN table \subseteq DOMAIN table' /\ name \in DOMAIN table'
      /\ Grown(table, table', {}, {name}) /\ Kept(table, table', {name})
  BY <1>3, <1>5 DEF Grows, NewTable
<1>7. /\ states_' = states_ \/ states_' = Append(states_, name)
      /\ InfoSet(table', name) = {} => (~ errors' => ~ errors /\ states_' = Append(states_, name))
  BY <1>2, <1>3 DEF DeclaredAs
<1>8. Onward
  <2>1. errors => errors'
    BY <1>3, <1>5
  <2> QED
    BY <1>0, <1>3, <2>1, ErrorsOnward, FewerDescriptions
<1>9. SameHistories
  BY <1>0, <1>3, DescribedFields DEF SameHistories, TypeOK
<1>10. /\ SameScopes /\ stack' = stack \o <<Ptr(NIL), Ptr(name)>> /\ stack'[scope + 2] = Ptr(name)
  <2>1. Ptr(name) \in Items /\ Ptr(NIL) \in Items
    BY <1>4, StateNamesAre, ItemsTyped
  <2>2. stack' = stack \o <<Ptr(NIL), Ptr(name)>>
    BY <1>3, <1>5
  <2> QED
    BY <1>0, <1>1, <1>3, <2>1, <2>2, PushedTwo DEF SameScopes
<1>11. desc'.type \in PARENT
  BY <1>0, <1>3
<1>12. ParentDescribed(name)
  BY <1>0, <1>3, <1>6, <1>7, <1>8, <1>9, <1>10, <1>11 DEF ParentDescribed
<1> QED
  BY <1>0, <1>12 DEF name

ParentDeclared(h, si) ==
    /\ at = "children" /\ at' = "actions" /\ desc' = desc /\ desc.type \in PARENT
    /\ Onward /\ SameScopes /\ WroteHistory(Header, h) /\ NewTable /\ states_' = states_
    /\ stack' = Append(Dropped(2), Ptr(Header)) /\ stack'[scope + 1] = Ptr(Header)
    /\ Len(stack) = scope + 2
    /\ si.type = desc.type /\ (h # "none" => desc.type = "CLUSTER")
    /\ desc.type = "CLUSTER" => (si.history <=> h # "none" \/ Deepen(Header, h) # NIL)
    /\ Kept(table, table', {}) /\ DOMAIN table \subseteq DOMAIN table'
    /\ ~ errors' =>
          /\ ~ errors /\ InfoSet(table, Header) = {}
          /\ Grown(table, table', {<<Header, si>>}, {}) /\ InfoSet(table', Header) = {si}

LEMMA ParentDeclaredStep ==
    ASSUME ParserInv, TableInv, NEW h \in budget.histories, parent_declared(h)
    PROVE  \E si : ParentDeclared(h, si)
<1> DEFINE sy == stack[scope + 2].val
           si == IF desc.type = "CLUSTER"
                 THEN cluster_info(sy_parent, next_no_, h # "none" \/ Deepen(sy, h) # NIL)
                 ELSE set_info(sy_parent, next_no_)
<1>0. /\ TypeOK /\ StackShape /\ scope \in Nat /\ stack \in Seq(Items) /\ Len(stack) \in Nat
      /\ at = "children" /\ Typed(table) /\ InfosSound(table)
  BY ScopedOf, InvFacts DEF parent_declared, TableInv
<1>1. /\ Len(stack) = scope + 2 /\ scope > 0 /\ NamePtr(stack[scope + 2])
      /\ Peek(0).val = sy /\ sy \in StateNames /\ desc.type \in PARENT
      /\ sy_parent \in Names /\ Header = sy
  <2>1. /\ Len(stack) = scope + 2 /\ scope > 0 /\ NamePtr(stack[scope + 2])
        /\ Peek(0).val = sy /\ desc.type \in PARENT /\ sy_parent \in Names
    BY <1>0 DEF StackShape, Peek, NamePtr, Inside, TypeOK
  <2>2. Header = sy
    BY <1>0 DEF Header
  <2>3. Header \in StateNames
    BY <1>0, LineageNames DEF TableInv
  <2> QED
    BY <2>1, <2>2, <2>3
<1>2. /\ Define(table, sy, si) /\ sy_outer_deep_' = Deepen(sy, h)
      /\ stack' = Append(Dropped(2), Ptr(sy)) /\ Wrote(sy, h, TRUE)
      /\ errors' = (errors \/ ~not_exists(table, sy, ANY))
      /\ at' = "actions" /\ (h # "none" => desc.type = "CLUSTER")
      /\ UNCHANGED <<desc, scope, sy_parent, states_, events_, transitions_, emitted, budget>>
  BY <1>1 DEF parent_declared
<1>3. /\ si \in StateInfos /\ si.type = desc.type
      /\ desc.type = "CLUSTER" => (si.history <=> h # "none" \/ Deepen(sy, h) # NIL)
  <2> DEFINE b == h # "none" \/ Deepen(sy, h) # NIL
  <2>1. next_no_ \in Nat /\ b \in BOOLEAN /\ "CLUSTER" \in STATES /\ "SET" \in STATES
    BY <1>0 DEF TypeOK, STATES
  <2>2. si \in StateInfos
    BY <1>1, <2>1, NewInfos DEF cluster_info, set_info
  <2>3. CASE desc.type = "CLUSTER"
    <3>1. si = state_info("CLUSTER", sy_parent, next_no_, b)
      BY <2>3 DEF cluster_info
    <3> HIDE DEF si, b
    <3>2. si.type = "CLUSTER" /\ si.history = b
      BY <3>1 DEF state_info
    <3> QED
      BY <2>2, <2>3, <3>2 DEF b
  <2>4. CASE desc.type = "SET"
    <3>1. si = state_info("SET", sy_parent, next_no_, FALSE)
      BY <2>4 DEF set_info
    <3> HIDE DEF si, b
    <3>2. si.type = "SET"
      BY <3>1 DEF state_info
    <3> QED
      BY <2>2, <2>4, <3>2
  <2> QED
    BY <1>1, <2>3, <2>4 DEF PARENT
<1> HIDE DEF sy, si
<1>4. DefinedAs(table, sy, si)
  BY <1>0, <1>1, <1>2, <1>3, Defined
<1>5. /\ NewTable /\ Kept(table, table', {}) /\ DOMAIN table \subseteq DOMAIN table'
      /\ ~ errors' =>
            /\ ~ errors /\ InfoSet(table, sy) = {}
            /\ Grown(table, table', {<<sy, si>>}, {}) /\ InfoSet(table', sy) = {si}
  <2>1. CASE not_exists(table, sy, ANY)
    BY <1>2, <1>4, <2>1 DEF DefinedAs, Grows, NewTable
  <2>2. CASE ~not_exists(table, sy, ANY)
    <3>1. table' = table /\ errors'
      BY <1>2, <1>4, <2>2 DEF DefinedAs
    <3>2. Grows(table, table, {}, {})
      BY <1>0, GrowsNot
    <3> QED
      BY <1>0, <3>1, <3>2 DEF Grows, NewTable
  <2> QED
    BY <2>1, <2>2
<1>6. Onward
  BY <1>0, <1>2, ErrorsOnward
<1>7. WroteHistory(sy, h)
  <2> DEFINE l == TRUE
  <2>1. Wrote(sy, h, l)
    BY <1>2
  <2> HIDE DEF l
  <2> QED
    BY <1>0, <1>2, <2>1, WroteFields DEF TypeOK
<1>8. SameScopes /\ stack'[scope + 1] = Ptr(sy)
  <2>1. Dropped(2) \in Seq(Items) /\ Len(Dropped(2)) = scope
        /\ \A k \in 1 .. scope : Dropped(2)[k] = stack[k]
    <3>1. 2 \in 0 .. Len(stack) /\ Len(stack) - 2 = scope
      BY <1>0, <1>1
    <3> QED
      BY <1>0, <3>1, DroppedItems
  <2>2. Ptr(sy) \in Items
    BY <1>1, StateNamesAre, ItemsTyped
  <2> DEFINE r == Dropped(2)
  <2> HIDE DEF r
  <2>3. stack' = r \o <<Ptr(sy)>> /\ r \in Seq(Items) /\ Len(r) = scope
        /\ \A k \in 1 .. scope : r[k] = stack[k]
    BY <1>2, <2>1, <2>2, PushedOne DEF r
  <2> QED
    BY <1>2, <2>2, <2>3, PushedOne DEF SameScopes
<1>9. ParentDeclared(h, si)
  BY <1>0, <1>1, <1>2, <1>3, <1>5, <1>6, <1>7, <1>8 DEF ParentDeclared
<1> QED
  BY <1>9

ChsmDescribed(h, si) ==
    /\ at = "chsm" /\ at' = "actions" /\ desc'.type = "ROOT"
    /\ scope = 0 /\ scope' = 0 /\ sy_parent = NIL /\ sy_parent' = NIL
    /\ Onward /\ WroteHistory(RootName, h) /\ NewTable /\ states_' = states_
    /\ stack' = <<Ptr(RootName)>>
    /\ si.type = "CLUSTER" /\ (si.history <=> h # "none")
    /\ InfoSet(table', RootName) = {si} /\ RootName \in DOMAIN table'
    /\ \A n : \A x \in InfoSet(table', n) :
          (n = RootName /\ x = si) \/ (n = <<Machine>> /\ x = chsm_info)

LEMMA ChsmDescriptionStep ==
    ASSUME ParserInv, TableInv, NEW h \in budget.histories, NEW d \in BOOLEAN, NEW p \in BOOLEAN,
           chsm_description(h, d, p)
    PROVE  \E si : ChsmDescribed(h, si)
<1> DEFINE b == h # "none"
           si == cluster_info(NIL, next_no_, b)
           t == Touch(table, RootName)
           m == <<Machine>>
           r == insert_info(t, m, chsm_info)
<1>0. /\ TypeOK /\ StackShape /\ scope = 0 /\ stack = <<>> /\ sy_parent = NIL /\ at = "chsm"
      /\ Typed(table) /\ InfosSound(table) /\ table = <<>> /\ ~ errors
  <2>1. at = "chsm"
    BY DEF chsm_description
  <2>2. StackShape /\ TypeOK /\ Typed(table)
    BY InvFacts
  <2>3. InfosSound(table) /\ table = <<>> /\ ~ errors
    BY <2>1 DEF TableInv, Untouched
  <2> QED
    BY <2>1, <2>2, <2>3 DEF StackShape
<1>1. /\ at' = "actions" /\ desc' = [desc EXCEPT !.type = "ROOT"]
      /\ table' = insert_info(r, RootName, si)
      /\ sy_outer_deep_' = Deepen(RootName, h) /\ Wrote(RootName, h, p => d)
      /\ stack' = stack \o <<Ptr(RootName)>>
      /\ UNCHANGED <<scope, sy_parent, states_, events_, transitions_, emitted, budget>>
  BY DEF chsm_description, Push
<1>2. RootName \in Names /\ m \in Names /\ RootName \in StateNames /\ m # RootName /\ Len(m) = 1
  BY NilIsNoName, StateNamesAre
<1>3. /\ si \in AllInfos /\ si.type = "CLUSTER" /\ si.history = b
      /\ chsm_info \in AllInfos /\ chsm_info.type = "CHSM"
  <2>1. next_no_ \in Nat /\ b \in BOOLEAN /\ "CLUSTER" \in STATES
    BY <1>0 DEF TypeOK, STATES
  <2>2. si = state_info("CLUSTER", NIL, next_no_, b)
    BY DEF cluster_info
  <2> HIDE DEF si, b
  <2>3. si \in StateInfos /\ chsm_info \in GlobalInfos
    BY <2>1, <2>2, NewInfos
  <2>4. si.type = "CLUSTER" /\ si.history = b
    BY <2>2 DEF state_info
  <2> QED
    BY <2>3, <2>4, KindsAreInfos DEF chsm_info
<1>4. m = <<Machine>>
  OBVIOUS
<1> HIDE DEF si, m, b
<1>5. \A n : InfoSet(t, n) = {}
  <2>1. \A n : InfoSet(t, n) = InfoSet(table, n)
    BY <1>0, <1>2, GrowsTouch
  <2>2. \A n : InfoSet(table, n) = {}
    <3>1. \A n : n \notin DOMAIN table
      BY <1>0
    <3> QED
      BY <1>0, <3>1, InfoSetIs
  <2> QED
    BY <2>1, <2>2
<1>6. Typed(t) /\ InfosSound(t)
  <2>1. Grows(table, t, {}, {})
    BY <1>0, <1>2, GrowsTouch
  <2> QED
    BY <1>0, <2>1, SoundKept DEF Grows
<1>7. WithInfo(t, m, chsm_info, r) /\ InfosSound(r)
  <2>1. NameFits(m, chsm_info)
    BY <1>3, <1>4 DEF NameFits, STATES
  <2>2. Own(t, m) = {}
    BY <1>5 DEF Own
  <2> HIDE DEF t
  <2> QED
    BY <1>2, <1>3, <1>6, <2>1, <2>2, InsertedInfos, SoundInsert
<1> HIDE DEF t, r
<1>8. WithInfo(r, RootName, si, table') /\ InfosSound(table')
  <2>1. Typed(r)
    BY <1>7 DEF WithInfo
  <2>2. InfoSet(r, RootName) = {}
    BY <1>2, <1>5, <1>7 DEF WithInfo
  <2>3. NameFits(RootName, si)
    BY <1>2, <1>3 DEF NameFits, STATES, StateNames
  <2> QED
    BY <1>1, <1>2, <1>3, <1>7, <2>1, <2>2, <2>3, InsertedInfos, SoundInsert DEF Own
<1>9. /\ InfoSet(table', RootName) = {si} /\ RootName \in DOMAIN table' /\ Typed(table')
      /\ \A n : n # RootName => InfoSet(table', n) = InfoSet(r, n)
  <2>1. InfoSet(r, RootName) = {}
    BY <1>2, <1>5, <1>7 DEF WithInfo
  <2> QED
    BY <1>8, <2>1 DEF WithInfo
<1>10. /\ InfoSet(r, m) = {chsm_info}
       /\ \A n : n # m => InfoSet(r, n) = {}
  BY <1>5, <1>7 DEF WithInfo
<1>11. \A n : \A x \in InfoSet(table', n) :
          (n = RootName /\ x = si) \/ (n = m /\ x = chsm_info)
  <2>1. ASSUME NEW n, NEW x \in InfoSet(table', n)
        PROVE  (n = RootName /\ x = si) \/ (n = m /\ x = chsm_info)
    <3>1. CASE n = RootName
      BY <1>9, <2>1, <3>1
    <3>2. CASE n # RootName
      BY <1>9, <1>10, <2>1, <3>2
    <3> QED
      BY <3>1, <3>2
  <2> QED
    BY <2>1
<1>12. NewTable
  <2>1. IdsKept(table, table')
    BY <1>3, <1>11 DEF IdsKept, EVENT
  <2> QED
    BY <1>8, <1>9, <2>1 DEF NewTable
<1>13. Onward
  BY <1>0, <1>1, ErrorsOnward
<1>14. WroteHistory(RootName, h)
  <2> DEFINE l == p => d
  <2>1. Wrote(RootName, h, l)
    BY <1>1
  <2> HIDE DEF l
  <2> QED
    BY <1>0, <1>1, <2>1, WroteFields DEF TypeOK
<1>15. desc'.type = "ROOT"
  BY <1>0, <1>1 DEF TypeOK
<1>16. stack' = <<Ptr(RootName)>>
  BY <1>0, <1>1
<1>17. ChsmDescribed(h, si)
  BY <1>0, <1>1, <1>3, <1>4, <1>9, <1>11, <1>12, <1>13, <1>14, <1>15, <1>16 DEF ChsmDescribed, b
<1> QED
  BY <1>17

\* A body is opened: its parent is the state that was described.
BodyBegun ==
    /\ at = "is" /\ at' = "description"
    /\ Onward /\ SameHistories /\ UNCHANGED <<table, states_>>
    /\ sy_parent' = Current /\ scope' = scope + 1
    /\ stack' \in Seq(Items) /\ Len(stack') = scope + 1
    /\ \A k \in 1 .. scope : stack'[k] = stack[k] /\ OpenParents'[k] = OpenParents[k]
    /\ stack'[scope + 1] = Ptr(sy_parent) /\ OpenParents'[scope + 1] = Current

LEMMA BodyBeginStep ==
    ASSUME ParserInv, TableInv, body_begin
    PROVE  BodyBegun
<1>0. /\ TypeOK /\ StackShape /\ scope \in Nat /\ stack \in Seq(Items) /\ Len(stack) \in Nat
      /\ at = "is"
  BY ScopedOf DEF body_begin
<1>1. Len(stack) = scope + 1 /\ sy_parent' = Current /\ scope' = scope + 1
  <2>1. Len(stack) = scope + 1
    BY <1>0 DEF StackShape
  <2> QED
    BY <1>0, <2>1 DEF body_begin, Peek, Current
<1>2. /\ stack' \in Seq(Items) /\ Len(stack') = scope + 1
      /\ \A k \in 1 .. scope : stack'[k] = stack[k]
      /\ stack'[scope + 1] = Ptr(sy_parent)
  <2>1. Dropped(1) \in Seq(Items) /\ Len(Dropped(1)) = scope
        /\ \A k \in 1 .. scope : Dropped(1)[k] = stack[k]
    BY <1>0, <1>1, DroppedItems
  <2>2. Ptr(sy_parent) \in Items
    BY <1>0, ItemsTyped DEF TypeOK
  <2>3. stack' = Append(Dropped(1), Ptr(sy_parent))
    BY DEF body_begin
  <2> HIDE DEF Dropped
  <2> QED
    BY <2>1, <2>2, <2>3, <1>0, AppendProperties
<1>3. /\ \A k \in 1 .. scope : OpenParents'[k] = OpenParents[k]
      /\ OpenParents'[scope + 1] = Current
  <2>1. ASSUME NEW k \in 1 .. scope
        PROVE  OpenParents'[k] = OpenParents[k]
    <3>1. CASE k < scope
      BY <3>1, <1>0, <1>1, <1>2 DEF OpenParents
    <3>2. CASE k = scope
      BY <3>2, <1>0, <1>1, <1>2 DEF OpenParents, Ptr
    <3> QED
      BY <3>1, <3>2, <1>0
  <2>2. OpenParents'[scope + 1] = Current
    BY <1>0, <1>1 DEF OpenParents
  <2> QED
    BY <2>1, <2>2
<1>4. Onward /\ SameHistories /\ UNCHANGED <<table, states_>> /\ at' = "description"
  <2>1. UNCHANGED <<table, states_, events_, transitions_, emitted, errors, budget, written, sy_outer_deep_>>
    BY DEF body_begin
  <2> QED
    BY <1>0, <2>1, ErrorsOnward DEF SameHistories, body_begin
<1> QED
  BY <1>0, <1>1, <1>2, <1>3, <1>4 DEF BodyBegun

\* A body is closed: what it lies in is the parent again.
BodyEnded ==
    /\ at = "description" /\ at' = (IF scope = 1 THEN "end" ELSE "description")
    /\ Onward /\ UNCHANGED <<states_, written, errors>>
    /\ sy_outer_deep_' = IF sy_parent = sy_outer_deep_ THEN NIL ELSE sy_outer_deep_
    /\ table' = close_scope(table, scope)
    /\ scope > 0 /\ scope' = (IF scope = 1 THEN 1 ELSE scope - 1)
    /\ stack' \in Seq(Items) /\ Len(stack') = scope - 1 /\ Len(stack) = scope
    /\ \A k \in 1 .. scope - 1 : stack'[k] = stack[k]
    /\ scope = 1 => sy_parent' = NIL
    /\ scope # 1 => /\ sy_parent' = OpenParents[scope - 1]
                    /\ \A k \in 1 .. scope - 1 : OpenParents'[k] = OpenParents[k]

LEMMA BodyEndStep ==
    ASSUME ParserInv, TableInv, body_end
    PROVE  BodyEnded
<1>0. /\ TypeOK /\ StackShape /\ scope \in Nat /\ stack \in Seq(Items) /\ Len(stack) \in Nat
      /\ at = "description"
  BY ScopedOf DEF body_end
<1>1. Len(stack) = scope /\ scope > 0 /\ stack[scope].tag = "ptr"
      /\ (stack[scope].val = NIL <=> scope = 1) /\ Peek(0) = stack[scope]
  BY <1>0 DEF StackShape, Inside, Peek
<1>2. /\ stack' \in Seq(Items) /\ Len(stack') = scope - 1
      /\ \A k \in 1 .. scope - 1 : stack'[k] = stack[k]
  BY <1>0, <1>1, DroppedItems DEF body_end
<1>3. /\ at' = IF scope = 1 THEN "end" ELSE "description"
      /\ scope' = IF scope = 1 THEN 1 ELSE scope - 1
      /\ sy_parent' = stack[scope].val
      /\ table' = close_scope(table, scope)
      /\ sy_outer_deep_' = IF sy_parent = sy_outer_deep_ THEN NIL ELSE sy_outer_deep_
      /\ UNCHANGED <<states_, events_, transitions_, emitted, errors, budget, written>>
  BY <1>0, <1>1 DEF body_end
<1>4. ASSUME scope # 1
      PROVE  /\ sy_parent' = OpenParents[scope - 1]
             /\ \A k \in 1 .. scope - 1 : OpenParents'[k] = OpenParents[k]
  <2>1. scope' = scope - 1 /\ scope - 1 \in Nat /\ scope - 1 > 0 /\ scope - 1 < scope
        /\ scope - 1 + 1 = scope
    BY <1>0, <1>1, <1>3, <1>4
  <2>2. sy_parent' = OpenParents[scope - 1]
    BY <1>3, <2>1, <1>0 DEF OpenParents
  <2>3. ASSUME NEW k \in 1 .. scope - 1
        PROVE  OpenParents'[k] = OpenParents[k]
    <3>1. CASE k < scope - 1
      BY <3>1, <1>0, <1>2, <2>1 DEF OpenParents
    <3>2. CASE k = scope - 1
      BY <3>2, <1>0, <1>3, <2>1 DEF OpenParents
    <3> QED
      BY <3>1, <3>2, <1>0
  <2> QED
    BY <2>2, <2>3
<1>5. Onward
  BY <1>0, <1>3, ErrorsOnward
<1> QED
  BY <1>0, <1>1, <1>2, <1>3, <1>4, <1>5 DEF BodyEnded

\* The description of a state ends: it has no body.
StateEnded ==
    /\ at \in {"actions", "transitions"} /\ at' = "description"
    /\ desc.type = "STATE"
    /\ Onward /\ SameScopes /\ SameHistories /\ UNCHANGED <<table, states_>>
    /\ stack' \in Seq(Items) /\ Len(stack') = scope /\ Len(stack) = scope + 1 /\ scope > 0

LEMMA StateEndStep ==
    ASSUME ParserInv, TableInv, spec_end, desc.type = "STATE"
    PROVE  StateEnded
<1>0. /\ TypeOK /\ StackShape /\ scope \in Nat /\ stack \in Seq(Items) /\ Len(stack) \in Nat
      /\ at \in {"actions", "transitions"}
  BY ScopedOf DEF spec_end
<1>1. Len(stack) = scope + 1 /\ scope > 0
  BY <1>0 DEF StackShape, InDescribed
<1>2. /\ stack' \in Seq(Items) /\ Len(stack') = scope
      /\ \A k \in 1 .. scope : stack'[k] = stack[k]
  BY <1>0, <1>1, DroppedItems DEF spec_end
<1>3. /\ at' = "description"
      /\ UNCHANGED <<table, scope, sy_parent, sy_outer_deep_, states_, events_, transitions_, emitted,
                     errors, budget, written>>
  BY DEF spec_end
<1>4. Onward
  BY <1>0, <1>3, ErrorsOnward
<1> QED
  BY <1>0, <1>1, <1>2, <1>3, <1>4 DEF StateEnded, SameScopes, SameHistories

-----------------------------------------------------------------------------
(* What a step of the parser is. *)

Step ==
    \/ QuietStep \/ TransitionStep \/ Stopped
    \/ \E h \in budget.histories : \E si : ChsmDescribed(h, si)
    \/ BodyBegun \/ BodyEnded \/ StateEnded
    \/ \E id \in Identifiers : \E si : StateDescribed(NameIn(sy_parent, id), si)
    \/ \E id \in Identifiers : ParentDescribed(NameIn(sy_parent, id))
    \/ \E h \in budget.histories : \E si : ParentDeclared(h, si)
    \/ UNCHANGED vars

LEMMA NextStep ==
    ASSUME ParserInv, TableInv, [Next]_vars
    PROVE  Step
<1>1. ASSUME NEW h \in budget.histories, NEW d \in BOOLEAN, NEW p \in BOOLEAN,
             chsm_description(h, d, p)
      PROVE  Step
  <2>1. \E si : ChsmDescribed(h, si)
    BY <1>1, ChsmDescriptionStep
  <2> QED
    BY <2>1 DEF Step
<1>2. CASE body_begin
  BY <1>2, BodyBeginStep DEF Step
<1>3. CASE body_end
  BY <1>3, BodyEndStep DEF Step
<1>4. ASSUME NEW i \in budget.idents, state_description(i)
      PROVE  Step
  <2>1. i \in Identifiers /\ \E si : StateDescribed(NameIn(sy_parent, i), si)
    BY <1>4, StateDescriptionStep
  <2> QED
    BY <2>1 DEF Step
<1>5. ASSUME NEW i \in budget.idents, child(i)
      PROVE  Step
  BY <1>5, ChildQuiet DEF Step
<1>6. ASSUME NEW i \in budget.idents, NEW t \in budget.parents, parent_description(i, t)
      PROVE  Step
  <2>1. i \in Identifiers /\ ParentDescribed(NameIn(sy_parent, i))
    BY <1>6, ParentDescriptionStep
  <2> QED
    BY <2>1 DEF Step
<1>7. ASSUME NEW h \in budget.histories, parent_declared(h)
      PROVE  Step
  <2>1. \E si : ParentDeclared(h, si)
    BY <1>7, ParentDeclaredStep
  <2> QED
    BY <2>1 DEF Step
<1>8. ASSUME NEW k \in {"enter", "exit"}, enter_exit_action(k)
      PROVE  Step
  BY <1>8, EnterExitActionQuiet DEF Step
<1>9. CASE spec_end
  BY <1>9, SpecEndQuiet, StateEndStep DEF Step
<1>10. CASE NullChsm
  BY <1>10, NullChsmStopped DEF Step
<1>11. ASSUME NEW e \in budget.events, NEW b \in Bases, NEW p \in {0, 1},
              NEW c \in budget.preconditions, event_description(e, b, p, c)
       PROVE  Step
  BY <1>11, EventDescriptionQuiet DEF Step
<1>12. CASE transition_begin
  BY <1>12, TransitionBeginQuiet DEF Step
<1>13. ASSUME NEW e \in budget.events, NEW c \in BOOLEAN, event_condition_spec(user_event(e), c)
       PROVE  Step
  BY <1>13, UserEventSpecQuiet DEF Step
<1>14. ASSUME NEW k \in {"enter", "exit"}, NEW r \in budget.refs,
              event_condition_spec(enex_event(k, r), FALSE)
       PROVE  Step
  BY <1>14, EnexEventSpecQuiet DEF Step
<1>15. CASE event_error
  BY <1>15, EventErrorQuiet DEF Step
<1>16. ASSUME NEW r \in budget.refs, target_state(r) \/ embedded_state_name(r)
       PROVE  Step
  BY <1>16, TargetStateQuiet, EmbeddedStateNameQuiet DEF Step
<1>17. ASSUME NEW e \in budget.events, embedded_event_name(e)
       PROVE  Step
  BY <1>17, EmbeddedEventNameQuiet DEF Step
<1>18. CASE target_function \/ target_error
  BY <1>18, TargetFunctionQuiet, TargetErrorQuiet DEF Step
<1>19. ASSUME NEW a \in BOOLEAN, transition_external(a)
       PROVE  Step
  BY <1>19, TransitionExternalStep DEF Step
<1>20. CASE transition_internal
  BY <1>20, TransitionInternalStep DEF Step
<1>21. CASE chsm
  BY <1>21, ChsmQuiet DEF Step
<1>22. CASE Finished \/ UNCHANGED vars
  BY <1>22 DEF Finished, Step
<1> QED
  BY <1>1, <1>2, <1>3, <1>4, <1>5, <1>6, <1>7, <1>8, <1>9, <1>10, <1>11, <1>12, <1>13, <1>14,
     <1>15, <1>16, <1>17, <1>18, <1>19, <1>20, <1>21, <1>22 DEF Next

-----------------------------------------------------------------------------
(* The invariant behind NoSilentCrash. *)

LEMMA OnwardTable ==
    ASSUME ParserInv, TableInv, Onward, NewTable, at' \notin {"chsm", "undefined"},
           Lineage', CurrentDefined'
    PROVE  TableInv'
<1>1. transitions_' = transitions_ /\ ~ emitted' /\ IdsSound(table, Len(transitions_))
  BY DEF Onward, TableInv
<1>2. Typed(table) /\ Typed(table') /\ InfosSound(table') /\ IdsKept(table, table')
  BY InvFacts DEF NewTable
<1>3. Len(transitions_) \in Nat
  BY InvFacts, LenProperties DEF TypeOK
<1>4. IdsSound(table', Len(transitions_'))
  BY <1>1, <1>2, <1>3, IdsSoundKept
<1>5. Untouched' /\ NoSilentCrash' /\ EmittedFine'
  BY <1>1 DEF Untouched, NoSilentCrash, EmittedFine
<1> QED
  BY <1>2, <1>4, <1>5 DEF TableInv

LEMMA SameTableNew ==
    ASSUME ParserInv, TableInv, table' = table
    PROVE  NewTable
<1>1. Typed(table) /\ InfosSound(table)
  BY InvFacts DEF TableInv
<1>2. IdsKept(table, table)
  BY <1>1, GrowsNot DEF Grows
<1> QED
  BY <1>1, <1>2 DEF NewTable

LEMMA SameScopesParents ==
    ASSUME scope \in Nat, SameScopes
    PROVE  OpenParents' = OpenParents
<1> DEFINE f(k) == IF k < scope THEN stack[k + 1].val ELSE sy_parent
           g(k) == IF k < scope THEN stack'[k + 1].val ELSE sy_parent
<1>1. \A k \in 1 .. scope : k < scope => k + 1 \in 1 .. scope
  OBVIOUS
<1>2. \A k \in 1 .. scope : f(k) = g(k)
  BY <1>1 DEF SameScopes
<1>3. OpenParents = [k \in 1 .. scope |-> f(k)]
  BY DEF OpenParents
<1>4. OpenParents' = [k \in 1 .. scope |-> g(k)]
  BY DEF OpenParents, SameScopes
<1> QED
  BY <1>2, <1>3, <1>4

LEMMA ChsmDescribedTable ==
    ASSUME ParserInv, TableInv, NEW h, NEW si, ChsmDescribed(h, si)
    PROVE  TableInv'
<1>1. /\ at' = "actions" /\ scope' = 0 /\ Onward /\ NewTable /\ stack' = <<Ptr(RootName)>>
      /\ si.type = "CLUSTER" /\ InfoSet(table', RootName) = {si}
  BY DEF ChsmDescribed
<1>2. Current' = RootName
  BY <1>1 DEF Current, Ptr
<1>3. Lineage'
  BY <1>1, <1>2 DEF Lineage, InDescribed, Inside
<1>4. CurrentDefined'
  BY <1>1, <1>2 DEF CurrentDefined, HasState, Own, STATES
<1> QED
  BY <1>1, <1>3, <1>4, OnwardTable

LEMMA BodyBegunTable ==
    ASSUME ParserInv, TableInv, BodyBegun
    PROVE  TableInv'
<1>1. /\ at = "is" /\ at' = "description" /\ Onward /\ table' = table
      /\ sy_parent' = Current /\ scope' = scope + 1
      /\ \A k \in 1 .. scope : OpenParents'[k] = OpenParents[k]
      /\ OpenParents'[scope + 1] = Current
  BY DEF BodyBegun
<1>2. scope \in Nat /\ Inside /\ InDescribed
  BY <1>1, ScopedOf DEF Inside, InDescribed
<1>3. /\ scope > 0 => OpenParents[1] = RootName /\ OpenParents[scope] = sy_parent
      /\ \A k \in 2 .. scope : \E id \in Identifiers : OpenParents[k] = NameIn(OpenParents[k - 1], id)
      /\ IF scope = 0 THEN Current = RootName
         ELSE \E id \in Identifiers : Current = NameIn(sy_parent, id)
  <2>1. Lineage
    BY DEF TableInv
  <2>2. scope > 0 => OpenParents[scope] = sy_parent
    BY <1>2, <2>1, LineageNames
  <2> QED
    BY <1>2, <2>1, <2>2 DEF Lineage
<1>4. OpenParents'[1] = RootName
  <2>1. CASE scope = 0
    BY <1>1, <1>3, <2>1
  <2>2. CASE scope > 0
    BY <1>1, <1>2, <1>3, <2>2
  <2> QED
    BY <1>2, <2>1, <2>2
<1>5. ASSUME NEW k \in 2 .. scope + 1
      PROVE  \E id \in Identifiers : OpenParents'[k] = NameIn(OpenParents'[k - 1], id)
  <2>1. CASE k <= scope
    <3>1. k \in 2 .. scope /\ k \in 1 .. scope /\ k - 1 \in 1 .. scope
      BY <1>2, <2>1
    <3> QED
      BY <1>1, <1>3, <3>1
  <2>2. CASE k = scope + 1
    <3>1. scope > 0 /\ scope \in 1 .. scope /\ k - 1 = scope
      BY <1>2, <2>2
    <3> QED
      BY <1>1, <1>2, <1>3, <2>2, <3>1
  <2> QED
    BY <1>2, <2>1, <2>2
<1>6. Lineage'
  BY <1>1, <1>4, <1>5 DEF Lineage, InDescribed
<1>7. CurrentDefined'
  BY <1>1 DEF CurrentDefined, InDescribed
<1> QED
  BY <1>1, <1>6, <1>7, OnwardTable, SameTableNew

LEMMA BodyEndedTable ==
    ASSUME ParserInv, TableInv, BodyEnded
    PROVE  TableInv'
<1>1. /\ at = "description" /\ at' = (IF scope = 1 THEN "end" ELSE "description")
      /\ Onward /\ table' = close_scope(table, scope)
      /\ scope > 0 /\ scope' = (IF scope = 1 THEN 1 ELSE scope - 1)
      /\ scope # 1 => \A k \in 1 .. scope - 1 : OpenParents'[k] = OpenParents[k]
  BY DEF BodyEnded
<1>2. scope \in Nat /\ Inside
  BY <1>1, ScopedOf DEF Inside
<1>3. NewTable
  <2>1. Typed(table) /\ InfosSound(table)
    BY InvFacts DEF TableInv
  <2>2. Grown(table, table', {}, {}) /\ IdsKept(table, table') /\ Typed(table')
    BY <1>1, <1>2, <2>1, GrownClose
  <2>3. InfosSound(table')
    BY <2>1, <2>2, SoundKept
  <2> QED
    BY <2>2, <2>3 DEF NewTable
<1>4. ~ InDescribed' /\ at' # "children"
  BY <1>1 DEF InDescribed
<1>5. Lineage'
  <2>1. CASE scope = 1
    BY <1>1, <1>4, <2>1 DEF Lineage, Inside
  <2>2. CASE scope # 1
    <3>1. /\ OpenParents[1] = RootName
          /\ \A k \in 2 .. scope : \E id \in Identifiers : OpenParents[k] = NameIn(OpenParents[k - 1], id)
      BY <1>1, <1>2 DEF TableInv, Lineage
    <3>2. scope' = scope - 1 /\ 1 \in 1 .. scope - 1
      BY <1>1, <1>2, <2>2
    <3>3. \A k \in 2 .. scope - 1 : k \in 1 .. scope - 1 /\ k - 1 \in 1 .. scope - 1 /\ k \in 2 .. scope
      BY <1>2
    <3>4. OpenParents'[1] = RootName
      BY <1>1, <2>2, <3>1, <3>2
    <3>5. \A k \in 2 .. scope - 1 :
             \E id \in Identifiers : OpenParents'[k] = NameIn(OpenParents'[k - 1], id)
      BY <1>1, <2>2, <3>1, <3>3
    <3> QED
      BY <1>4, <3>2, <3>4, <3>5 DEF Lineage
  <2> QED
    BY <2>1, <2>2
<1>6. CurrentDefined'
  BY <1>4 DEF CurrentDefined
<1>7. at' \notin {"chsm", "undefined"}
  BY <1>1
<1> QED
  BY <1>1, <1>3, <1>5, <1>6, <1>7, OnwardTable

LEMMA SameScopesLineage ==
    ASSUME ParserInv, TableInv, SameScopes, Inside
    PROVE  /\ scope \in Nat /\ OpenParents' = OpenParents
           /\ scope > 0 => OpenParents[1] = RootName
           /\ \A k \in 2 .. scope : \E id \in Identifiers : OpenParents[k] = NameIn(OpenParents[k - 1], id)
<1>1. scope \in Nat
  BY ScopedOf DEF Inside
<1> QED
  BY <1>1, SameScopesParents DEF TableInv, Lineage

LEMMA StateEndedTable ==
    ASSUME ParserInv, TableInv, StateEnded
    PROVE  TableInv'
<1>1. at \in {"actions", "transitions"} /\ at' = "description" /\ Onward /\ SameScopes /\ table' = table
  BY DEF StateEnded
<1>2. Lineage'
  BY <1>1, SameScopesLineage DEF Lineage, SameScopes, InDescribed, Inside
<1>3. CurrentDefined'
  BY <1>1 DEF CurrentDefined, InDescribed
<1> QED
  BY <1>1, <1>2, <1>3, OnwardTable, SameTableNew

LEMMA StateDescribedTable ==
    ASSUME ParserInv, TableInv, NEW id \in Identifiers, NEW si, StateDescribed(NameIn(sy_parent, id), si)
    PROVE  TableInv'
<1> DEFINE name == NameIn(sy_parent, id)
<1>1. /\ at = "description" /\ at' = "actions" /\ Onward /\ SameScopes /\ NewTable
      /\ stack'[scope + 1] = Ptr(name) /\ si.type = "STATE"
      /\ ~ errors' => InfoSet(table', name) = {si}
  BY DEF StateDescribed
<1>2. scope > 0
  BY <1>1, ScopedOf DEF StackShape
<1>3. Current' = name /\ scope' = scope /\ sy_parent' = sy_parent
  BY <1>1 DEF Current, SameScopes, Ptr
<1> HIDE DEF name
<1>4. Lineage'
  <2>1. Current' = NameIn(sy_parent, id)
    BY <1>3 DEF name
  <2> QED
    BY <1>1, <1>2, <1>3, <2>1, SameScopesLineage DEF Lineage, InDescribed, Inside
<1>5. CurrentDefined'
  BY <1>1, <1>3 DEF CurrentDefined, HasState, Own, STATES
<1> QED
  BY <1>1, <1>4, <1>5, OnwardTable

LEMMA ParentDescribedTable ==
    ASSUME ParserInv, TableInv, NEW id \in Identifiers, ParentDescribed(NameIn(sy_parent, id))
    PROVE  TableInv'
<1>1. /\ at = "description" /\ at' = "children" /\ Onward /\ SameScopes /\ NewTable
      /\ stack'[scope + 2] = Ptr(NameIn(sy_parent, id))
  BY DEF ParentDescribed
<1>2. Header' = NameIn(sy_parent, id) /\ scope' = scope /\ sy_parent' = sy_parent
  BY <1>1 DEF Header, SameScopes, Ptr
<1>3. Lineage'
  BY <1>1, <1>2, SameScopesLineage DEF Lineage, InDescribed, Inside
<1>4. CurrentDefined'
  BY <1>1 DEF CurrentDefined, InDescribed
<1> QED
  BY <1>1, <1>3, <1>4, OnwardTable

LEMMA ParentDeclaredTable ==
    ASSUME ParserInv, TableInv, NEW h, NEW si, ParentDeclared(h, si)
    PROVE  TableInv'
<1>1. /\ at = "children" /\ at' = "actions" /\ Onward /\ SameScopes /\ NewTable
      /\ stack'[scope + 1] = Ptr(Header) /\ si.type = desc.type /\ desc.type \in PARENT
      /\ ~ errors' => InfoSet(table', Header) = {si}
  BY DEF ParentDeclared
<1>2. scope > 0 /\ \E id \in Identifiers : Header = NameIn(sy_parent, id)
  BY <1>1, ScopedOf DEF StackShape, TableInv, Lineage
<1>3. Current' = Header /\ scope' = scope /\ sy_parent' = sy_parent
  BY <1>1 DEF Current, SameScopes, Ptr
<1>4. Lineage'
  BY <1>1, <1>2, <1>3, SameScopesLineage DEF Lineage, InDescribed, Inside
<1>5. CurrentDefined'
  <2>1. si.type # "CHILD" /\ si.type \in STATES
    BY <1>1 DEF PARENT, STATES
  <2> QED
    BY <1>1, <1>3, <2>1 DEF CurrentDefined, HasState, Own
<1> QED
  BY <1>1, <1>4, <1>5, OnwardTable

LEMMA TableStep ==
    ASSUME ParserInv, TableInv, Step
    PROVE  TableInv'
<1>1. CASE QuietStep \/ TransitionStep \/ Stopped
  BY <1>1, QuietStepTable, TransitionStepTable, StoppedTable
<1>2. ASSUME NEW h \in budget.histories, NEW si, ChsmDescribed(h, si)
      PROVE  TableInv'
  BY <1>2, ChsmDescribedTable
<1>3. CASE BodyBegun \/ BodyEnded \/ StateEnded
  BY <1>3, BodyBegunTable, BodyEndedTable, StateEndedTable
<1>4. ASSUME NEW id \in Identifiers, NEW si, StateDescribed(NameIn(sy_parent, id), si)
      PROVE  TableInv'
  BY <1>4, StateDescribedTable
<1>5. ASSUME NEW id \in Identifiers, ParentDescribed(NameIn(sy_parent, id))
      PROVE  TableInv'
  BY <1>5, ParentDescribedTable
<1>6. ASSUME NEW h \in budget.histories, NEW si, ParentDeclared(h, si)
      PROVE  TableInv'
  BY <1>6, ParentDeclaredTable
<1>7. CASE UNCHANGED vars
  BY <1>7 DEF vars, TableInv, Lineage, Untouched, CurrentDefined, NoSilentCrash, EmittedFine, Inside,
              InDescribed, OpenParents, Current, Header, HasChsm
<1> QED
  BY <1>1, <1>2, <1>3, <1>4, <1>5, <1>6, <1>7 DEF Step

LEMMA TableInit ==
    ASSUME Init
    PROVE  TableInv
<1>1. at = "chsm" /\ table = <<>> /\ ~ errors /\ ~ emitted /\ ~ InDescribed /\ ~ Inside
  BY DEF Init, InDescribed, Inside
<1>2. DOMAIN table = {}
  BY <1>1
<1>3. Lineage /\ CurrentDefined /\ NoSilentCrash /\ EmittedFine
  BY <1>1 DEF Lineage, CurrentDefined, NoSilentCrash, EmittedFine
<1>4. Untouched
  <2>1. written.deep = {} /\ written.history = {}
    BY DEF Init
  <2> QED
    BY <2>1 DEF Init, Untouched
<1>5. InfosSound(table) /\ IdsSound(table, Len(transitions_))
  BY <1>2 DEF InfosSound, IdsSound
<1> QED
  BY <1>3, <1>4, <1>5 DEF TableInv

\* What the table holds is sound, and what its infos name is in it: the second part of the
\* inductive invariant.
THEOREM TableInvariant == Spec => [](ParserInv /\ TableInv)
<1>1. Init => ParserInv /\ TableInv
  BY InitInv, TableInit
<1>2. ParserInv /\ TableInv /\ [Next]_vars => (ParserInv /\ TableInv)'
  BY NextInv, NextStep, TableStep
<1> QED
  BY <1>1, <1>2, PTL DEF Spec

\* The compiler never follows a pointer to nothing, unless an error was reported or nothing was
\* known of the machine.
THEOREM NeverCrashes == Spec => []NoSilentCrash
<1>1. TableInv => NoSilentCrash
  BY DEF TableInv
<1> QED
  BY TableInvariant, <1>1, PTL

-----------------------------------------------------------------------------
(* The lists of states, events and transitions. *)

LEMMA StateInTable ==
    ASSUME NEW t, Typed(t), NEW n
    PROVE  /\ HasState(t, n) => n \in DOMAIN t
           /\ HasEvent(t, n) => n \in DOMAIN t
<1>1. InfoSet(t, n) # {} => n \in DOMAIN t
  BY InfoSetIs
<1> QED
  BY <1>1 DEF HasState, HasEvent, Own

LEMMA ListFacts ==
    ASSUME NEW q \in Seq(Names)
    PROVE  /\ Len(q) \in Nat /\ DOMAIN q = 1 .. Len(q)
           /\ \A n : n \in ToSet(q) <=> \E i \in 1 .. Len(q) : q[i] = n
           /\ q # <<>> => Len(q) \in 1 .. Len(q) /\ Last(q) = q[Len(q)]
<1>1. Len(q) \in Nat /\ DOMAIN q = 1 .. Len(q) /\ (q # <<>> => Len(q) > 0)
  BY LenProperties, EmptySeq
<1> QED
  BY <1>1 DEF ToSet, Last

LEMMA AppendFacts ==
    ASSUME NEW q \in Seq(Names), NEW n \in Names
    PROVE  /\ Append(q, n) \in Seq(Names) /\ Append(q, n) # <<>>
           /\ Len(Append(q, n)) = Len(q) + 1 /\ DOMAIN Append(q, n) = 1 .. Len(q) + 1
           /\ \A i \in 1 .. Len(q) : Append(q, n)[i] = q[i]
           /\ Append(q, n)[Len(q) + 1] = n /\ Last(Append(q, n)) = n
           /\ ToSet(Append(q, n)) = ToSet(q) \cup {n}
<1>1. /\ Append(q, n) \in Seq(Names) /\ Len(Append(q, n)) = Len(q) + 1 /\ Len(q) \in Nat
      /\ \A i \in 1 .. Len(q) : Append(q, n)[i] = q[i]
      /\ Append(q, n)[Len(q) + 1] = n
      /\ DOMAIN Append(q, n) = 1 .. Len(q) + 1
  BY AppendProperties, LenProperties
<1>2. Append(q, n) # <<>>
  BY <1>1
<1>3. ToSet(Append(q, n)) = ToSet(q) \cup {n}
  BY AppendedSet
<1> QED
  BY <1>1, <1>2, <1>3 DEF Last

LEMMA ListsTyped ==
    ASSUME ParserInv
    PROVE  /\ states_ \in Seq(Names) /\ events_ \in Seq(Names) /\ Typed(table)
           /\ transitions_ \in Seq(Transitions)
  BY InvFacts DEF TypeOK

\* What entered the table entered the list of events.
LEMMA EventsKept ==
    ASSUME events_ \in Seq(Names), Typed(table), EventsListed, NEW A, NEW L,
           Typed(table'), Grown(table, table', A, L),
           \A e \in A : e[2].type \in EVENT =>
              /\ Own(table, e[1]) = {} /\ events_' = Append(events_, e[1])
              /\ e[2].base = NIL \/ HasEvent(table, e[2].base),
           events_' = events_ \/ \E n \in Names : events_' = Append(events_, n) /\ HasEvent(table', n)
    PROVE  EventsListed'
<1>1. \A n : HasEvent(table, n) => n \in DOMAIN table /\ n \in ToSet(events_)
  BY StateInTable DEF EventsListed
<1>2. /\ Len(events_) \in Nat /\ DOMAIN events_ = 1 .. Len(events_)
      /\ \A n : n \in ToSet(events_) <=> \E i \in 1 .. Len(events_) : events_[i] = n
  BY ListFacts
<1>3. /\ \A i \in 1 .. Len(events_) : i \in DOMAIN events_' /\ events_'[i] = events_[i]
      /\ ToSet(events_) \subseteq ToSet(events_')
      /\ \/ DOMAIN events_' = 1 .. Len(events_)
         \/ /\ DOMAIN events_' = 1 .. Len(events_) + 1
            /\ HasEvent(table', events_'[Len(events_) + 1])
  <2>1. CASE events_' = events_
    BY <1>2, <2>1
  <2>2. ASSUME NEW n \in Names, events_' = Append(events_, n), HasEvent(table', n)
        PROVE  /\ \A i \in 1 .. Len(events_) : i \in DOMAIN events_' /\ events_'[i] = events_[i]
               /\ ToSet(events_) \subseteq ToSet(events_')
               /\ DOMAIN events_' = 1 .. Len(events_) + 1
               /\ HasEvent(table', events_'[Len(events_) + 1])
    <3> DEFINE q == Append(events_, n)
    <3>1. /\ DOMAIN q = 1 .. Len(events_) + 1
          /\ \A i \in 1 .. Len(events_) : q[i] = events_[i]
          /\ q[Len(events_) + 1] = n
          /\ ToSet(q) = ToSet(events_) \cup {n}
      BY AppendFacts
    <3>2. events_' = q
      BY <2>2
    <3> HIDE DEF q
    <3>3. \A i \in 1 .. Len(events_) : i \in 1 .. Len(events_) + 1
      BY <1>2
    <3>4. HasEvent(table', events_'[Len(events_) + 1])
      BY <2>2, <3>1, <3>2
    <3> QED
      BY <3>1, <3>2, <3>3, <3>4
  <2> QED
    BY <2>1, <2>2
<1>4. ASSUME NEW n \in DOMAIN table', HasEvent(table', n)
      PROVE  n \in ToSet(events_')
  <2>1. HasEvent(table, n) \/ \E e \in A : e[1] = n /\ e[2].type \in EVENT
    BY <1>4, GrownHas
  <2>2. CASE HasEvent(table, n)
    BY <1>1, <1>3, <2>2
  <2>3. ASSUME NEW e \in A, e[1] = n, e[2].type \in EVENT
        PROVE  n \in ToSet(events_')
    <3>1. events_' = Append(events_, n)
      BY <2>3
    <3>2. n \in Names
      BY DEF Typed
    <3> QED
      BY <3>1, <3>2, AppendFacts
  <2> QED
    BY <2>1, <2>2, <2>3
<1>5. ASSUME NEW i \in DOMAIN events_'
      PROVE  HasEvent(table', events_'[i])
  <2>1. \A k \in 1 .. Len(events_) : HasEvent(table', events_[k])
    BY <1>2, GrownHas DEF EventsListed
  <2>2. CASE i \in 1 .. Len(events_)
    BY <1>3, <2>1, <2>2
  <2>3. CASE i \notin 1 .. Len(events_)
    <3>1. i = Len(events_) + 1
      BY <1>2, <1>3, <1>5, <2>3
    <3> QED
      BY <1>2, <1>3, <1>5, <2>3, <3>1
  <2> QED
    BY <2>2, <2>3
<1>6. ASSUME NEW i \in DOMAIN events_', NEW x \in Own(table', events_'[i]), x.type \in EVENT, x.base # NIL
      PROVE  \E j \in 1 .. i - 1 : events_'[j] = x.base
  <2> DEFINE n == events_'[i]
  <2>1. x \in InfoSet(table', n)
    BY <1>6 DEF Own
  <2>2. \/ \E y \in InfoSet(table, n) : Like(x, y)
        \/ \E e \in A : e[1] = n /\ Like(x, e[2])
    BY <2>1 DEF Grown
  <2>3. i \in 1 .. Len(events_) \/ i = Len(events_) + 1
    BY <1>2, <1>3, <1>6
  <2>4. ASSUME NEW y \in InfoSet(table, n), Like(x, y)
        PROVE  \E j \in 1 .. i - 1 : events_'[j] = x.base
    <3>1. y.type \in EVENT /\ y.base = x.base /\ y \in Own(table, n)
      BY <1>6, <2>4 DEF Like, Own, EVENT
    <3>2. HasEvent(table, n)
      BY <3>1 DEF HasEvent
    <3>3. PICK k \in 1 .. Len(events_) : events_[k] = n /\ (i \in 1 .. Len(events_) => k = i)
      <4>1. CASE i \in 1 .. Len(events_)
        BY <1>3, <4>1
      <4>2. CASE i \notin 1 .. Len(events_)
        BY <1>1, <1>2, <3>2, <4>2
      <4> QED
        BY <4>1, <4>2
    <3>4. PICK j \in 1 .. k - 1 : events_[j] = y.base
      BY <1>2, <1>6, <3>1, <3>3 DEF EventsListed
    <3>5. j \in 1 .. i - 1 /\ j \in 1 .. Len(events_)
      BY <1>2, <2>3, <3>3, <3>4
    <3> QED
      BY <1>3, <3>1, <3>4, <3>5
  <2>5. ASSUME NEW e \in A, e[1] = n, Like(x, e[2])
        PROVE  \E j \in 1 .. i - 1 : events_'[j] = x.base
    <3>1. e[2].type \in EVENT /\ e[2].base = x.base
      BY <1>6, <2>5 DEF Like
    <3>2. Own(table, n) = {} /\ HasEvent(table, x.base)
      BY <1>6, <2>5, <3>1
    <3>3. i = Len(events_) + 1
      <4>1. ASSUME i \in 1 .. Len(events_)
            PROVE  FALSE
        <5>1. HasEvent(table, n)
          BY <1>2, <1>3, <4>1 DEF EventsListed
        <5> QED
          BY <3>2, <5>1 DEF HasEvent
      <4> QED
        BY <2>3, <4>1
    <3>4. PICK j \in 1 .. Len(events_) : events_[j] = x.base
      BY <1>1, <1>2, <3>2
    <3>5. j \in 1 .. i - 1
      BY <1>2, <3>3
    <3> QED
      BY <1>3, <3>4, <3>5
  <2> QED
    BY <2>2, <2>4, <2>5
<1> QED
  BY <1>4, <1>5, <1>6 DEF EventsListed

\* What entered the table without events.
LEMMA NoEvents ==
    ASSUME ParserInv, EventsListed, events_' = events_, NewTable, NEW A, NEW L,
           Grown(table, table', A, L), \A e \in A : e[2].type \notin EVENT
    PROVE  EventsListed'
<1>1. events_ \in Seq(Names) /\ Typed(table) /\ Typed(table')
  BY ListsTyped DEF NewTable
<1> QED
  BY <1>1, EventsKept

LEMMA QuietFine ==
    ASSUME ParserInv, NEW A, Quiet(A), Fine'
    PROVE  Fine
<1>1. /\ Frame /\ SamePlace /\ Kept(table, table', {}) /\ Typed(table') /\ Typed(table)
  BY InvFacts DEF Quiet, Entering
<1>2. ~ errors /\ at \notin {"chsm", "undefined"}
  BY <1>1 DEF Fine, Frame
<1>3. ASSUME at = "children"
      PROVE  Infos(table, Header) = <<>>
  <2>1. at' = "children" /\ Header' = Header
    BY <1>1, <1>3, QuietPlaces
  <2>2. Infos(table', Header) = <<>>
    BY <2>1 DEF Fine
  <2>3. InfoSet(table', Header) = {}
    BY <1>1, <2>2, InfoSetIs
  <2>4. InfoSet(table, Header) = {}
    BY <1>1, <2>3 DEF Kept
  <2> QED
    BY <1>1, <2>4, InfoSetIs
<1> QED
  BY <1>2, <1>3 DEF Fine

LEMMA QuietLists ==
    ASSUME ParserInv, NEW A, Quiet(A), StatesListed, EventsListed, ~ errors'
    PROVE  StatesListed' /\ EventsListed'
<1>0. /\ Frame /\ SamePlace /\ Entering(table', A, events_', ~ errors', PlainText)
      /\ Grown(table, table', A, {}) /\ Typed(table') /\ Typed(table) /\ events_ \in Seq(Names)
      /\ \A e \in A : e[2].type \notin STATES
  BY ListsTyped DEF Quiet, Entering
<1>1. /\ InDescribed' <=> InDescribed
      /\ Inside' <=> Inside
      /\ at' = "children" <=> at = "children"
      /\ OpenParents' = OpenParents
      /\ InDescribed => Current' = Current
      /\ at = "children" => Header' = Header
  BY <1>0, QuietPlaces
<1>2. states_' = states_ /\ AllStates' = AllStates /\ scope' = scope
  BY <1>0 DEF Frame, AllStates
<1>3. \A n : HasState(table', n) <=> HasState(table, n)
  BY <1>0, GrownHas
<1>4. \A n \in DOMAIN table' : HasState(table', n) => n \in AllStates
  <2>1. \A n : HasState(table, n) => n \in DOMAIN table
    BY <1>0, StateInTable
  <2> QED
    BY <1>3, <2>1 DEF StatesListed
<1>5. StatesListed'
  <2>1. /\ at' = "children" => states_' # <<>> /\ Header' = Last(states_')
        /\ InDescribed' /\ scope' > 0 => states_' # <<>> /\ Current' = Last(states_')
    BY <1>1, <1>2 DEF StatesListed
  <2>2. Inside' => \A k \in 1 .. scope' :
                      OpenParents'[k] \in AllStates' /\ (k > 1 => OpenParents'[k] # RootName)
    BY <1>1, <1>2 DEF StatesListed
  <2>3. \A n \in AllStates' : HasState(table', n) \/ (at' = "children" /\ n = Header')
    BY <1>1, <1>2, <1>3 DEF StatesListed
  <2>4. /\ \A i, j \in DOMAIN states_' : states_'[i] = states_'[j] => i = j
        /\ \A i \in DOMAIN states_' :
              /\ states_'[i] # RootName
              /\ Above(states_'[i]) \subseteq {RootName} \cup {states_'[j] : j \in 1 .. i - 1}
    BY <1>2 DEF StatesListed
  <2> QED
    BY <1>2, <1>4, <2>1, <2>2, <2>3, <2>4 DEF StatesListed
<1>6. EventsListed'
  <2>1. \A e \in A : e[2].type \in EVENT =>
              /\ Own(table, e[1]) = {} /\ events_' = Append(events_, e[1])
              /\ e[2].base = NIL \/ HasEvent(table, e[2].base)
    BY <1>0 DEF Entering
  <2>2. events_' = events_ \/ \E n \in Names : events_' = Append(events_, n) /\ HasEvent(table', n)
    BY <1>0 DEF Entering
  <2> QED
    BY <1>0, <2>1, <2>2, EventsKept
<1> QED
  BY <1>5, <1>6

\* No state lies in what is described last.
LEMMA CurrentLast ==
    ASSUME ParserInv, StatesListed, InDescribed, scope > 0
    PROVE  Current \in ToSet(states_) /\ Current # RootName /\ \A n \in ToSet(states_) : Current \notin Above(n)
<1>1. /\ Len(states_) \in Nat /\ DOMAIN states_ = 1 .. Len(states_)
      /\ \A n : n \in ToSet(states_) <=> \E i \in 1 .. Len(states_) : states_[i] = n
      /\ states_ # <<>> => Len(states_) \in 1 .. Len(states_) /\ Last(states_) = states_[Len(states_)]
  BY ListsTyped, ListFacts
<1>2. Len(states_) \in 1 .. Len(states_) /\ Current = states_[Len(states_)]
  BY <1>1 DEF StatesListed
<1>3. ASSUME NEW i \in 1 .. Len(states_), Current \in Above(states_[i])
      PROVE  FALSE
  <2>1. /\ Current # RootName
        /\ Above(states_[i]) \subseteq {RootName} \cup {states_[j] : j \in 1 .. i - 1}
    BY <1>1, <1>2 DEF StatesListed
  <2>2. PICK j \in 1 .. i - 1 : Current = states_[j]
    BY <1>3, <2>1
  <2>3. Len(states_) \in Nat
    BY <1>1
  <2>4. j \in 1 .. Len(states_) /\ j # Len(states_)
    BY <2>3
  <2> QED
    BY <1>1, <1>2, <2>2, <2>4 DEF StatesListed
<1>4. Current # RootName
  BY <1>1, <1>2 DEF StatesListed
<1> QED
  BY <1>1, <1>2, <1>3, <1>4

LEMMA AddingOrdered ==
    ASSUME ParserInv, NEW s, NEW n, Adding(s, n), StatesListed, TransitionsOrdered
    PROVE  TransitionsOrdered'
<1> DEFINE a == AddedTransitions(s)
           l == Len(transitions_)
<1>1. /\ scope \in Nat /\ InDescribed /\ scope > 0 /\ Whole(s, n) /\ transitions_' = transitions_ \o a
      /\ states_' = states_ /\ transitions_ \in Seq(Transitions) /\ n \in Nat
  BY ListsTyped, ScopedOf DEF Adding, Quiet, Frame, InDescribed, Whole
<1>2. Current \in ToSet(states_) /\ \A x \in ToSet(states_) : Current \notin Above(x)
  BY <1>1, CurrentLast
<1>3. a \in Seq(Transitions) /\ Len(a) = n /\ \A i \in 1 .. n : a[i].from = Current
  BY <1>1, TransitionsAdded DEF Current
<1> HIDE DEF a
<1>4. /\ l \in Nat /\ DOMAIN transitions_ = 1 .. l /\ DOMAIN transitions_' = 1 .. l + n
      /\ \A i \in 1 .. l : transitions_'[i] = transitions_[i]
      /\ \A i \in 1 .. n : transitions_'[l + i] = a[i]
  <2> DEFINE c == transitions_ \o a
  <2>1. transitions_ \in Seq(Transitions) /\ a \in Seq(Transitions)
    BY <1>1, <1>3
  <2>2. /\ c \in Seq(Transitions) /\ Len(c) = Len(transitions_) + Len(a)
        /\ \A i \in 1 .. Len(transitions_) + Len(a) :
              c[i] = IF i <= Len(transitions_) THEN transitions_[i] ELSE a[i - Len(transitions_)]
    BY <2>1, ConcatProperties, Zenon
  <2>3. transitions_' = c
    BY <1>1
  <2> HIDE DEF c
  <2>4. l \in Nat /\ DOMAIN transitions_ = 1 .. l /\ DOMAIN c = 1 .. Len(c)
    BY <2>1, <2>2, LenProperties
  <2> HIDE DEF l
  <2>5. /\ Len(c) = l + n
        /\ \A i \in 1 .. l + n : c[i] = IF i <= l THEN transitions_[i] ELSE a[i - l]
    BY <1>3, <2>2 DEF l
  <2>6. DOMAIN c = 1 .. l + n
    BY <2>4, <2>5
  <2>7. \A i \in 1 .. l : c[i] = transitions_[i]
    BY <1>1, <2>4, <2>5
  <2>8. \A i \in 1 .. n : c[l + i] = a[i]
    BY <1>1, <2>4, <2>5
  <2> QED
    BY <2>3, <2>4, <2>6, <2>7, <2>8 DEF l
<1>5. \A i \in 1 .. l + n : i \in 1 .. l \/ (i - l \in 1 .. n /\ i = l + (i - l))
  BY <1>1, <1>4
<1>6. \A i \in 1 .. l + n : i \in 1 .. l \/ transitions_'[i].from = Current
  BY <1>3, <1>4, <1>5
<1>7. \A i \in 1 .. l + n : transitions_'[i].from \in ToSet(states_)
  BY <1>2, <1>4, <1>6 DEF TransitionsOrdered
<1>8. ASSUME NEW i \in 1 .. l + n, NEW j \in 1 .. l + n, i < j
      PROVE  transitions_'[j].from \notin Above(transitions_'[i].from)
  <2>1. CASE j \in 1 .. l
    <3>1. i \in 1 .. l
      BY <1>1, <1>4, <1>8, <2>1
    <3> QED
      BY <1>4, <1>8, <2>1, <3>1 DEF TransitionsOrdered
  <2>2. CASE transitions_'[j].from = Current
    BY <1>2, <1>7, <2>2
  <2> QED
    BY <1>6, <2>1, <2>2
<1> QED
  BY <1>1, <1>4, <1>7, <1>8 DEF TransitionsOrdered

\* The steps that list no state.
LEMMA QuietListsInv ==
    ASSUME ParserInv, ListsInv, QuietStep \/ TransitionStep \/ Stopped
    PROVE  ListsInv'
<1> SUFFICES ASSUME Fine'
             PROVE  StatesListed' /\ EventsListed' /\ TransitionsOrdered'
  BY DEF ListsInv
<1>1. CASE QuietStep
  <2>1. PICK A : Quiet(A)
    BY <1>1 DEF QuietStep
  <2>2. Fine /\ ~ errors'
    BY <2>1, QuietFine DEF Fine
  <2>3. StatesListed /\ EventsListed /\ TransitionsOrdered
    BY <2>2 DEF ListsInv
  <2>4. states_' = states_ /\ transitions_' = transitions_
    BY <1>1, <2>1 DEF QuietStep, Steady, Quiet, Frame
  <2>5. TransitionsOrdered'
    BY <2>3, <2>4 DEF TransitionsOrdered
  <2> QED
    BY <2>1, <2>2, <2>3, <2>5, QuietLists
<1>2. CASE TransitionStep
  <2>1. PICK s, n : Adding(s, n)
    BY <1>2 DEF TransitionStep
  <2>2. PICK A : Quiet(A)
    BY <2>1 DEF Adding
  <2>3. Fine /\ ~ errors'
    BY <2>2, QuietFine DEF Fine
  <2>4. StatesListed /\ EventsListed /\ TransitionsOrdered
    BY <2>3 DEF ListsInv
  <2> QED
    BY <2>1, <2>2, <2>3, <2>4, QuietLists, AddingOrdered
<1>3. CASE Stopped
  BY <1>3 DEF Stopped, Fine
<1> QED
  BY <1>1, <1>2, <1>3

LEMMA OnwardOrdered ==
    ASSUME ParserInv, Onward, TransitionsOrdered, NEW n \in Names,
           states_' = states_ \/ states_' = Append(states_, n)
    PROVE  TransitionsOrdered'
<1>1. states_ \in Seq(Names) /\ transitions_' = transitions_
  BY ListsTyped DEF Onward
<1>2. ToSet(states_) \subseteq ToSet(states_')
  BY <1>1, AppendFacts
<1> QED
  BY <1>1, <1>2 DEF TransitionsOrdered

LEMMA ChsmDescribedLists ==
    ASSUME ParserInv, TableInv, NEW h, NEW si, ChsmDescribed(h, si)
    PROVE  StatesListed' /\ EventsListed' /\ TransitionsOrdered'
<1>1. /\ at = "chsm" /\ at' = "actions" /\ scope' = 0 /\ Onward /\ states_' = states_
      /\ si.type = "CLUSTER" /\ InfoSet(table', RootName) = {si}
      /\ \A n : \A x \in InfoSet(table', n) :
            (n = RootName /\ x = si) \/ (n = <<Machine>> /\ x = chsm_info)
  BY DEF ChsmDescribed
<1>2. states_' = <<>> /\ events_' = <<>> /\ transitions_' = <<>>
  BY <1>1 DEF TableInv, Untouched, Onward
<1>3. chsm_info.type = "CHSM"
  BY DEF chsm_info
<1>4. \A n : HasState(table', n) <=> n = RootName
  <2>1. HasState(table', RootName)
    BY <1>1 DEF HasState, Own, STATES
  <2>2. \A n : HasState(table', n) => n = RootName
    BY <1>1, <1>3 DEF HasState, Own, STATES
  <2> QED
    BY <2>1, <2>2
<1>5. \A n : ~ HasEvent(table', n)
  BY <1>1, <1>3 DEF HasEvent, Own, EVENT
<1>6. AllStates' = {RootName}
  <2>1. ToSet(states_') = {}
    BY <1>2 DEF ToSet
  <2> QED
    BY <2>1 DEF AllStates
<1>7. StatesListed'
  BY <1>1, <1>2, <1>4, <1>6 DEF StatesListed
<1>8. EventsListed'
  BY <1>2, <1>5 DEF EventsListed
<1>9. TransitionsOrdered'
  BY <1>2 DEF TransitionsOrdered
<1> QED
  BY <1>7, <1>8, <1>9

\* The parents that are open are listed.
LEMMA ParentListed ==
    ASSUME ParserInv, TableInv, StatesListed, Inside, scope > 0
    PROVE  /\ sy_parent \in AllStates /\ sy_parent \in StateNames
           /\ Above(sy_parent) \subseteq AllStates
<1>1. sy_parent \in AllStates /\ sy_parent \in StateNames
  <2>1. scope \in Nat /\ scope \in 1 .. scope
    BY ScopedOf DEF Inside
  <2>2. OpenParents[scope] = sy_parent /\ sy_parent \in StateNames
    BY LineageNames DEF TableInv
  <2> QED
    BY <2>1, <2>2 DEF StatesListed
<1>2. CASE sy_parent = RootName
  BY <1>1, <1>2, AboveRoot DEF AllStates
<1>3. CASE sy_parent \in ToSet(states_)
  <2>1. /\ Len(states_) \in Nat /\ DOMAIN states_ = 1 .. Len(states_)
        /\ \A n : n \in ToSet(states_) <=> \E i \in 1 .. Len(states_) : states_[i] = n
    BY ListsTyped, ListFacts
  <2>2. PICK i \in 1 .. Len(states_) : states_[i] = sy_parent
    BY <1>3, <2>1
  <2>3. Above(sy_parent) \subseteq {RootName} \cup {states_[j] : j \in 1 .. i - 1}
    BY <2>1, <2>2 DEF StatesListed
  <2>4. \A j \in 1 .. i - 1 : j \in 1 .. Len(states_)
    BY <2>1
  <2> QED
    BY <1>1, <2>1, <2>3, <2>4 DEF AllStates
<1> QED
  BY <1>1, <1>2, <1>3 DEF AllStates

LEMMA BodyBegunLists ==
    ASSUME ParserInv, TableInv, BodyBegun, StatesListed
    PROVE  StatesListed'
<1>1. /\ at = "is" /\ at' = "description" /\ table' = table /\ states_' = states_
      /\ scope' = scope + 1
      /\ \A k \in 1 .. scope : OpenParents'[k] = OpenParents[k]
      /\ OpenParents'[scope + 1] = Current
  BY DEF BodyBegun
<1>2. scope \in Nat /\ Inside /\ InDescribed
  BY <1>1, ScopedOf DEF Inside, InDescribed
<1>3. Current \in AllStates /\ (scope > 0 => Current # RootName)
  <2>1. CASE scope = 0
    BY <1>2, <2>1 DEF TableInv, Lineage, AllStates
  <2>2. CASE scope > 0
    BY <1>2, <2>2, CurrentLast DEF AllStates
  <2> QED
    BY <1>2, <2>1, <2>2
<1>4. \A k \in 1 .. scope + 1 :
          OpenParents'[k] \in AllStates /\ (k > 1 => OpenParents'[k] # RootName)
  <2>1. \A k \in 1 .. scope + 1 : k \in 1 .. scope \/ (k = scope + 1 /\ (k > 1 => scope > 0))
    BY <1>2
  <2>2. \A k \in 1 .. scope : OpenParents[k] \in AllStates /\ (k > 1 => OpenParents[k] # RootName)
    BY <1>2 DEF StatesListed
  <2> QED
    BY <1>1, <1>3, <2>1, <2>2
<1>5. AllStates' = AllStates /\ ~ InDescribed'
  BY <1>1 DEF AllStates, InDescribed
<1>6. at # "children"
  BY <1>1
<1> QED
  BY <1>1, <1>4, <1>5, <1>6 DEF StatesListed

LEMMA BodyEndedLists ==
    ASSUME ParserInv, TableInv, BodyEnded, StatesListed
    PROVE  StatesListed'
<1>1. /\ at = "description" /\ at' = (IF scope = 1 THEN "end" ELSE "description")
      /\ table' = close_scope(table, scope) /\ states_' = states_
      /\ scope > 0 /\ scope' = (IF scope = 1 THEN 1 ELSE scope - 1)
      /\ scope # 1 => \A k \in 1 .. scope - 1 : OpenParents'[k] = OpenParents[k]
  BY DEF BodyEnded
<1>2. scope \in Nat /\ Inside /\ Typed(table)
  BY <1>1, ScopedOf DEF Inside, Scoped
<1>3. Grown(table, table', {}, {}) /\ Typed(table')
  BY <1>1, <1>2, GrownClose
<1>4. \A n : HasState(table', n) <=> HasState(table, n)
  BY <1>3, GrownHas
<1>5. \A n : HasState(table, n) => n \in DOMAIN table
  BY <1>2, StateInTable
<1>6. Inside' => \A k \in 1 .. scope' :
                    OpenParents'[k] \in AllStates /\ (k > 1 => OpenParents'[k] # RootName)
  <2>1. Inside' => scope # 1 /\ scope' = scope - 1
    BY <1>1 DEF Inside
  <2>2. \A k \in 1 .. scope - 1 : k \in 1 .. scope
    BY <1>2
  <2>3. \A k \in 1 .. scope : OpenParents[k] \in AllStates /\ (k > 1 => OpenParents[k] # RootName)
    BY <1>2 DEF StatesListed
  <2> QED
    BY <1>1, <2>1, <2>2, <2>3
<1>7. AllStates' = AllStates /\ ~ InDescribed' /\ at' # "children" /\ at # "children"
  BY <1>1 DEF AllStates, InDescribed
<1>8. \A n \in AllStates : HasState(table', n)
  BY <1>4, <1>7 DEF StatesListed
<1>9. \A n \in DOMAIN table' : HasState(table', n) => n \in AllStates
  BY <1>4, <1>5 DEF StatesListed
<1>10. /\ \A i, j \in DOMAIN states_ : states_[i] = states_[j] => i = j
       /\ \A i \in DOMAIN states_ :
             /\ states_[i] # RootName
             /\ Above(states_[i]) \subseteq {RootName} \cup {states_[j] : j \in 1 .. i - 1}
  BY DEF StatesListed
<1> HIDE DEF StatesListed
<1> QED
  BY <1>1, <1>6, <1>7, <1>8, <1>9, <1>10 DEF StatesListed

LEMMA StateEndedLists ==
    ASSUME ParserInv, TableInv, StateEnded, StatesListed
    PROVE  StatesListed'
<1>1. /\ at \in {"actions", "transitions"} /\ at' = "description" /\ SameScopes
      /\ table' = table /\ states_' = states_ /\ Inside
  BY DEF StateEnded, Inside
<1>2. OpenParents' = OpenParents /\ scope' = scope
  BY <1>1, SameScopesLineage DEF SameScopes
<1>3. AllStates' = AllStates /\ ~ InDescribed' /\ at' # "children" /\ at # "children"
  BY <1>1 DEF AllStates, InDescribed
<1> QED
  BY <1>1, <1>2, <1>3 DEF StatesListed

\* A state is listed.
LEMMA NewState ==
    ASSUME ParserInv, TableInv, StatesListed, at = "description", SameScopes, NewTable,
           NEW id \in Identifiers, NEW name, name = NameIn(sy_parent, id),
           states_' = Append(states_, name), ~ HasState(table, name), NEW A,
           Grown(table, table', A, {name}), \A e \in A : e[1] = name,
           \/ at' = "actions" /\ stack'[scope + 1] = Ptr(name) /\ HasState(table', name)
           \/ at' = "children" /\ stack'[scope + 2] = Ptr(name)
    PROVE  StatesListed'
<1>1. /\ Inside /\ scope > 0 /\ scope \in Nat /\ states_ \in Seq(Names) /\ Typed(table) /\ Typed(table')
  BY ScopedOf, ListsTyped DEF Inside, StackShape, NewTable
<1>2. /\ sy_parent \in AllStates /\ sy_parent \in StateNames
      /\ Above(sy_parent) \subseteq AllStates
  BY <1>1, ParentListed
<1>3. name \in StateNames /\ name \in Names /\ Above(name) \subseteq AllStates
  BY <1>2, NameInStates, StateNamesAre
<1> DEFINE l == Len(states_)
<1>4. /\ l \in Nat /\ DOMAIN states_ = 1 .. l
      /\ \A n : n \in ToSet(states_) <=> \E i \in 1 .. l : states_[i] = n
  BY <1>1, ListFacts
<1>5. /\ DOMAIN states_' = 1 .. l + 1 /\ states_' # <<>>
      /\ \A i \in 1 .. l : states_'[i] = states_[i]
      /\ states_'[l + 1] = name /\ Last(states_') = name
      /\ ToSet(states_') = ToSet(states_) \cup {name}
  <2> DEFINE q == Append(states_, name)
  <2>1. /\ DOMAIN q = 1 .. l + 1 /\ q # <<>>
        /\ \A i \in 1 .. l : q[i] = states_[i]
        /\ q[l + 1] = name /\ Last(q) = name
        /\ ToSet(q) = ToSet(states_) \cup {name}
    BY <1>1, <1>3, AppendFacts
  <2> HIDE DEF q
  <2>2. states_' = q
    BY DEF q
  <2> QED
    BY <2>1, <2>2
<1> HIDE DEF l
<1>6. \A n \in AllStates : HasState(table, n)
  BY DEF StatesListed
<1>7. name \notin AllStates
  BY <1>6
<1>8. AllStates' = AllStates \cup {name} /\ AllStates = {RootName} \cup ToSet(states_)
  BY <1>5 DEF AllStates
<1>9. \A i \in 1 .. l + 1 : i \in 1 .. l \/ i = l + 1
  BY <1>4
<1>10. \A i, j \in DOMAIN states_' : states_'[i] = states_'[j] => i = j
  <2>1. \A i \in 1 .. l : states_[i] # name
    BY <1>4, <1>7, <1>8
  <2>2. \A i, j \in 1 .. l : states_[i] = states_[j] => i = j
    BY <1>4 DEF StatesListed
  <2>3. ASSUME NEW i \in 1 .. l + 1, NEW j \in 1 .. l + 1, states_'[i] = states_'[j]
        PROVE  i = j
    <3>1. CASE i \in 1 .. l /\ j \in 1 .. l
      BY <1>5, <2>2, <2>3, <3>1
    <3>2. CASE i \in 1 .. l /\ j = l + 1
      BY <1>5, <2>1, <2>3, <3>2
    <3>3. CASE i = l + 1 /\ j \in 1 .. l
      BY <1>5, <2>1, <2>3, <3>3
    <3> QED
      BY <1>9, <3>1, <3>2, <3>3
  <2> QED
    BY <1>5, <2>3
<1>11. ASSUME NEW i \in DOMAIN states_'
       PROVE  /\ states_'[i] # RootName
              /\ Above(states_'[i]) \subseteq {RootName} \cup {states_'[j] : j \in 1 .. i - 1}
  <2>1. CASE i \in 1 .. l
    <3>1. /\ states_[i] # RootName
          /\ Above(states_[i]) \subseteq {RootName} \cup {states_[j] : j \in 1 .. i - 1}
      BY <1>4, <2>1 DEF StatesListed
    <3>2. \A j \in 1 .. i - 1 : j \in 1 .. l
      BY <1>4, <2>1
    <3>3. \A j \in 1 .. i - 1 : states_'[j] = states_[j]
      BY <1>5, <3>2
    <3>4. {states_'[j] : j \in 1 .. i - 1} = {states_[j] : j \in 1 .. i - 1}
      BY <3>3
    <3>5. states_'[i] = states_[i]
      BY <1>5, <2>1
    <3> QED
      BY <3>1, <3>4, <3>5
  <2>2. CASE i = l + 1
    <3>1. states_'[i] = name /\ name # RootName
      BY <1>5, <1>7, <1>8, <2>2
    <3>2. \A n \in ToSet(states_) : \E j \in 1 .. i - 1 : states_'[j] = n
      <4>1. i - 1 = l
        BY <1>4, <2>2
      <4> QED
        BY <1>4, <1>5, <4>1
    <3> QED
      BY <1>3, <1>8, <3>1, <3>2
  <2> QED
    BY <1>5, <1>9, <2>1, <2>2
<1>12. /\ at' = "children" => states_' # <<>> /\ Header' = Last(states_')
       /\ InDescribed' /\ scope' > 0 => states_' # <<>> /\ Current' = Last(states_')
  BY <1>5 DEF Header, Current, SameScopes, Ptr, InDescribed
<1>13. Inside' => \A k \in 1 .. scope' :
                     OpenParents'[k] \in AllStates' /\ (k > 1 => OpenParents'[k] # RootName)
  <2>1. OpenParents' = OpenParents /\ scope' = scope
    BY <1>1, SameScopesLineage DEF SameScopes
  <2> QED
    BY <1>1, <1>8, <2>1 DEF StatesListed
<1>14. \A n \in AllStates' : HasState(table', n) \/ (at' = "children" /\ n = Header')
  <2>1. \A n \in AllStates : HasState(table', n)
    BY <1>6, GrownHas
  <2>2. HasState(table', name) \/ (at' = "children" /\ name = Header')
    BY DEF Header, SameScopes, Ptr
  <2> QED
    BY <1>8, <2>1, <2>2
<1>15. \A n \in DOMAIN table' : HasState(table', n) => n \in AllStates'
  <2>1. \A n : HasState(table', n) => HasState(table, n) \/ n = name
    BY GrownHas
  <2>2. \A n : HasState(table, n) => n \in AllStates
    BY <1>1, StateInTable DEF StatesListed
  <2> QED
    BY <1>8, <2>1, <2>2
<1> QED
  BY <1>10, <1>11, <1>12, <1>13, <1>14, <1>15 DEF StatesListed

LEMMA StateDescribedLists ==
    ASSUME ParserInv, TableInv, NEW id \in Identifiers, NEW si,
           StateDescribed(NameIn(sy_parent, id), si), ~ errors', Fine => StatesListed /\ EventsListed
    PROVE  StatesListed' /\ EventsListed'
<1> DEFINE name == NameIn(sy_parent, id)
           A == {<<name, si>>}
<1>1. /\ at = "description" /\ at' = "actions" /\ Onward /\ SameScopes /\ NewTable
      /\ stack'[scope + 1] = Ptr(name) /\ si.type = "STATE"
      /\ Grown(table, table', A, {name}) /\ InfoSet(table', name) = {si}
      /\ states_' = Append(states_, name) /\ ~ HasState(table, name)
  BY DEF StateDescribed
<1>2. StatesListed /\ EventsListed
  <2>1. ~ errors
    BY <1>1 DEF Onward
  <2> QED
    BY <1>1, <2>1 DEF Fine
<1>3. HasState(table', name)
  BY <1>1 DEF HasState, Own, STATES
<1>4. \A e \in A : e[1] = name /\ e[2].type \notin EVENT
  BY <1>1 DEF EVENT
<1>5. name = NameIn(sy_parent, id) /\ events_' = events_
  BY <1>1 DEF Onward
<1> HIDE DEF name, A
<1>6. StatesListed'
  BY <1>1, <1>2, <1>3, <1>4, <1>5, NewState
<1>7. EventsListed'
  BY <1>1, <1>2, <1>4, <1>5, NoEvents
<1> QED
  BY <1>6, <1>7

LEMMA ParentDescribedLists ==
    ASSUME ParserInv, TableInv, NEW id \in Identifiers, ParentDescribed(NameIn(sy_parent, id)), Fine',
           Fine => StatesListed /\ EventsListed
    PROVE  StatesListed' /\ EventsListed' /\ Fine
<1> DEFINE name == NameIn(sy_parent, id)
<1>1. /\ at = "description" /\ at' = "children" /\ Onward /\ SameScopes /\ NewTable
      /\ stack'[scope + 2] = Ptr(name)
      /\ Grown(table, table', {}, {name})
      /\ InfoSet(table', name) = {} => (~ errors' => ~ errors /\ states_' = Append(states_, name))
  BY DEF ParentDescribed
<1>2. Header' = name
  BY <1>1 DEF Header, SameScopes, Ptr
<1>3. InfoSet(table', name) = {}
  <2>1. Infos(table', name) = <<>>
    BY <1>1, <1>2 DEF Fine
  <2> QED
    BY <1>1, <2>1, InfoSetIs DEF NewTable
<1>4. ~ errors /\ ~ errors' /\ states_' = Append(states_, name)
  BY <1>1, <1>3 DEF Fine
<1>5. Fine
  BY <1>1, <1>4 DEF Fine
<1>6. ~ HasState(table, name)
  <2>1. HasState(table, name) => HasState(table', name)
    BY <1>1, GrownHas
  <2> QED
    BY <1>3, <2>1 DEF HasState, Own
<1>7. name = NameIn(sy_parent, id) /\ events_' = events_
  BY <1>1 DEF Onward
<1> DEFINE A == {}
<1>8. Grown(table, table', A, {name}) /\ \A e \in A : e[1] = name /\ e[2].type \notin EVENT
  BY <1>1
<1> HIDE DEF name, A
<1>9. StatesListed'
  BY <1>1, <1>4, <1>5, <1>6, <1>7, <1>8, NewState
<1>10. EventsListed'
  BY <1>1, <1>5, <1>7, <1>8, NoEvents
<1> QED
  BY <1>5, <1>9, <1>10

LEMMA ParentDeclaredLists ==
    ASSUME ParserInv, TableInv, NEW h, NEW si, ParentDeclared(h, si), ~ errors',
           Fine => StatesListed /\ EventsListed
    PROVE  StatesListed' /\ EventsListed' /\ Fine
<1> DEFINE A == {<<Header, si>>}
<1>1. /\ at = "children" /\ at' = "actions" /\ Onward /\ SameScopes /\ NewTable /\ states_' = states_
      /\ stack'[scope + 1] = Ptr(Header) /\ si.type = desc.type /\ desc.type \in PARENT
      /\ ~ errors /\ InfoSet(table, Header) = {}
      /\ Grown(table, table', A, {}) /\ InfoSet(table', Header) = {si}
  BY DEF ParentDeclared
<1>2. Fine
  <2>1. Infos(table, Header) = <<>>
    BY <1>1, ListsTyped, InfoSetIs
  <2> QED
    BY <1>1, <2>1 DEF Fine
<1>3. HasState(table', Header)
  BY <1>1 DEF HasState, Own, STATES, PARENT
<1>4. \A e \in A : e[1] = Header /\ e[2].type \notin EVENT
  BY <1>1 DEF EVENT, PARENT
<1> HIDE DEF A
<1>5. Current' = Header /\ scope' = scope /\ events_' = events_ /\ Inside
  BY <1>1 DEF Current, SameScopes, Ptr, Onward, Inside
<1>6. AllStates' = AllStates /\ states_ # <<>> /\ Header = Last(states_) /\ Header \in AllStates
  <2>1. states_ # <<>> /\ Header = Last(states_)
    BY <1>1, <1>2 DEF StatesListed
  <2>2. Header \in ToSet(states_)
    BY <2>1, ListsTyped, ListFacts
  <2> QED
    BY <1>1, <2>1, <2>2 DEF AllStates
<1>7. \A n \in AllStates : HasState(table', n)
  <2>1. \A n : HasState(table, n) => HasState(table', n)
    BY <1>1, GrownHas
  <2> QED
    BY <1>2, <1>3, <2>1 DEF StatesListed
<1>8. \A n \in DOMAIN table' : HasState(table', n) => n \in AllStates
  <2>1. \A n : HasState(table', n) => HasState(table, n) \/ n = Header
    BY <1>1, <1>4, GrownHas
  <2>2. \A n : HasState(table, n) => n \in AllStates
    BY <1>2, ListsTyped, StateInTable DEF StatesListed
  <2> QED
    BY <1>6, <2>1, <2>2
<1>9. OpenParents' = OpenParents
  BY <1>1, <1>5, SameScopesLineage
<1>10. StatesListed'
  <2>1. \A k \in 1 .. scope : OpenParents[k] \in AllStates /\ (k > 1 => OpenParents[k] # RootName)
    BY <1>2, <1>5 DEF StatesListed
  <2>2. /\ \A i, j \in DOMAIN states_ : states_[i] = states_[j] => i = j
        /\ \A i \in DOMAIN states_ :
              /\ states_[i] # RootName
              /\ Above(states_[i]) \subseteq {RootName} \cup {states_[j] : j \in 1 .. i - 1}
    BY <1>2 DEF StatesListed
  <2> QED
    BY <1>1, <1>5, <1>6, <1>7, <1>8, <1>9, <2>1, <2>2 DEF StatesListed
<1>11. EventsListed'
  BY <1>1, <1>2, <1>4, <1>5, NoEvents
<1> QED
  BY <1>2, <1>10, <1>11

\* What bodies and ends do to events.
LEMMA SameEvents ==
    ASSUME ParserInv, TableInv, EventsListed, BodyBegun \/ BodyEnded \/ StateEnded
    PROVE  EventsListed'
<1>1. Typed(table) /\ scope \in Nat /\ events_ \in Seq(Names)
  BY ListsTyped, ScopedOf DEF BodyBegun, BodyEnded, StateEnded
<1> DEFINE A == {}
<1>2. events_' = events_ /\ \A e \in A : e[2].type \notin EVENT
  BY DEF BodyBegun, BodyEnded, StateEnded, Onward
<1>3. Typed(table') /\ Grown(table, table', A, {})
  <2>1. CASE table' = table
    BY <1>1, <2>1, GrowsNot DEF Grows
  <2>2. CASE table' = close_scope(table, scope)
    BY <1>1, <2>2, GrownClose
  <2> QED
    BY <2>1, <2>2 DEF BodyBegun, BodyEnded, StateEnded
<1> HIDE DEF A
<1> QED
  BY <1>1, <1>2, <1>3, EventsKept

LEMMA NameListed ==
    ASSUME ParserInv, TableInv, at = "description", StatesListed, NEW id \in Identifiers
    PROVE  NameIn(sy_parent, id) \in Names
<1>1. Inside /\ scope > 0
  BY ScopedOf DEF Inside, StackShape
<1> QED
  BY <1>1, ParentListed, NameInStates, StateNamesAre

LEMMA ParentDescribedStates ==
    ASSUME ParserInv, NEW name, ParentDescribed(name), Fine'
    PROVE  Onward /\ states_' = Append(states_, name) /\ at = "description"
<1>1. /\ at = "description" /\ at' = "children" /\ Onward /\ SameScopes /\ NewTable
      /\ stack'[scope + 2] = Ptr(name)
      /\ InfoSet(table', name) = {} => (~ errors' => ~ errors /\ states_' = Append(states_, name))
  BY DEF ParentDescribed
<1>2. Header' = name
  BY <1>1 DEF Header, SameScopes, Ptr
<1>3. InfoSet(table', name) = {}
  <2>1. Infos(table', name) = <<>>
    BY <1>1, <1>2 DEF Fine
  <2> QED
    BY <1>1, <2>1, InfoSetIs DEF NewTable
<1> QED
  BY <1>1, <1>3 DEF Fine

LEMMA ListsStep ==
    ASSUME ParserInv, TableInv, ListsInv, Step
    PROVE  ListsInv'
<1> SUFFICES ASSUME Fine'
             PROVE  StatesListed' /\ EventsListed' /\ TransitionsOrdered'
  BY DEF ListsInv
<1>0. /\ ~ errors' /\ (Fine => StatesListed /\ EventsListed)
      /\ (Fine => TransitionsOrdered)
  BY DEF Fine, ListsInv
<1>1. CASE QuietStep \/ TransitionStep \/ Stopped
  BY <1>1, QuietListsInv DEF ListsInv
<1>2. ASSUME NEW h \in budget.histories, NEW si, ChsmDescribed(h, si)
      PROVE  StatesListed' /\ EventsListed' /\ TransitionsOrdered'
  BY <1>2, ChsmDescribedLists
<1>3. CASE BodyBegun \/ BodyEnded \/ StateEnded
  <2>1. Onward /\ states_' = states_ /\ at \notin {"chsm", "undefined", "children"}
    BY <1>3 DEF BodyBegun, BodyEnded, StateEnded
  <2>2. Fine
    BY <1>0, <2>1 DEF Fine, Onward
  <2>3. TransitionsOrdered'
    BY <1>0, <2>1, <2>2 DEF TransitionsOrdered, Onward
  <2>4. StatesListed'
    BY <1>0, <1>3, <2>2, BodyBegunLists, BodyEndedLists, StateEndedLists
  <2>5. EventsListed'
    BY <1>0, <1>3, <2>2, SameEvents
  <2> QED
    BY <2>3, <2>4, <2>5
<1>4. ASSUME NEW id \in Identifiers, NEW si, StateDescribed(NameIn(sy_parent, id), si)
      PROVE  StatesListed' /\ EventsListed' /\ TransitionsOrdered'
  <2> DEFINE name == NameIn(sy_parent, id)
  <2>1. Onward /\ states_' = Append(states_, name) /\ at = "description"
    BY <1>0, <1>4 DEF StateDescribed
  <2>2. Fine
    BY <1>0, <2>1 DEF Fine, Onward
  <2>3. name \in Names
    BY <1>0, <2>1, <2>2, NameListed
  <2>4. TransitionsOrdered'
    <3> HIDE DEF name
    <3> QED
      BY <1>0, <2>1, <2>2, <2>3, OnwardOrdered
  <2> QED
    BY <1>0, <1>4, <2>4, StateDescribedLists
<1>5. ASSUME NEW id \in Identifiers, ParentDescribed(NameIn(sy_parent, id))
      PROVE  StatesListed' /\ EventsListed' /\ TransitionsOrdered'
  <2> DEFINE name == NameIn(sy_parent, id)
  <2>1. StatesListed' /\ EventsListed' /\ Fine
    BY <1>0, <1>5, ParentDescribedLists
  <2>2. Onward /\ (states_' = states_ \/ states_' = Append(states_, name)) /\ at = "description"
    BY <1>5, <2>1, ParentDescribedStates
  <2>3. name \in Names
    BY <1>0, <2>1, <2>2, NameListed
  <2>4. TransitionsOrdered'
    <3> HIDE DEF name
    <3> QED
      BY <1>0, <2>1, <2>2, <2>3, OnwardOrdered
  <2> QED
    BY <2>1, <2>4
<1>6. ASSUME NEW h \in budget.histories, NEW si, ParentDeclared(h, si)
      PROVE  StatesListed' /\ EventsListed' /\ TransitionsOrdered'
  <2>1. StatesListed' /\ EventsListed' /\ Fine
    BY <1>0, <1>6, ParentDeclaredLists
  <2>2. Onward /\ states_' = states_
    BY <1>6 DEF ParentDeclared
  <2>3. TransitionsOrdered'
    BY <1>0, <2>1, <2>2 DEF TransitionsOrdered, Onward
  <2> QED
    BY <2>1, <2>3
<1>7. CASE UNCHANGED vars
  <2>1. Fine
    BY <1>7 DEF vars, Fine, Header
  <2> QED
    BY <1>0, <1>7, <2>1
       DEF vars, StatesListed, EventsListed, TransitionsOrdered, Inside, InDescribed, OpenParents,
           Current, Header, AllStates
<1> QED
  BY <1>1, <1>2, <1>3, <1>4, <1>5, <1>6, <1>7 DEF Step

LEMMA ListsInit ==
    ASSUME Init
    PROVE  ListsInv
  BY DEF Init, ListsInv, Fine

\* The lists that the generators go through are in order: states after their parents, events after
\* those they are derived from, and the transitions of each in that order: the third part of the
\* inductive invariant.
THEOREM ListsInvariant == Spec => [](ParserInv /\ TableInv /\ ListsInv)
<1>1. Init => ParserInv /\ TableInv /\ ListsInv
  BY InitInv, TableInit, ListsInit
<1>2. ParserInv /\ TableInv /\ ListsInv /\ [Next]_vars => (ParserInv /\ TableInv /\ ListsInv)'
  BY NextInv, NextStep, TableStep, ListsStep
<1> QED
  BY <1>1, <1>2, PTL DEF Spec

\* No scope is open at the end.
LEMMA ClosedOwn ==
    ASSUME ParserInv, TableInv, at \in {"end", "done"}, NEW n
    PROVE  /\ InfoSet(table, n) = Own(table, n)
           /\ Own(table, n) # {} => /\ info(table, n, 0) \in Own(table, n) /\ n \in DOMAIN table
                                    /\ \A si \in Own(table, n) : si.type = info(table, n, 0).type
<1>1. /\ StackShape /\ Nested(table, ScopeParents) /\ Typed(table) /\ InfosSound(table)
  BY ScopedOf DEF Scoped, TableInv
<1>2. scope = 1 /\ ~ InHeader
  BY <1>1 DEF StackShape, InHeader, Inside
<1>3. DOMAIN ScopeParents = {}
  BY <1>2 DEF ScopeParents
<1>4. InfoSet(table, n) = Own(table, n)
  <2>1. ASSUME NEW x \in InfoSet(table, n)
        PROVE  x.type # "CHILD"
    <3>1. n \in DOMAIN table
      BY <1>1, <2>1, InfoSetIs
    <3>2. PICK i \in 1 .. Len(Infos(table, n)) : x = Infos(table, n)[i]
      BY <1>1, <2>1, InfoSetIs
    <3>3. Infos(table, n) = table[n] /\ DOMAIN Infos(table, n) = 1 .. Len(Infos(table, n))
      BY <1>1, <3>1, InfosTyped, InfoSetIs, LenProperties
    <3>4. InScope(x, ScopeParents)
      BY <1>1, <3>1, <3>2, <3>3 DEF Nested
    <3> QED
      BY <1>3, <3>4 DEF InScope
  <2> QED
    BY <2>1 DEF Own
<1>5. ASSUME Own(table, n) # {}
      PROVE  /\ info(table, n, 0) \in Own(table, n) /\ n \in DOMAIN table
             /\ \A si \in Own(table, n) : si.type = info(table, n, 0).type
  <2>1. info(table, n, 0) \in InfoSet(table, n) /\ n \in DOMAIN table
    BY <1>1, <1>4, <1>5, FirstOfSet
  <2> QED
    BY <1>1, <1>4, <2>1 DEF InfosSound
<1> QED
  BY <1>4, <1>5

LEMMA EmittedOwn ==
    ASSUME ParserInv, TableInv, emitted, NEW n
    PROVE  /\ at = "done" /\ ~ errors /\ Fine
           /\ InfoSet(table, n) = Own(table, n)
           /\ Own(table, n) # {} => /\ info(table, n, 0) \in Own(table, n) /\ n \in DOMAIN table
                                    /\ \A si \in Own(table, n) : si.type = info(table, n, 0).type
<1>1. at = "done" /\ ~ errors /\ Fine
  BY DEF TableInv, EmittedFine, Fine
<1> QED
  BY <1>1, ClosedOwn

LEMMA EventEmitted ==
    ASSUME ParserInv, TableInv, ListsInv, emitted, NEW e \in ToSet(events_)
    PROVE  /\ info(table, e, 0) \in Own(table, e) /\ e \in DOMAIN table
           /\ info(table, e, 0).type \in EVENT /\ info(table, e, 0) \in EventInfos
<1> DEFINE si == info(table, e, 0)
<1>1. Fine
  BY EmittedOwn
<1>2. HasEvent(table, e)
  <2>1. \A i \in DOMAIN events_ : HasEvent(table, events_[i])
    BY <1>1 DEF ListsInv, EventsListed
  <2> QED
    BY <2>1 DEF ToSet
<1>3. si \in Own(table, e) /\ e \in DOMAIN table /\ si.type \in EVENT
  BY <1>2, EmittedOwn DEF HasEvent
<1>4. si \in AllInfos
  <2>1. InfoSet(table, e) \subseteq AllInfos
    BY ListsTyped, InfoSetIs
  <2> QED
    BY <1>3, <2>1 DEF Own
<1> HIDE DEF si
<1>5. si \in EventInfos
  BY <1>3, <1>4, InfoKinds
<1> QED
  BY <1>3, <1>5 DEF si

LEMMA ListsGiveOrder ==
    ASSUME ParserInv, TableInv, ListsInv
    PROVE  ParentTransitionsFirst
<1> SUFFICES ASSUME emitted, NEW e \in ToSet(events_)
             PROVE  LET from == [i \in DOMAIN info(table, e, 0).tids |->
                                     transitions_[info(table, e, 0).tids[i] + 1].from]
                    IN  \A i, j \in DOMAIN from : i < j => from[j] \notin Above(from[i])
  BY DEF ParentTransitionsFirst
<1> DEFINE si == info(table, e, 0)
           tids == si.tids
           from == [i \in DOMAIN tids |-> transitions_[tids[i] + 1].from]
<1>1. /\ si \in InfoSet(table, e) /\ e \in DOMAIN table /\ si.type \in EVENT /\ si \in EventInfos
  BY EventEmitted DEF Own
<1>2. TransitionsOrdered /\ IdsSound(table, Len(transitions_)) /\ transitions_ \in Seq(Transitions)
  BY EmittedOwn, ListsTyped DEF ListsInv, TableInv
<1>3. Len(transitions_) \in Nat /\ DOMAIN transitions_ = 1 .. Len(transitions_)
  BY <1>2, LenProperties
<1> HIDE DEF si
<1>4. tids \in Seq(Nat)
  BY <1>1 DEF EventInfos
<1>5. /\ \A i, j \in DOMAIN tids : i < j => tids[i] < tids[j]
      /\ \A i \in DOMAIN tids : tids[i] < Len(transitions_)
  BY <1>1, <1>2 DEF IdsSound
<1> HIDE DEF tids
<1>6. \A i \in DOMAIN tids : tids[i] \in Nat
  BY <1>4, ElementOfSeq, LenProperties
<1>7. \A i \in DOMAIN tids : tids[i] + 1 \in DOMAIN transitions_
  BY <1>3, <1>5, <1>6
<1>8. ASSUME NEW i \in DOMAIN tids, NEW j \in DOMAIN tids, i < j
      PROVE  from[j] \notin Above(from[i])
  <2>1. tids[i] + 1 < tids[j] + 1
    BY <1>5, <1>6, <1>8
  <2> QED
    BY <1>2, <1>7, <2>1 DEF TransitionsOrdered
<1>9. \A i, j \in DOMAIN from : i < j => from[j] \notin Above(from[i])
  BY <1>8
<1> QED
  BY <1>9 DEF tids, si

\* Among the transitions of an event those of a parent come before those of the states in it,
\* whatever the description says.
THEOREM ParentsGoFirst == Spec => []ParentTransitionsFirst
  BY ListsInvariant, ListsGiveOrder, PTL

LEMMA ListsGiveBases ==
    ASSUME ParserInv, TableInv, ListsInv
    PROVE  BasesFirst
<1> SUFFICES ASSUME emitted, NEW i \in DOMAIN events_, Base(events_[i]) # NIL
             PROVE  \E j \in 1 .. i - 1 : events_[j] = Base(events_[i])
  BY DEF BasesFirst
<1>1. events_[i] \in ToSet(events_)
  BY DEF ToSet
<1>2. /\ info(table, events_[i], 0) \in Own(table, events_[i])
      /\ info(table, events_[i], 0).type \in EVENT
  BY <1>1, EventEmitted
<1>3. EventsListed
  BY EmittedOwn DEF ListsInv
<1> QED
  BY <1>2, <1>3 DEF EventsListed, Base

\* The events are emitted in an order in which each follows the one it is derived from.
THEOREM BasesGoFirst == Spec => []BasesFirst
  BY ListsInvariant, ListsGiveBases, PTL

-----------------------------------------------------------------------------
(* Histories. *)

\* Infos that were there keep their histories, and no cluster is entered.
LEMMA HistoriesKept ==
    ASSUME NEW t, NEW r, NEW A, NEW L, Grown(t, r, A, L), NEW states, NEW deep, NEW history,
           HistoriesListed(t, states, deep, history), \A e \in A : e[2].type # "CLUSTER"
    PROVE  HistoriesListed(r, states, deep, history)
<1> SUFFICES ASSUME NEW n \in states, NEW x \in Own(r, n), x.type = "CLUSTER"
             PROVE  x.history <=> n \in history \/ Above(n) \cap deep # {}
  BY DEF HistoriesListed
<1>1. x \in InfoSet(r, n)
  BY DEF Own
<1>2. (\E y \in InfoSet(t, n) : Like(x, y)) \/ (\E e \in A : e[1] = n /\ Like(x, e[2]))
  BY <1>1 DEF Grown
<1>3. PICK y \in InfoSet(t, n) : Like(x, y)
  BY <1>2 DEF Like
<1>4. y.type = "CLUSTER" /\ y.history = x.history /\ y \in Own(t, n)
  BY <1>3 DEF Like, Own, STATES
<1> QED
  BY <1>4 DEF HistoriesListed

\* No state lies in itself, nor in what lies in it.
LEMMA Acyclic ==
    ASSUME ParserInv, StatesListed, NEW p \in ToSet(states_)
    PROVE  p # RootName /\ p \notin Above(p) /\ \A a \in Above(p) : p \notin Above(a)
<1> DEFINE l == Len(states_)
<1>1. /\ l \in Nat /\ DOMAIN states_ = 1 .. l
      /\ \A n : n \in ToSet(states_) <=> \E i \in 1 .. l : states_[i] = n
  BY ListsTyped, ListFacts
<1> HIDE DEF l
<1>2. PICK k \in 1 .. l : states_[k] = p
  BY <1>1
<1>3. /\ p # RootName
      /\ \A i, j \in 1 .. l : states_[i] = states_[j] => i = j
      /\ \A i \in 1 .. l : Above(states_[i]) \subseteq {RootName} \cup {states_[j] : j \in 1 .. i - 1}
  BY <1>1, <1>2 DEF StatesListed
<1>4. ASSUME NEW i \in 1 .. l, i <= k
      PROVE  p \notin Above(states_[i])
  <2>1. SUFFICES ASSUME p \in Above(states_[i])
                 PROVE  FALSE
    OBVIOUS
  <2>2. PICK j \in 1 .. i - 1 : p = states_[j]
    BY <1>3, <2>1
  <2>3. j \in 1 .. l /\ j # k
    BY <1>1, <1>4
  <2> QED
    BY <1>2, <1>3, <2>2, <2>3
<1>5. p \notin Above(p)
  <2>1. k <= k
    BY <1>1
  <2> QED
    BY <1>2, <1>4, <2>1
<1>6. ASSUME NEW a \in Above(p)
      PROVE  p \notin Above(a)
  <2>1. CASE a = RootName
    BY <1>3, <2>1, AboveRoot
  <2>2. CASE a # RootName
    <3>1. PICK j \in 1 .. k - 1 : a = states_[j]
      BY <1>2, <1>3, <1>6, <2>2
    <3>2. j \in 1 .. l /\ j <= k
      BY <1>1
    <3> QED
      BY <1>4, <3>1, <3>2
  <2> QED
    BY <2>1, <2>2
<1> QED
  BY <1>3, <1>5, <1>6

\* The path to what is described, and to what comes next in a body.
LEMMA PathIs ==
    ASSUME ParserInv, TableInv
    PROVE  /\ InDescribed => Path = Above(Current) \cup {Current} /\ Current # NIL
           /\ InDescribed /\ scope > 0 =>
                 Above(Current) = Above(sy_parent) \cup {sy_parent} /\ sy_parent # NIL
           /\ at = "children" =>
                 Above(Header) = Above(sy_parent) \cup {sy_parent} /\ Header # NIL
           /\ Inside /\ scope > 0 /\ ~ InDescribed =>
                 Path = Above(sy_parent) \cup {sy_parent} /\ sy_parent # NIL
<1>0. \A n \in StateNames : n # NIL
  BY StateNamesAre, NilIsNoName
<1>1. /\ Inside /\ scope > 0 => OpenParents[scope] = sy_parent /\ sy_parent \in StateNames
      /\ InDescribed => Current \in StateNames
      /\ at = "children" => Header \in StateNames /\ scope > 0
  BY LineageNames DEF TableInv
<1>2. InDescribed \/ at = "children" => Inside
  BY DEF InDescribed, Inside
<1>3. ASSUME InDescribed, scope > 0
      PROVE  Above(Current) = Above(sy_parent) \cup {sy_parent} /\ sy_parent # NIL
  <2>1. PICK id \in Identifiers : Current = NameIn(sy_parent, id)
    BY <1>3 DEF TableInv, Lineage
  <2> QED
    BY <1>0, <1>1, <1>2, <1>3, <2>1, NameInStates
<1>4. ASSUME at = "children"
      PROVE  Above(Header) = Above(sy_parent) \cup {sy_parent} /\ Header # NIL
  <2>1. PICK id \in Identifiers : Header = NameIn(sy_parent, id)
    BY <1>4 DEF TableInv, Lineage
  <2> QED
    BY <1>0, <1>1, <1>2, <1>4, <2>1, NameInStates
<1>5. InDescribed => Path = Above(Current) \cup {Current} /\ Current # NIL
  BY <1>0, <1>1 DEF Path
<1>6. Inside /\ scope > 0 /\ ~ InDescribed =>
          Path = Above(sy_parent) \cup {sy_parent} /\ sy_parent # NIL
  BY <1>0, <1>1 DEF Path
<1> QED
  BY <1>3, <1>4, <1>5, <1>6

LEMMA QuietHistory ==
    ASSUME ParserInv, HistoriesDeep, NEW A, Quiet(A)
    PROVE  HistoriesDeep'
<1>0. /\ Frame /\ SamePlace /\ Grown(table, table', A, {}) /\ \A e \in A : e[2].type # "CLUSTER"
  BY DEF Quiet, Entering, STATES
<1>1. /\ InDescribed' <=> InDescribed
      /\ at' = "children" <=> at = "children"
      /\ InDescribed => Current' = Current
      /\ at = "children" => Header' = Header
  BY <1>0, QuietPlaces
<1>2. /\ states_' = states_ /\ sy_parent' = sy_parent /\ sy_outer_deep_' = sy_outer_deep_
      /\ written'.deep = written.deep /\ written'.history = written.history /\ desc'.type = desc.type
  BY <1>0 DEF Frame
<1>3. Path' = Path /\ AllStates' = AllStates
  BY <1>1, <1>2 DEF Path, AllStates
<1>4. HistoriesListed(table', ToSet(states_), written.deep, written.history)
  BY <1>0, HistoriesKept DEF HistoriesDeep
<1>5. HistoriesListed(table', ToSet(states_'), written'.deep, written'.history)
  BY <1>2, <1>4
<1>6. written'.deep \cup written'.history
          \subseteq AllStates' \ (IF at' = "children" THEN {Header'} ELSE {})
  BY <1>1, <1>2, <1>3 DEF HistoriesDeep
<1>7. InDescribed' /\ desc'.type = "STATE" => Current' \notin written'.deep
  BY <1>1, <1>2 DEF HistoriesDeep
<1>8. Outermost(sy_outer_deep_', Path', written'.deep)
  BY <1>2, <1>3 DEF HistoriesDeep
<1> QED
  BY <1>5, <1>6, <1>7, <1>8 DEF HistoriesDeep

LEMMA ChsmDescribedHistory ==
    ASSUME ParserInv, TableInv, NEW h, NEW si, ChsmDescribed(h, si)
    PROVE  HistoriesDeep'
<1>1. /\ at' = "actions" /\ at = "chsm" /\ desc'.type = "ROOT" /\ WroteHistory(RootName, h)
      /\ states_' = states_ /\ stack' = <<Ptr(RootName)>> /\ scope' = 0
  BY DEF ChsmDescribed
<1>2. /\ states_ = <<>> /\ sy_outer_deep_ = NIL /\ written.deep = {} /\ written.history = {}
  BY <1>1 DEF TableInv, Untouched
<1>3. Path' = {RootName}
  <2>1. InDescribed' /\ Current' = RootName
    BY <1>1 DEF InDescribed, Current, Ptr
  <2> QED
    BY <2>1, AboveRoot DEF Path
<1>4. ToSet(states_') = {} /\ AllStates' = {RootName}
  BY <1>1, <1>2 DEF ToSet, AllStates
<1>5. RootName # NIL
  BY NilIsNoName, StateNamesAre
<1>6. /\ sy_outer_deep_' = IF h = "deep" THEN RootName ELSE NIL
      /\ written'.deep = IF h = "deep" THEN {RootName} ELSE {}
      /\ written'.history \subseteq {RootName}
  BY <1>1, <1>2 DEF WroteHistory, Deepen
<1>7. Outermost(sy_outer_deep_', Path', written'.deep)
  BY <1>3, <1>5, <1>6 DEF Outermost
<1>8. HistoriesListed(table', ToSet(states_'), written'.deep, written'.history)
  BY <1>4 DEF HistoriesListed
<1>9. written'.deep \cup written'.history \subseteq AllStates'
  BY <1>4, <1>6
<1>10. at' # "children" /\ desc'.type # "STATE"
  BY <1>1
<1> QED
  BY <1>7, <1>8, <1>9, <1>10 DEF HistoriesDeep

LEMMA BodyBegunHistory ==
    ASSUME ParserInv, TableInv, HistoriesDeep, BodyBegun
    PROVE  HistoriesDeep'
<1>1. /\ at = "is" /\ at' = "description" /\ SameHistories /\ table' = table /\ states_' = states_
      /\ sy_parent' = Current
  BY DEF BodyBegun
<1>2. InDescribed /\ ~ InDescribed' /\ AllStates' = AllStates /\ at' # "children" /\ at # "children"
  BY <1>1 DEF InDescribed, AllStates
<1>3. Path' = Path
  <2>1. Path = Above(Current) \cup {Current} /\ Current # NIL
    BY <1>2, PathIs
  <2> QED
    BY <1>1, <1>2, <2>1 DEF Path
<1> QED
  BY <1>1, <1>2, <1>3 DEF HistoriesDeep, SameHistories

LEMMA BodyEndedHistory ==
    ASSUME ParserInv, TableInv, StatesListed, HistoriesDeep, BodyEnded
    PROVE  HistoriesDeep'
<1>1. /\ at = "description" /\ at' = (IF scope = 1 THEN "end" ELSE "description")
      /\ UNCHANGED <<states_, written>>
      /\ sy_outer_deep_' = IF sy_parent = sy_outer_deep_ THEN NIL ELSE sy_outer_deep_
      /\ table' = close_scope(table, scope) /\ scope > 0
      /\ scope = 1 => sy_parent' = NIL
      /\ scope # 1 => sy_parent' = OpenParents[scope - 1]
  BY DEF BodyEnded
<1>2. /\ scope \in Nat /\ Inside /\ ~ InDescribed /\ ~ InDescribed' /\ AllStates' = AllStates
      /\ at' # "children" /\ at # "children" /\ Typed(table)
  BY <1>1, ScopedOf DEF Inside, InDescribed, AllStates, Scoped
<1>3. HistoriesListed(table', ToSet(states_'), written'.deep, written'.history)
  <2> DEFINE A == {}
  <2>1. Grown(table, table', A, {}) /\ \A e \in A : e[2].type # "CLUSTER"
    BY <1>1, <1>2, GrownClose
  <2> HIDE DEF A
  <2>2. HistoriesListed(table', ToSet(states_), written.deep, written.history)
    BY <2>1, HistoriesKept DEF HistoriesDeep
  <2> QED
    BY <1>1, <2>2
<1>4. /\ Path = Above(sy_parent) \cup {sy_parent} /\ sy_parent # NIL
      /\ OpenParents[scope] = sy_parent
      /\ Outermost(sy_outer_deep_, Path, written.deep)
  BY <1>1, <1>2, PathIs, LineageNames DEF TableInv, HistoriesDeep
<1>5. Outermost(sy_outer_deep_', Path', written'.deep)
  <2>1. CASE scope = 1
    <3>1. sy_parent = RootName /\ Path' = {}
      BY <1>1, <1>2, <1>4, <2>1 DEF TableInv, Lineage, Path
    <3>2. Path = {RootName}
      BY <1>4, <3>1, AboveRoot
    <3>3. sy_outer_deep_' = NIL
      BY <1>1, <1>4, <3>1, <3>2 DEF Outermost
    <3> QED
      BY <3>1, <3>3 DEF Outermost
  <2>2. CASE scope # 1
    <3> DEFINE p == OpenParents[scope - 1]
    <3>1. scope \in 2 .. scope /\ scope - 1 \in 1 .. scope /\ scope \in 1 .. scope /\ scope > 1
      BY <1>1, <1>2, <2>2
    <3>2. p \in StateNames
      BY <1>2, <3>1, LineageNames DEF TableInv
    <3>3. PICK id \in Identifiers : OpenParents[scope] = NameIn(p, id)
      BY <1>2, <3>1 DEF TableInv, Lineage
    <3>4. sy_parent \in ToSet(states_)
      <4>1. OpenParents[scope] \in AllStates /\ OpenParents[scope] # RootName
        BY <1>2, <3>1 DEF StatesListed
      <4> QED
        BY <1>4, <4>1 DEF AllStates
    <3> HIDE DEF p
    <3>5. Above(sy_parent) = Above(p) \cup {p} /\ p # NIL
      BY <1>4, <3>2, <3>3, NameInStates, StateNamesAre, NilIsNoName
    <3>6. Path' = Above(sy_parent)
      <4>1. sy_parent' = p
        BY <1>1, <2>2 DEF p
      <4> QED
        BY <1>2, <3>5, <4>1 DEF Path
    <3>7. sy_parent \notin Above(sy_parent) /\ \A a \in Above(sy_parent) : sy_parent \notin Above(a)
      BY <3>4, Acyclic
    <3>8. CASE sy_outer_deep_ = NIL
      BY <1>1, <1>4, <3>6, <3>8 DEF Outermost
    <3>9. CASE sy_outer_deep_ = sy_parent
      BY <1>1, <1>4, <3>6, <3>7, <3>9 DEF Outermost
    <3>10. CASE sy_outer_deep_ # NIL /\ sy_outer_deep_ # sy_parent
      BY <1>1, <1>4, <3>6, <3>10 DEF Outermost
    <3> QED
      BY <3>8, <3>9, <3>10
  <2> QED
    BY <2>1, <2>2
<1>6. written'.deep \cup written'.history \subseteq AllStates'
  BY <1>1, <1>2 DEF HistoriesDeep
<1> QED
  BY <1>2, <1>3, <1>5, <1>6 DEF HistoriesDeep

LEMMA StateEndedHistory ==
    ASSUME ParserInv, TableInv, HistoriesDeep, StateEnded
    PROVE  HistoriesDeep'
<1>1. /\ at \in {"actions", "transitions"} /\ at' = "description" /\ desc.type = "STATE"
      /\ SameScopes /\ SameHistories /\ table' = table /\ states_' = states_ /\ scope > 0
  BY DEF StateEnded
<1>2. /\ InDescribed /\ ~ InDescribed' /\ AllStates' = AllStates /\ at' # "children"
      /\ at # "children" /\ sy_parent' = sy_parent
  BY <1>1 DEF InDescribed, AllStates, SameScopes
<1>3. Path = Path' \cup {Current}
  <2>1. /\ Path = Above(Current) \cup {Current} /\ sy_parent # NIL
        /\ Above(Current) = Above(sy_parent) \cup {sy_parent}
    BY <1>1, <1>2, PathIs
  <2> QED
    BY <1>2, <2>1 DEF Path
<1>4. Path' \cap written.deep = Path \cap written.deep
  BY <1>1, <1>2, <1>3 DEF HistoriesDeep
<1>5. Outermost(sy_outer_deep_', Path', written'.deep)
  BY <1>1, <1>4 DEF HistoriesDeep, Outermost, SameHistories
<1>6. HistoriesListed(table', ToSet(states_'), written'.deep, written'.history)
  BY <1>1 DEF HistoriesDeep, SameHistories
<1>7. written'.deep \cup written'.history \subseteq AllStates'
  BY <1>1, <1>2 DEF HistoriesDeep, SameHistories
<1> QED
  BY <1>2, <1>5, <1>6, <1>7 DEF HistoriesDeep

\* A state is listed: it has no history yet.
LEMMA ListedHistories ==
    ASSUME ParserInv, NEW r, NEW A, NEW L, Grown(table, r, A, L), HistoriesDeep,
           NEW name \in Names, states_' = Append(states_, name), \A e \in A : e[2].type # "CLUSTER",
           \A x \in InfoSet(r, name) : x.type # "CLUSTER"
    PROVE  HistoriesListed(r, ToSet(states_'), written.deep, written.history)
<1>1. HistoriesListed(r, ToSet(states_), written.deep, written.history)
  BY HistoriesKept DEF HistoriesDeep
<1>2. ToSet(states_') = ToSet(states_) \cup {name}
  BY ListsTyped, AppendFacts
<1>3. \A x \in Own(r, name) : x.type # "CLUSTER"
  BY DEF Own
<1> QED
  BY <1>1, <1>2, <1>3 DEF HistoriesListed

LEMMA NameAbsent ==
    ASSUME ParserInv, TableInv, at = "description", StatesListed, HistoriesDeep, NEW name,
           ~ HasState(table, name)
    PROVE  name \notin AllStates /\ name \notin written.deep \cup written.history
<1>1. at # "children"
  OBVIOUS
<1> QED
  BY <1>1 DEF StatesListed, HistoriesDeep

LEMMA StateDescribedHistory ==
    ASSUME ParserInv, TableInv, StatesListed, HistoriesDeep, NEW id \in Identifiers, NEW si,
           StateDescribed(NameIn(sy_parent, id), si), ~ errors'
    PROVE  HistoriesDeep'
<1> DEFINE name == NameIn(sy_parent, id)
           A == {<<name, si>>}
<1>1. /\ at = "description" /\ at' = "actions" /\ SameScopes /\ SameHistories
      /\ stack'[scope + 1] = Ptr(name) /\ si.type = "STATE"
      /\ Grown(table, table', A, {name}) /\ InfoSet(table', name) = {si}
      /\ states_' = Append(states_, name) /\ ~ HasState(table, name)
  BY DEF StateDescribed
<1>2. /\ Inside /\ scope > 0 /\ ~ InDescribed /\ InDescribed' /\ at' # "children"
  BY <1>1, ScopedOf DEF Inside, InDescribed, StackShape
<1>3. /\ Path = Above(sy_parent) \cup {sy_parent} /\ sy_parent \in StateNames
  BY <1>2, PathIs, LineageNames DEF TableInv
<1>4. name \in Names /\ Above(name) = Path
  BY <1>3, NameInStates, StateNamesAre
<1>5. \A e \in A : e[2].type # "CLUSTER"
  BY <1>1
<1> HIDE DEF name, A
<1>6. Current' = name
  BY <1>1 DEF Current, SameScopes, Ptr
<1>7. Path' = Path \cup {name}
  BY <1>2, <1>4, <1>6 DEF Path
<1>8. name \notin AllStates /\ name \notin written.deep \cup written.history
  BY <1>1, NameAbsent
<1>9. Outermost(sy_outer_deep_', Path', written'.deep)
  <2>1. Path' \cap written.deep = Path \cap written.deep
    BY <1>7, <1>8
  <2> QED
    BY <1>1, <2>1 DEF HistoriesDeep, Outermost, SameHistories
<1>10. HistoriesListed(table', ToSet(states_'), written'.deep, written'.history)
  <2>1. \A x \in InfoSet(table', name) : x.type # "CLUSTER"
    BY <1>1
  <2>2. HistoriesListed(table', ToSet(states_'), written.deep, written.history)
    BY <1>1, <1>4, <1>5, <2>1, ListedHistories
  <2> QED
    BY <1>1, <2>2 DEF SameHistories
<1>11. written'.deep \cup written'.history \subseteq AllStates'
  <2>1. AllStates \subseteq AllStates'
    <3>1. ToSet(states_') = ToSet(states_) \cup {name}
      BY <1>1, <1>4, ListsTyped, AppendFacts
    <3> QED
      BY <3>1 DEF AllStates
  <2> QED
    BY <1>1, <2>1 DEF HistoriesDeep, SameHistories
<1>12. Current' \notin written'.deep
  BY <1>1, <1>6, <1>8 DEF SameHistories
<1> QED
  BY <1>2, <1>9, <1>10, <1>11, <1>12 DEF HistoriesDeep

LEMMA ParentDescribedHistory ==
    ASSUME ParserInv, TableInv, StatesListed, HistoriesDeep, NEW id \in Identifiers,
           ParentDescribed(NameIn(sy_parent, id)), Fine'
    PROVE  HistoriesDeep'
<1> DEFINE name == NameIn(sy_parent, id)
<1>1. /\ at = "description" /\ at' = "children" /\ SameScopes /\ SameHistories
      /\ stack'[scope + 2] = Ptr(name) /\ NewTable
      /\ Grown(table, table', {}, {name}) /\ states_' = Append(states_, name)
  BY ParentDescribedStates DEF ParentDescribed
<1>2. /\ Inside /\ scope > 0 /\ ~ InDescribed /\ ~ InDescribed'
  BY <1>1, ScopedOf DEF Inside, InDescribed, StackShape
<1>3. name \in Names
  BY <1>1, NameListed
<1>4. Path' = Path /\ Header' = name
  BY <1>1, <1>2 DEF Path, SameScopes, Header, Ptr
<1> DEFINE A == {}
<1>5. Grown(table, table', A, {name}) /\ \A e \in A : e[2].type # "CLUSTER"
  BY <1>1
<1> HIDE DEF name, A
<1>6. InfoSet(table', name) = {}
  <2>1. Infos(table', name) = <<>>
    BY <1>1, <1>4 DEF Fine
  <2> QED
    BY <1>1, <2>1, InfoSetIs DEF NewTable
<1>7. ~ HasState(table, name)
  <2>1. HasState(table, name) => HasState(table', name)
    BY <1>5, GrownHas
  <2> QED
    BY <1>6, <2>1 DEF HasState, Own
<1>8. name \notin AllStates /\ name \notin written.deep \cup written.history
  BY <1>1, <1>7, NameAbsent
<1>9. Outermost(sy_outer_deep_', Path', written'.deep)
  BY <1>1, <1>4 DEF HistoriesDeep, SameHistories
<1>10. HistoriesListed(table', ToSet(states_'), written'.deep, written'.history)
  <2>1. HistoriesListed(table', ToSet(states_'), written.deep, written.history)
    BY <1>1, <1>3, <1>5, <1>6, ListedHistories
  <2> QED
    BY <1>1, <2>1 DEF SameHistories
<1>11. written'.deep \cup written'.history \subseteq AllStates' \ {Header'}
  <2>1. AllStates \subseteq AllStates'
    <3>1. ToSet(states_') = ToSet(states_) \cup {name}
      BY <1>1, <1>3, ListsTyped, AppendFacts
    <3> QED
      BY <3>1 DEF AllStates
  <2> QED
    BY <1>1, <1>4, <1>8, <2>1 DEF HistoriesDeep, SameHistories
<1> QED
  BY <1>2, <1>9, <1>10, <1>11 DEF HistoriesDeep

\* What is listed last is not above anything that is listed.
LEMMA LastAbove ==
    ASSUME ParserInv, StatesListed, states_ # <<>>, NEW n \in ToSet(states_)
    PROVE  Last(states_) \notin Above(n)
<1> DEFINE l == Len(states_)
<1>1. /\ l \in Nat /\ DOMAIN states_ = 1 .. l
      /\ \A x : x \in ToSet(states_) <=> \E i \in 1 .. l : states_[i] = x
      /\ l \in 1 .. l /\ Last(states_) = states_[l]
  BY ListsTyped, ListFacts
<1> HIDE DEF l
<1>2. PICK i \in 1 .. l : states_[i] = n
  BY <1>1
<1>3. /\ states_[l] # RootName
      /\ \A j, k \in 1 .. l : states_[j] = states_[k] => j = k
      /\ Above(n) \subseteq {RootName} \cup {states_[j] : j \in 1 .. i - 1}
  BY <1>1, <1>2 DEF StatesListed
<1>4. SUFFICES ASSUME states_[l] \in Above(n)
               PROVE  FALSE
  BY <1>1
<1>5. PICK j \in 1 .. i - 1 : states_[l] = states_[j]
  BY <1>3, <1>4
<1>6. j \in 1 .. l /\ j # l
  BY <1>1
<1> QED
  BY <1>1, <1>3, <1>5, <1>6

LEMMA ParentDeclaredHistory ==
    ASSUME ParserInv, TableInv, StatesListed, HistoriesDeep, NEW h, NEW si, ParentDeclared(h, si),
           ~ errors'
    PROVE  HistoriesDeep'
<1> DEFINE A == {<<Header, si>>}
           sy == Header
<1>1. /\ at = "children" /\ at' = "actions" /\ desc' = desc /\ desc.type \in PARENT
      /\ SameScopes /\ WroteHistory(sy, h) /\ states_' = states_
      /\ stack'[scope + 1] = Ptr(sy) /\ si.type = desc.type
      /\ desc.type = "CLUSTER" => (si.history <=> h # "none" \/ Deepen(sy, h) # NIL)
      /\ Grown(table, table', A, {}) /\ InfoSet(table', sy) = {si}
  BY DEF ParentDeclared
<1>2. /\ Inside /\ scope > 0 /\ ~ InDescribed /\ InDescribed' /\ at' # "children"
      /\ desc'.type # "STATE"
  BY <1>1, ScopedOf DEF Inside, InDescribed, StackShape, PARENT
<1>3. Path = Above(sy) /\ sy # NIL
  BY <1>1, <1>2, PathIs
<1>4. states_ # <<>> /\ sy = Last(states_) /\ sy \in ToSet(states_) /\ sy \in AllStates
  BY <1>1, ListsTyped, ListFacts DEF StatesListed, AllStates
<1>5. sy \notin written.deep /\ sy \notin written.history
      /\ written.deep \cup written.history \subseteq AllStates
  BY <1>1 DEF HistoriesDeep
<1> HIDE DEF sy
<1>6. Path' = Path \cup {sy}
  <2>1. Current' = sy
    BY <1>1 DEF Current, SameScopes, Ptr
  <2> QED
    BY <1>2, <1>3, <2>1 DEF Path
<1>7. sy \notin Path
  BY <1>3, <1>4, Acyclic
<1>8. \A n \in ToSet(states_) : sy \notin Above(n)
  BY <1>4, LastAbove
<1>9. /\ sy_outer_deep_' = IF h = "deep" /\ sy_outer_deep_ = NIL THEN sy ELSE sy_outer_deep_
      /\ written'.history = IF h # "none" THEN written.history \cup {sy} ELSE written.history
      /\ written'.deep = IF h = "deep" THEN written.deep \cup {sy} ELSE written.deep
      /\ Deepen(sy, h) = IF h = "deep" /\ sy_outer_deep_ = NIL THEN sy ELSE sy_outer_deep_
  BY <1>1 DEF WroteHistory, Deepen
<1>10. Outermost(sy_outer_deep_, Path, written.deep)
  BY DEF HistoriesDeep
<1>11. Outermost(sy_outer_deep_', Path', written'.deep)
  <2>1. CASE sy_outer_deep_ # NIL
    <3>1. /\ sy_outer_deep_' = sy_outer_deep_ /\ sy_outer_deep_ \in Path \cap written.deep
          /\ \A a \in Path \cap written.deep : a = sy_outer_deep_ \/ sy_outer_deep_ \in Above(a)
      BY <1>9, <1>10, <2>1 DEF Outermost
    <3>2. sy_outer_deep_ \in Path' \cap written'.deep
      BY <1>6, <1>9, <3>1
    <3>3. \A a \in Path' \cap written'.deep : a \in Path \cap written.deep \/ a = sy
      BY <1>6, <1>9
    <3>4. sy_outer_deep_ \in Above(sy)
      BY <1>3, <3>1
    <3> QED
      BY <2>1, <3>1, <3>2, <3>3, <3>4 DEF Outermost
  <2>2. CASE sy_outer_deep_ = NIL
    <3>1. Path \cap written.deep = {}
      BY <1>10, <2>2 DEF Outermost
    <3>2. Path' \cap written'.deep = IF h = "deep" THEN {sy} ELSE {}
      BY <1>5, <1>6, <1>9, <3>1
    <3> QED
      BY <1>3, <1>9, <2>2, <3>2 DEF Outermost
  <2> QED
    BY <2>1, <2>2
<1>12. HistoriesListed(table', ToSet(states_'), written'.deep, written'.history)
  <2> SUFFICES ASSUME NEW n \in ToSet(states_), NEW x \in Own(table', n), x.type = "CLUSTER"
               PROVE  x.history <=> n \in written'.history \/ Above(n) \cap written'.deep # {}
    BY <1>1 DEF HistoriesListed
  <2>0. x \in InfoSet(table', n)
    BY DEF Own
  <2>1. Above(n) \cap written'.deep = Above(n) \cap written.deep
    BY <1>8, <1>9
  <2>2. CASE n = sy
    <3>1. x = si /\ desc.type = "CLUSTER"
      BY <1>1, <2>0, <2>2
    <3>2. sy \in written'.history <=> h # "none"
      BY <1>5, <1>9
    <3>3. Above(sy) \cap written.deep # {} <=> sy_outer_deep_ # NIL
      BY <1>3, <1>10 DEF Outermost
    <3>4. Deepen(sy, h) # NIL <=> sy_outer_deep_ # NIL \/ h = "deep"
      BY <1>3, <1>9
    <3>5. si.history <=> h # "none" \/ Deepen(sy, h) # NIL
      BY <1>1, <3>1
    <3>6. h = "deep" => h # "none"
      OBVIOUS
    <3> QED
      BY <2>1, <2>2, <3>1, <3>2, <3>3, <3>4, <3>5, <3>6
  <2>3. CASE n # sy
    <3>1. PICK y \in InfoSet(table, n) : Like(x, y)
      <4>1. \A e \in A : e[1] = sy
        BY DEF sy
      <4> QED
        BY <1>1, <2>0, <2>3, <4>1 DEF Grown
    <3>2. y \in Own(table, n) /\ y.type = "CLUSTER" /\ y.history = x.history
      BY <3>1 DEF Like, Own, STATES
    <3>3. y.history <=> n \in written.history \/ Above(n) \cap written.deep # {}
      BY <3>2 DEF HistoriesDeep, HistoriesListed
    <3>4. n \in written'.history <=> n \in written.history
      BY <1>9, <2>3
    <3> QED
      BY <2>1, <3>2, <3>3, <3>4
  <2> QED
    BY <2>2, <2>3
<1>13. written'.deep \cup written'.history \subseteq AllStates'
  <2>1. AllStates' = AllStates
    BY <1>1 DEF AllStates
  <2> QED
    BY <1>4, <1>5, <1>9, <2>1
<1> QED
  BY <1>2, <1>11, <1>12, <1>13 DEF HistoriesDeep

LEMMA HistoryStep ==
    ASSUME ParserInv, TableInv, ListsInv, HistoryInv, Step
    PROVE  HistoryInv'
<1> SUFFICES ASSUME Fine'
             PROVE  HistoriesDeep'
  BY DEF HistoryInv
<1>0. /\ ~ errors' /\ (Fine => StatesListed /\ HistoriesDeep)
      /\ (Fine => StatesListed /\ EventsListed)
  BY DEF Fine, ListsInv, HistoryInv
<1>1. ASSUME NEW A, Quiet(A)
      PROVE  HistoriesDeep'
  <2>1. Fine
    BY <1>1, QuietFine
  <2> QED
    BY <1>0, <1>1, <2>1, QuietHistory
<1>2. CASE QuietStep \/ TransitionStep
  <2>1. \E A : Quiet(A)
    <3>1. ASSUME TransitionStep
          PROVE  \E A : Quiet(A)
      <4>1. PICK s, n : Adding(s, n)
        BY <3>1 DEF TransitionStep
      <4> QED
        BY <4>1 DEF Adding
    <3> QED
      BY <1>2, <3>1 DEF QuietStep
  <2> QED
    BY <1>1, <2>1
<1>3. CASE Stopped
  BY <1>3 DEF Stopped, Fine
<1>4. ASSUME NEW h \in budget.histories, NEW si, ChsmDescribed(h, si)
      PROVE  HistoriesDeep'
  BY <1>4, ChsmDescribedHistory
<1>5. CASE BodyBegun \/ BodyEnded \/ StateEnded
  <2>1. Fine
    <3>1. Onward /\ at \notin {"chsm", "undefined", "children"}
      BY <1>5 DEF BodyBegun, BodyEnded, StateEnded
    <3> QED
      BY <1>0, <3>1 DEF Fine, Onward
  <2> QED
    BY <1>0, <1>5, <2>1, BodyBegunHistory, BodyEndedHistory, StateEndedHistory
<1>6. ASSUME NEW id \in Identifiers, NEW si, StateDescribed(NameIn(sy_parent, id), si)
      PROVE  HistoriesDeep'
  <2>1. Fine
    <3>1. Onward /\ at = "description"
      BY <1>6 DEF StateDescribed
    <3> QED
      BY <1>0, <3>1 DEF Fine, Onward
  <2> QED
    BY <1>0, <1>6, <2>1, StateDescribedHistory
<1>7. ASSUME NEW id \in Identifiers, ParentDescribed(NameIn(sy_parent, id))
      PROVE  HistoriesDeep'
  <2>1. Fine
    BY <1>0, <1>7, ParentDescribedLists
  <2> QED
    BY <1>0, <1>7, <2>1, ParentDescribedHistory
<1>8. ASSUME NEW h \in budget.histories, NEW si, ParentDeclared(h, si)
      PROVE  HistoriesDeep'
  <2>1. Fine
    BY <1>0, <1>8, ParentDeclaredLists
  <2> QED
    BY <1>0, <1>8, <2>1, ParentDeclaredHistory
<1>9. CASE UNCHANGED vars
  <2>1. Fine
    BY <1>9 DEF vars, Fine, Header
  <2> QED
    BY <1>0, <1>9, <2>1
       DEF vars, HistoriesDeep, Path, InDescribed, Current, Header, AllStates
<1> QED
  BY <1>2, <1>3, <1>4, <1>5, <1>6, <1>7, <1>8, <1>9 DEF Step

LEMMA HistoryInit ==
    ASSUME Init
    PROVE  HistoryInv
  BY DEF Init, HistoryInv, Fine

\* A deep history is passed on to every cluster in it, when the cluster is declared and when it is
\* described: the fourth part of the inductive invariant.
THEOREM HistoryInvariant == Spec => [](ParserInv /\ TableInv /\ ListsInv /\ HistoryInv)
<1>1. Init => HistoryInv
  BY HistoryInit
<1>2. ParserInv /\ TableInv /\ ListsInv /\ HistoryInv /\ [Next]_vars => HistoryInv'
  BY NextStep, HistoryStep
<1> QED
  BY <1>1, <1>2, ListsInvariant, PTL DEF Spec

LEMMA HistoryGiven ==
    ASSUME ParserInv, TableInv, ListsInv, HistoryInv
    PROVE  DeepHistory
<1> SUFFICES ASSUME emitted, NEW n \in ToSet(states_), info(table, n, 0).type = "CLUSTER"
             PROVE  info(table, n, 0).history <=>
                        n \in written.history \/ Above(n) \cap written.deep # {}
  BY DEF DeepHistory
<1>1. Fine /\ at = "done"
  BY EmittedOwn
<1>2. HasState(table, n)
  BY <1>1 DEF ListsInv, StatesListed, AllStates
<1>3. info(table, n, 0) \in Own(table, n)
  BY <1>2, EmittedOwn DEF HasState
<1> QED
  BY <1>1, <1>3 DEF HistoryInv, HistoriesDeep, HistoriesListed

\* A cluster has a history exactly if it is described with one or lies in a parent with a
\* deep one.
THEOREM HistoriesInherited == Spec => []DeepHistory
  BY HistoryInvariant, HistoryGiven, PTL

-----------------------------------------------------------------------------
(* What references lead to. *)

LEMMA LeadsKept ==
    ASSUME NEW t, NEW r, NEW A, NEW L, Grown(t, r, A, L), NEW n, LeadsToState(t, n), n \notin L
    PROVE  LeadsToState(r, n)
<1>1. PICK y \in Own(t, n) : y.type \in STATES \cup {"GLOBAL"}
  BY DEF LeadsToState
<1>2. PICK x \in InfoSet(r, n) : Like(x, y)
  BY <1>1 DEF Grown, Own
<1>3. x.type = y.type
  BY <1>2 DEF Like
<1> QED
  BY <1>1, <1>2, <1>3 DEF LeadsToState, Own

\* The states of enter and exit events stay known.
LEMMA EnexKept ==
    ASSUME Typed(table), TargetsKnown, NEW A, NEW L, Grown(table, table', A, L),
           \A n : Known(table, Announced, n) => Known(table', Announced', n),
           \A e \in A : e[2].type = "ENEX_EVENT" => LeadsToState(table', e[2].state)
    PROVE  \A n \in DOMAIN table' : \A si \in Own(table', n) :
               si.type = "ENEX_EVENT" => Known(table', Announced', si.state)
<1> SUFFICES ASSUME NEW n \in DOMAIN table', NEW x \in Own(table', n), x.type = "ENEX_EVENT"
             PROVE  Known(table', Announced', x.state)
  OBVIOUS
<1>0. x \in InfoSet(table', n) /\ x.type \in EVENT
  BY DEF Own, EVENT
<1>1. (\E y \in InfoSet(table, n) : Like(x, y)) \/ (\E e \in A : e[1] = n /\ Like(x, e[2]))
  BY <1>0 DEF Grown
<1>2. ASSUME NEW y \in InfoSet(table, n), Like(x, y)
      PROVE  Known(table', Announced', x.state)
  <2>1. y.type = "ENEX_EVENT" /\ y.state = x.state /\ y \in Own(table, n)
    BY <1>0, <1>2 DEF Like, Own
  <2>2. n \in DOMAIN table
    BY <1>2, InfoSetIs
  <2>3. Known(table, Announced, x.state)
    BY <2>1, <2>2 DEF TargetsKnown
  <2> QED
    BY <2>3
<1>3. ASSUME NEW e \in A, Like(x, e[2])
      PROVE  Known(table', Announced', x.state)
  <2>1. e[2].type = "ENEX_EVENT" /\ e[2].state = x.state
    BY <1>0, <1>3 DEF Like
  <2>2. LeadsToState(table', x.state)
    BY <2>1
  <2> QED
    BY <2>2 DEF Known
<1> QED
  BY <1>1, <1>2, <1>3

LEMMA TargetsKept ==
    ASSUME Typed(table), TargetsKnown, NEW A, NEW L, Grown(table, table', A, L),
           \A n : Known(table, Announced, n) => Known(table', Announced', n), \A e \in A : e[2].type # "ENEX_EVENT",
           transitions_' = transitions_, at' # "action"
    PROVE  TargetsKnown'
<1>1. \A n \in DOMAIN table' : \A si \in Own(table', n) :
          si.type = "ENEX_EVENT" => Known(table', Announced', si.state)
  BY EnexKept
<1>2. \A i \in DOMAIN transitions_' : transitions_'[i].to # NIL => Known(table', Announced', transitions_'[i].to)
  <2>1. \A i \in DOMAIN transitions_ : transitions_[i].to # NIL => Known(table, Announced, transitions_[i].to)
    BY DEF TargetsKnown
  <2> QED
    BY <2>1
<1> QED
  BY <1>1, <1>2 DEF TargetsKnown

LEMMA QuietKnown ==
    ASSUME ParserInv, NEW A, Quiet(A)
    PROVE  \A n : Known(table, Announced, n) => Known(table', Announced', n)
<1>0. /\ Frame /\ SamePlace /\ Grown(table, table', A, {})
  BY DEF Quiet, Entering
<1>1. /\ at' = "children" <=> at = "children"
      /\ at = "children" => Header' = Header
  BY <1>0, QuietPlaces
<1>2. \A n : LeadsToState(table, n) => LeadsToState(table', n)
  BY <1>0, LeadsKept
<1> QED
  BY <1>1, <1>2 DEF Known, Announced

LEMMA QuietEnex ==
    ASSUME ParserInv, NEW A, Quiet(A), PlainText, ~ errors', TargetsKnown
    PROVE  \A n \in DOMAIN table' : \A si \in Own(table', n) :
               si.type = "ENEX_EVENT" => Known(table', Announced', si.state)
<1>1. Typed(table) /\ Grown(table, table', A, {})
  BY ListsTyped DEF Quiet, Entering
<1>2. \A e \in A : e[2].type = "ENEX_EVENT" => LeadsToState(table', e[2].state)
  BY DEF Quiet, Entering, EVENT
<1> QED
  BY <1>1, <1>2, QuietKnown, EnexKept

LEMMA ConcatElements ==
    ASSUME NEW S, NEW q \in Seq(S), NEW a \in Seq(S), NEW n \in Nat, Len(a) = n, NEW c, c = q \o a
    PROVE  \A i \in DOMAIN c : \/ i \in DOMAIN q /\ c[i] = q[i]
                               \/ \E j \in 1 .. n : c[i] = a[j]
<1>1. /\ c \in Seq(S) /\ Len(c) = Len(q) + Len(a)
      /\ \A i \in 1 .. Len(q) + Len(a) : c[i] = IF i <= Len(q) THEN q[i] ELSE a[i - Len(q)]
  BY ConcatProperties, Zenon
<1>2. Len(q) \in Nat /\ DOMAIN q = 1 .. Len(q) /\ DOMAIN c = 1 .. Len(q) + n
  BY <1>1, LenProperties
<1> DEFINE l == Len(q)
<1>3. /\ \A i \in 1 .. l + n : c[i] = IF i <= l THEN q[i] ELSE a[i - l]
  BY <1>1
<1> HIDE DEF l
<1>4. l \in Nat /\ DOMAIN q = 1 .. l /\ DOMAIN c = 1 .. l + n
  BY <1>2 DEF l
<1>5. ASSUME NEW i \in 1 .. l + n, ~ i <= l
      PROVE  \E j \in 1 .. n : c[i] = a[j]
  <2>1. i - l \in 1 .. n
    BY <1>4, <1>5
  <2> QED
    BY <1>3, <1>5, <2>1
<1> QED
  BY <1>3, <1>4, <1>5

LEMMA QuietTargets ==
    ASSUME ParserInv, TableInv, QuietStep \/ TransitionStep, PlainText, ~ errors', TargetsKnown
    PROVE  TargetsKnown'
<1>1. CASE QuietStep
  <2>1. PICK A : Quiet(A)
    BY <1>1 DEF QuietStep
  <2>2. \A n : Known(table, Announced, n) => Known(table', Announced', n)
    BY <2>1, QuietKnown
  <2>3. \A n \in DOMAIN table' : \A si \in Own(table', n) :
            si.type = "ENEX_EVENT" => Known(table', Announced', si.state)
    BY <2>1, QuietEnex
  <2>4. \A i \in DOMAIN transitions_' : transitions_'[i].to # NIL => Known(table', Announced', transitions_'[i].to)
    <3>1. \A i \in DOMAIN transitions_ : transitions_[i].to # NIL => Known(table, Announced, transitions_[i].to)
      BY DEF TargetsKnown
    <3>2. transitions_' = transitions_
      BY <1>1 DEF QuietStep, Steady
    <3> QED
      BY <2>2, <3>1, <3>2
  <2>5. ASSUME at' = "action"
        PROVE  LET item == stack'[Len(stack') - 1]
               IN  item.tag = "ptr" /\ (item.val # NIL => Known(table', Announced', item.val))
    <3>1. (at = "action" /\ stack' = stack) \/ TargetRead
      BY <1>1, <2>5 DEF QuietStep, Steady
    <3>2. CASE at = "action" /\ stack' = stack
      <4> DEFINE item == stack[Len(stack) - 1]
      <4>1. item.tag = "ptr" /\ (item.val # NIL => Known(table, Announced, item.val))
        BY <3>2 DEF TargetsKnown
      <4> HIDE DEF item
      <4>2. item.tag = "ptr" /\ (item.val # NIL => Known(table', Announced', item.val))
        BY <2>2, <4>1
      <4> QED
        BY <3>2, <4>2 DEF item
    <3>3. CASE TargetRead
      BY <3>3 DEF TargetRead, Known
    <3> QED
      BY <3>1, <3>2, <3>3
  <2> QED
    BY <2>3, <2>4, <2>5 DEF TargetsKnown
<1>2. CASE TransitionStep
  <2>1. PICK s, n : Adding(s, n)
    BY <1>2 DEF TransitionStep
  <2> DEFINE A == {}
             a == AddedTransitions(s)
             l == Len(transitions_)
  <2>2. Quiet(A) /\ at' = "transitions" /\ transitions_' = transitions_ \o a /\ Whole(s, n)
        /\ InDescribed
    BY <2>1 DEF Adding
  <2> HIDE DEF A
  <2>3. \A x : Known(table, Announced, x) => Known(table', Announced', x)
    BY <2>2, QuietKnown
  <2>4. \A x \in DOMAIN table' : \A si \in Own(table', x) :
            si.type = "ENEX_EVENT" => Known(table', Announced', si.state)
    BY <2>2, QuietEnex
  <2>5. s[Len(s) - 2].val = NIL \/ Known(table, Announced, s[Len(s) - 2].val)
    BY <2>1 DEF Adding, TargetsKnown
  <2>6. /\ scope \in Nat /\ n \in Nat /\ transitions_ \in Seq(Transitions)
    BY <2>2, ScopedOf, ListsTyped DEF InDescribed, Whole
  <2>7. /\ a \in Seq(Transitions) /\ Len(a) = n
        /\ \A i \in 1 .. n : a[i].to = s[Len(s) - 2].val
    BY <2>2, <2>6, TransitionsAdded
  <2> HIDE DEF a
  <2>8. \A i \in DOMAIN transitions_' : \/ i \in DOMAIN transitions_ /\ transitions_'[i] = transitions_[i]
                                        \/ \E j \in 1 .. n : transitions_'[i] = a[j]
    BY <2>2, <2>6, <2>7, ConcatElements
  <2>9. \A i \in DOMAIN transitions_' : transitions_'[i].to # NIL => Known(table', Announced', transitions_'[i].to)
    <3>1. \A i \in DOMAIN transitions_ : transitions_[i].to # NIL => Known(table, Announced, transitions_[i].to)
      BY DEF TargetsKnown
    <3>2. ASSUME NEW i \in DOMAIN transitions_', transitions_'[i].to # NIL
          PROVE  Known(table, Announced, transitions_'[i].to)
      BY <2>5, <2>7, <2>8, <3>1, <3>2
    <3> QED
      BY <2>3, <3>2
  <2> QED
    BY <2>2, <2>4, <2>9 DEF TargetsKnown
<1> QED
  BY <1>1, <1>2

LEMMA ChsmDescribedTargets ==
    ASSUME ParserInv, TableInv, NEW h, NEW si, ChsmDescribed(h, si)
    PROVE  TargetsKnown'
<1>1. /\ at = "chsm" /\ at' = "actions" /\ Onward /\ si.type = "CLUSTER"
      /\ \A n : \A x \in InfoSet(table', n) :
            (n = RootName /\ x = si) \/ (n = <<Machine>> /\ x = chsm_info)
  BY DEF ChsmDescribed
<1>2. transitions_' = <<>>
  BY <1>1 DEF TableInv, Untouched, Onward
<1>3. chsm_info.type = "CHSM"
  BY DEF chsm_info
<1>4. \A n : \A x \in Own(table', n) : x.type # "ENEX_EVENT"
  BY <1>1, <1>3 DEF Own
<1>5. DOMAIN transitions_' = {}
  BY <1>2
<1> QED
  BY <1>1, <1>4, <1>5 DEF TargetsKnown

LEMMA SameTargets ==
    ASSUME ParserInv, TableInv, TargetsKnown, BodyBegun \/ BodyEnded \/ StateEnded
    PROVE  TargetsKnown'
<1>1. Typed(table) /\ scope \in Nat
  BY ListsTyped, ScopedOf DEF BodyBegun, BodyEnded, StateEnded
<1> DEFINE A == {}
<1>2. /\ transitions_' = transitions_ /\ \A e \in A : e[2].type # "ENEX_EVENT"
      /\ at # "children" /\ at' # "children" /\ at' # "action"
  BY DEF BodyBegun, BodyEnded, StateEnded, Onward
<1>3. Grown(table, table', A, {})
  <2>1. CASE table' = table
    BY <1>1, <2>1, GrowsNot DEF Grows
  <2>2. CASE table' = close_scope(table, scope)
    BY <1>1, <2>2, GrownClose
  <2> QED
    BY <2>1, <2>2 DEF BodyBegun, BodyEnded, StateEnded
<1> HIDE DEF A
<1>4. \A n : LeadsToState(table, n) => LeadsToState(table', n)
  BY <1>3, LeadsKept
<1>5. \A n : Known(table, Announced, n) => Known(table', Announced', n)
  BY <1>2, <1>4 DEF Known, Announced
<1> QED
  BY <1>1, <1>2, <1>3, <1>5, TargetsKept

LEMMA StateDescribedTargets ==
    ASSUME ParserInv, NEW name, NEW si, StateDescribed(name, si), ~ errors', TargetsKnown
    PROVE  TargetsKnown'
<1> DEFINE A == {<<name, si>>}
<1>1. /\ at = "description" /\ at' = "actions" /\ Onward /\ si.type = "STATE"
      /\ Grown(table, table', A, {name}) /\ InfoSet(table', name) = {si}
  BY DEF StateDescribed
<1>2. \A e \in A : e[2].type # "ENEX_EVENT"
  BY <1>1
<1>3. LeadsToState(table', name)
  BY <1>1 DEF LeadsToState, Own, STATES
<1> HIDE DEF A
<1>4. \A n : LeadsToState(table, n) => LeadsToState(table', n)
  BY <1>1, <1>3, LeadsKept
<1>5. \A n : Known(table, Announced, n) => Known(table', Announced', n)
  BY <1>1, <1>4 DEF Known, Announced
<1>6. transitions_' = transitions_ /\ Typed(table)
  BY <1>1, ListsTyped DEF Onward
<1> QED
  BY <1>1, <1>2, <1>5, <1>6, TargetsKept

LEMMA ParentDescribedTargets ==
    ASSUME ParserInv, NEW name, ParentDescribed(name), TargetsKnown
    PROVE  TargetsKnown'
<1> DEFINE A == {}
<1>1. /\ at = "description" /\ at' = "children" /\ Onward /\ SameScopes
      /\ stack'[scope + 2] = Ptr(name) /\ Grown(table, table', A, {name})
  BY DEF ParentDescribed
<1>2. \A e \in A : e[2].type # "ENEX_EVENT"
  OBVIOUS
<1> HIDE DEF A
<1>3. Announced = {} /\ Announced' = {name}
  BY <1>1 DEF Announced, Header, SameScopes, Ptr
<1>4. \A n : LeadsToState(table, n) => LeadsToState(table', n) \/ n = name
  BY <1>1, LeadsKept
<1>5. \A n : Known(table, Announced, n) => Known(table', Announced', n)
  BY <1>3, <1>4 DEF Known
<1>6. transitions_' = transitions_ /\ Typed(table)
  BY <1>1, ListsTyped DEF Onward
<1> QED
  BY <1>1, <1>2, <1>5, <1>6, TargetsKept

LEMMA ParentDeclaredTargets ==
    ASSUME ParserInv, NEW h, NEW si, ParentDeclared(h, si), ~ errors', TargetsKnown
    PROVE  TargetsKnown'
<1> DEFINE A == {<<Header, si>>}
<1>1. /\ at = "children" /\ at' = "actions" /\ Onward /\ si.type = desc.type /\ desc.type \in PARENT
      /\ Grown(table, table', A, {}) /\ InfoSet(table', Header) = {si}
  BY DEF ParentDeclared
<1>2. \A e \in A : e[2].type # "ENEX_EVENT"
  BY <1>1 DEF PARENT
<1>3. LeadsToState(table', Header)
  BY <1>1 DEF LeadsToState, Own, STATES, PARENT
<1> HIDE DEF A
<1>4. \A n : LeadsToState(table, n) => LeadsToState(table', n)
  BY <1>1, LeadsKept
<1>5. \A n : Known(table, Announced, n) => Known(table', Announced', n)
  BY <1>1, <1>3, <1>4 DEF Known, Announced
<1>6. transitions_' = transitions_ /\ Typed(table)
  BY <1>1, ListsTyped DEF Onward
<1> QED
  BY <1>1, <1>2, <1>5, <1>6, TargetsKept

LEMMA TargetsStep ==
    ASSUME ParserInv, TableInv, ListsInv, Step, PlainText, Fine => TargetsKnown, Fine'
    PROVE  TargetsKnown'
<1>0. ~ errors' /\ (Fine => StatesListed /\ EventsListed)
  BY DEF Fine, ListsInv
<1>1. CASE QuietStep \/ TransitionStep
  <2>1. \E A : Quiet(A)
    BY <1>1 DEF QuietStep, TransitionStep, Adding
  <2>2. Fine
    BY <2>1, QuietFine
  <2> QED
    BY <1>0, <1>1, <2>2, QuietTargets
<1>2. CASE Stopped
  BY <1>2 DEF Stopped, Fine
<1>3. ASSUME NEW h \in budget.histories, NEW si, ChsmDescribed(h, si)
      PROVE  TargetsKnown'
  BY <1>3, ChsmDescribedTargets
<1>4. CASE BodyBegun \/ BodyEnded \/ StateEnded
  <2>1. Onward /\ at \notin {"chsm", "undefined", "children"}
    BY <1>4 DEF BodyBegun, BodyEnded, StateEnded
  <2>2. Fine
    BY <1>0, <2>1 DEF Fine, Onward
  <2> QED
    BY <1>4, <2>2, SameTargets
<1>5. ASSUME NEW id \in Identifiers, NEW si, StateDescribed(NameIn(sy_parent, id), si)
      PROVE  TargetsKnown'
  <2>1. Onward /\ at = "description"
    BY <1>5 DEF StateDescribed
  <2>2. Fine
    BY <1>0, <2>1 DEF Fine, Onward
  <2> QED
    BY <1>0, <1>5, <2>2, StateDescribedTargets
<1>6. ASSUME NEW id \in Identifiers, ParentDescribed(NameIn(sy_parent, id))
      PROVE  TargetsKnown'
  <2>1. Fine
    BY <1>0, <1>6, ParentDescribedLists
  <2> QED
    BY <1>6, <2>1, ParentDescribedTargets
<1>7. ASSUME NEW h \in budget.histories, NEW si, ParentDeclared(h, si)
      PROVE  TargetsKnown'
  <2>1. Fine
    BY <1>0, <1>7, ParentDeclaredLists
  <2> QED
    BY <1>0, <1>7, <2>1, ParentDeclaredTargets
<1>8. CASE UNCHANGED vars
  <2>1. Fine
    BY <1>8 DEF vars, Fine, Header
  <2> QED
    BY <1>8, <2>1 DEF vars, TargetsKnown, Announced, Header
<1> QED
  BY <1>1, <1>2, <1>3, <1>4, <1>5, <1>6, <1>7, <1>8 DEF Step

-----------------------------------------------------------------------------
(* The symbols that are pointed to stay alive. *)

\* What is pointed to: from the lists of states and events, the parents, the stack and the
\* transitions.
Held(S, E, p, o, q, T) ==
    ToSet(S) \cup ToSet(E) \cup {p, o} \cup {q[i].val : i \in {j \in DOMAIN q : q[j].tag = "ptr"}}
      \cup UNION {{t.from, t.to} : t \in ToSet(T)}

\* ... and that it is in the table, part by part.
Alive(D, S, E, p, o, q, T) ==
    /\ ToSet(S) \subseteq D \cup {NIL} /\ ToSet(E) \subseteq D \cup {NIL}
    /\ p \in D \cup {NIL} /\ o \in D \cup {NIL}
    /\ \A i \in DOMAIN q : q[i].tag = "ptr" => q[i].val \in D \cup {NIL}
    /\ \A i \in DOMAIN T : T[i].from \in D \cup {NIL} /\ T[i].to \in D \cup {NIL}

LEMMA AliveHeld ==
    ASSUME NEW D, NEW S, NEW E, NEW p, NEW o, NEW q, NEW T
    PROVE  Held(S, E, p, o, q, T) \ {NIL} \subseteq D <=> Alive(D, S, E, p, o, q, T)
<1> DEFINE W == D \cup {NIL}
           P == {q[i].val : i \in {j \in DOMAIN q : q[j].tag = "ptr"}}
           R == UNION {{t.from, t.to} : t \in ToSet(T)}
<1>1. P \subseteq W <=> \A i \in DOMAIN q : q[i].tag = "ptr" => q[i].val \in W
  OBVIOUS
<1>2. R \subseteq W <=> \A i \in DOMAIN T : T[i].from \in W /\ T[i].to \in W
  BY DEF ToSet
<1> HIDE DEF P, R
<1>3. ToSet(S) \cup ToSet(E) \cup {p, o} \cup P \cup R \subseteq W
         <=> /\ ToSet(S) \subseteq W /\ ToSet(E) \subseteq W /\ p \in W /\ o \in W
             /\ P \subseteq W /\ R \subseteq W
  OBVIOUS
<1>4. Held(S, E, p, o, q, T) = ToSet(S) \cup ToSet(E) \cup {p, o} \cup P \cup R
  BY DEF Held, P, R
<1>5. Held(S, E, p, o, q, T) \ {NIL} \subseteq D <=> Held(S, E, p, o, q, T) \subseteq W
  OBVIOUS
<1> QED
  BY <1>1, <1>2, <1>3, <1>4, <1>5 DEF Alive

AllAlive ==
    Alive(DOMAIN table, states_, events_, sy_parent, sy_outer_deep_, stack, transitions_)

LEMMA AliveIs == SymbolsAlive <=> (~ errors => AllAlive)
<1>1. SymbolsAlive <=>
         (~ errors => Held(states_, events_, sy_parent, sy_outer_deep_, stack, transitions_) \ {NIL}
                         \subseteq DOMAIN table)
  BY DEF SymbolsAlive, Held
<1> QED
  BY <1>1, AliveHeld DEF AllAlive

LEMMA AliveNext == SymbolsAlive' <=> (~ errors' => AllAlive')
<1>1. SymbolsAlive' <=>
         (~ errors' => Held(states_', events_', sy_parent', sy_outer_deep_', stack', transitions_')
                          \ {NIL} \subseteq DOMAIN table')
  BY DEF SymbolsAlive, Held
<1> QED
  BY <1>1, AliveHeld DEF AllAlive

\* A step that erases no symbol, and points to no others than those there are.
LEMMA AliveKept ==
    ASSUME AllAlive, DOMAIN table \subseteq DOMAIN table',
           ToSet(states_') \subseteq ToSet(states_) \cup DOMAIN table',
           ToSet(events_') \subseteq ToSet(events_) \cup DOMAIN table',
           sy_parent' \in {sy_parent, NIL} \cup DOMAIN table',
           sy_outer_deep_' \in {sy_outer_deep_, NIL} \cup DOMAIN table',
           PushedAlive,
           \A i \in DOMAIN transitions_' :
              \/ \E j \in DOMAIN transitions_ : transitions_'[i] = transitions_[j]
              \/ /\ transitions_'[i].from \in DOMAIN table \cup {NIL}
                 /\ transitions_'[i].to \in DOMAIN table \cup {NIL}
    PROVE  AllAlive'
<1> DEFINE W == DOMAIN table' \cup {NIL}
<1>1. /\ ToSet(states_) \subseteq W /\ ToSet(events_) \subseteq W
      /\ sy_parent \in W /\ sy_outer_deep_ \in W
      /\ \A i \in DOMAIN stack : stack[i].tag = "ptr" => stack[i].val \in W
      /\ \A i \in DOMAIN transitions_ : transitions_[i].from \in W /\ transitions_[i].to \in W
      /\ DOMAIN table \cup {NIL} \subseteq W
  BY DEF AllAlive, Alive
<1>2. ToSet(states_') \subseteq W /\ ToSet(events_') \subseteq W /\ sy_parent' \in W /\ sy_outer_deep_' \in W
  BY <1>1
<1>3. \A i \in DOMAIN stack' : stack'[i].tag = "ptr" => stack'[i].val \in W
  BY <1>1 DEF PushedAlive
<1>4. \A i \in DOMAIN transitions_' : transitions_'[i].from \in W /\ transitions_'[i].to \in W
  <2> HIDE DEF W
  <2>1. ASSUME NEW i \in DOMAIN transitions_'
        PROVE  transitions_'[i].from \in W /\ transitions_'[i].to \in W
    <3>1. CASE \E j \in DOMAIN transitions_ : transitions_'[i] = transitions_[j]
      BY <1>1, <3>1
    <3>2. CASE /\ transitions_'[i].from \in DOMAIN table \cup {NIL}
               /\ transitions_'[i].to \in DOMAIN table \cup {NIL}
      BY <1>1, <3>2
    <3> QED
      BY <3>1, <3>2
  <2> QED
    BY <2>1
<1> QED
  BY <1>2, <1>3, <1>4 DEF AllAlive, Alive

LEMMA QuietAlive ==
    ASSUME ParserInv, AllAlive, QuietStep \/ TransitionStep
    PROVE  AllAlive'
<1>1. PICK A : Quiet(A)
  BY DEF QuietStep, TransitionStep, Adding
<1>2. Frame /\ Entering(table', A, events_', ~ errors', PlainText) /\ PushedAlive
  BY <1>1 DEF Quiet, QuietStep, TransitionStep, Adding
<1>3. /\ DOMAIN table \subseteq DOMAIN table' /\ Typed(table')
      /\ sy_parent' = sy_parent /\ sy_outer_deep_' = sy_outer_deep_ /\ states_' = states_
  BY <1>2 DEF Frame, Entering
<1>4. ToSet(events_') \subseteq ToSet(events_) \cup DOMAIN table'
  <2>1. events_' = events_ \/ \E n \in Names : events_' = Append(events_, n) /\ HasEvent(table', n)
    BY <1>2 DEF Entering
  <2>2. ASSUME NEW n \in Names, events_' = Append(events_, n), HasEvent(table', n)
        PROVE  ToSet(events_') \subseteq ToSet(events_) \cup DOMAIN table'
    BY <1>3, <2>2, ListsTyped, StateInTable, AppendFacts
  <2> QED
    BY <2>1, <2>2
<1>5. \A i \in DOMAIN transitions_' :
         \/ \E j \in DOMAIN transitions_ : transitions_'[i] = transitions_[j]
         \/ /\ transitions_'[i].from \in DOMAIN table \cup {NIL}
            /\ transitions_'[i].to \in DOMAIN table \cup {NIL}
  <2>1. CASE QuietStep
    BY <2>1 DEF QuietStep, Steady
  <2>2. CASE TransitionStep
    <3>1. PICK s, n : Adding(s, n)
      BY <2>2 DEF TransitionStep
    <3> DEFINE a == AddedTransitions(s)
    <3>2. transitions_' = transitions_ \o a /\ Whole(s, n) /\ InDescribed
      BY <3>1 DEF Adding
    <3>3. /\ scope \in Nat /\ n \in Nat /\ transitions_ \in Seq(Transitions)
          /\ stack \in Seq(Items) /\ Len(stack) \in Nat /\ StackShape
      BY <3>2, ScopedOf, ListsTyped DEF InDescribed, Whole
    <3>4. /\ a \in Seq(Transitions) /\ Len(a) = n
          /\ \A i \in 1 .. n : a[i].from = stack[scope + 1].val /\ a[i].to = s[Len(s) - 2].val
      BY <3>2, <3>3, TransitionsAdded
    <3> HIDE DEF a
    <3>5. \A i \in DOMAIN transitions_' : \/ i \in DOMAIN transitions_ /\ transitions_'[i] = transitions_[i]
                                          \/ \E j \in 1 .. n : transitions_'[i] = a[j]
      BY <3>2, <3>3, <3>4, ConcatElements
    <3>6. stack[scope + 1].val \in DOMAIN table \cup {NIL}
      <4>1. Len(stack) > scope /\ NamePtr(stack[scope + 1])
        BY <3>2, <3>3 DEF StackShape
      <4>2. scope + 1 \in DOMAIN stack /\ stack[scope + 1].tag = "ptr"
        BY <3>3, <4>1, LenProperties DEF NamePtr
      <4> QED
        BY <4>2 DEF AllAlive, Alive
    <3>7. s[Len(s) - 2].val \in DOMAIN table \cup {NIL}
      <4>1. CASE s[Len(s) - 2].val = NIL
        BY <4>1
      <4>2. CASE at = "action" /\ s[Len(s) - 2] = stack[Len(stack) - 1]
        <5>1. s[Len(s) - 2].tag = "ptr"
          <6>1. Len(s) - 2 = scope + 3 + 2 * n /\ s[scope + 3 + 2 * n].tag = "ptr"
            BY <3>2, <3>3 DEF Whole
          <6> QED
            BY <6>1
        <5>2. Len(stack) - 1 \in DOMAIN stack
          <6>1. Len(stack) > 1
            <7>1. CASE written.targets
              <8>1. scope > 0 /\ \E m \in 0 .. Len(stack) : Len(stack) = scope + 4 + 2 * m
                BY <3>3, <4>2, <7>1 DEF StackShape
              <8> QED
                BY <3>3, <8>1
            <7>2. CASE ~ written.targets
              <8>1. scope > 0 /\ \E m \in 0 .. Len(stack) : Len(stack) = scope + 2 + 2 * m
                BY <3>3, <4>2, <7>2 DEF StackShape
              <8> QED
                BY <3>3, <8>1
            <7> QED
              BY <7>1, <7>2
          <6> QED
            BY <3>3, <6>1, LenProperties
        <5> QED
          BY <4>2, <5>1, <5>2 DEF AllAlive, Alive
      <4> QED
        BY <3>1, <4>1, <4>2 DEF Adding
    <3> QED
      BY <3>4, <3>5, <3>6, <3>7
  <2> QED
    BY <2>1, <2>2
<1> QED
  BY <1>2, <1>3, <1>4, <1>5, AliveKept

LEMMA ChsmDescribedAlive ==
    ASSUME ParserInv, TableInv, NEW h, NEW si, ChsmDescribed(h, si)
    PROVE  AllAlive'
<1>1. /\ at = "chsm" /\ Onward /\ states_' = states_ /\ sy_parent' = NIL
      /\ WroteHistory(RootName, h) /\ stack' = <<Ptr(RootName)>> /\ RootName \in DOMAIN table'
  BY DEF ChsmDescribed
<1>2. states_' = <<>> /\ events_' = <<>> /\ transitions_' = <<>> /\ sy_outer_deep_ = NIL
  BY <1>1 DEF TableInv, Untouched, Onward
<1>3. ToSet(states_') = {} /\ ToSet(events_') = {} /\ DOMAIN transitions_' = {}
  BY <1>2 DEF ToSet
<1>4. sy_outer_deep_' \in {NIL, RootName}
  BY <1>1, <1>2 DEF WroteHistory, Deepen
<1>5. \A i \in DOMAIN stack' : stack'[i].val = RootName
  BY <1>1 DEF Ptr
<1> QED
  BY <1>1, <1>3, <1>4, <1>5 DEF AllAlive, Alive

LEMMA PointerAlive ==
    ASSUME AllAlive, stack \in Seq(Items), NEW k \in 1 .. Len(stack), stack[k].tag = "ptr"
    PROVE  stack[k].val \in DOMAIN table \cup {NIL}
<1>1. k \in DOMAIN stack
  BY LenProperties
<1> QED
  BY <1>1 DEF AllAlive, Alive

LEMMA BodyBegunAlive ==
    ASSUME ParserInv, AllAlive, BodyBegun
    PROVE  AllAlive'
<1>1. /\ at = "is" /\ Onward /\ SameHistories /\ table' = table /\ states_' = states_
      /\ sy_parent' = Current
      /\ stack' \in Seq(Items) /\ Len(stack') = scope + 1
      /\ \A k \in 1 .. scope : stack'[k] = stack[k]
      /\ stack'[scope + 1] = Ptr(sy_parent)
  BY DEF BodyBegun
<1>2. /\ scope \in Nat /\ stack \in Seq(Items) /\ Len(stack) > scope /\ Len(stack) \in Nat
      /\ stack[scope + 1].tag = "ptr"
  BY <1>1, ScopedOf DEF StackShape, InDescribed, NamePtr
<1>3. sy_parent' \in {NIL} \cup DOMAIN table'
  <2>1. scope + 1 \in 1 .. Len(stack)
    BY <1>2
  <2> QED
    BY <1>1, <1>2, <2>1, PointerAlive DEF Current
<1>4. \A i \in DOMAIN stack' : stack'[i].tag = "ptr" => stack'[i].val \in DOMAIN table' \cup {NIL}
  <2>1. DOMAIN stack' = 1 .. scope + 1
    BY <1>1, LenProperties
  <2>2. ASSUME NEW i \in 1 .. scope, stack'[i].tag = "ptr"
        PROVE  stack'[i].val \in DOMAIN table' \cup {NIL}
    <3>1. i \in 1 .. Len(stack) /\ stack'[i] = stack[i]
      BY <1>1, <1>2
    <3> QED
      BY <1>1, <1>2, <2>2, <3>1, PointerAlive
  <2>3. stack'[scope + 1].val \in DOMAIN table' \cup {NIL}
    BY <1>1 DEF AllAlive, Alive, Ptr
  <2> QED
    BY <1>2, <2>1, <2>2, <2>3
<1> QED
  BY <1>1, <1>3, <1>4 DEF AllAlive, Alive, Onward, SameHistories

LEMMA StateEndedAlive ==
    ASSUME ParserInv, AllAlive, StateEnded
    PROVE  AllAlive'
<1>1. /\ at \in {"actions", "transitions"} /\ Onward /\ SameScopes /\ SameHistories
      /\ table' = table /\ states_' = states_
      /\ stack' \in Seq(Items) /\ Len(stack') = scope /\ Len(stack) = scope + 1
  BY DEF StateEnded
<1>2. scope \in Nat /\ stack \in Seq(Items)
  BY <1>1, ScopedOf
<1>3. PushedAlive
  <2>1. DOMAIN stack' = 1 .. scope /\ DOMAIN stack = 1 .. scope + 1
    BY <1>1, <1>2, LenProperties
  <2>2. \A i \in DOMAIN stack' : i \in DOMAIN stack /\ stack'[i] = stack[i]
    BY <1>1, <1>2, <2>1 DEF SameScopes
  <2> QED
    BY <2>2 DEF PushedAlive
<1> QED
  BY <1>1, <1>3, AliveKept DEF Onward, SameHistories, SameScopes

LEMMA PushAlive ==
    ASSUME scope \in Nat, stack \in Seq(Items), Len(stack) >= scope, stack' \in Seq(Items), SameScopes,
           \A i \in scope + 1 .. Len(stack') : stack'[i].val \in DOMAIN table' \cup {NIL}
    PROVE  PushedAlive
<1>1. DOMAIN stack' = 1 .. Len(stack') /\ DOMAIN stack = 1 .. Len(stack) /\ Len(stack) \in Nat
      /\ Len(stack') \in Nat
  BY LenProperties
<1>2. ASSUME NEW i \in DOMAIN stack', i <= scope
      PROVE  i \in DOMAIN stack /\ stack'[i] = stack[i]
  BY <1>1, <1>2 DEF SameScopes
<1>3. ASSUME NEW i \in DOMAIN stack', ~ i <= scope
      PROVE  stack'[i].val \in DOMAIN table' \cup {NIL}
  <2>1. i \in scope + 1 .. Len(stack')
    BY <1>1, <1>3
  <2> QED
    BY <2>1
<1> QED
  BY <1>2, <1>3 DEF PushedAlive

LEMMA StateDescribedAlive ==
    ASSUME ParserInv, ParserInv', AllAlive, NEW name \in Names, NEW si, StateDescribed(name, si), ~ errors'
    PROVE  AllAlive'
<1>1. /\ at = "description" /\ Onward /\ SameScopes /\ SameHistories
      /\ stack'[scope + 1] = Ptr(name) /\ Len(stack') = scope + 1
      /\ DOMAIN table \subseteq DOMAIN table' /\ name \in DOMAIN table'
      /\ states_' = Append(states_, name)
  BY DEF StateDescribed
<1>2. scope \in Nat /\ stack \in Seq(Items) /\ Len(stack) = scope
  BY <1>1, ScopedOf, InBody
<1>3. stack' \in Seq(Items)
  BY DEF ParserInv, ScopesNested, TypeOK
<1>4. PushedAlive
  <2>1. \A i \in scope + 1 .. Len(stack') : stack'[i].val \in DOMAIN table' \cup {NIL}
    BY <1>1, <1>2 DEF Ptr
  <2> QED
    BY <1>1, <1>2, <1>3, <2>1, PushAlive
<1>5. ToSet(states_') \subseteq ToSet(states_) \cup DOMAIN table'
  BY <1>1, ListsTyped, AppendFacts
<1> QED
  BY <1>1, <1>4, <1>5, AliveKept DEF Onward, SameHistories, SameScopes

LEMMA ParentDescribedAlive ==
    ASSUME ParserInv, ParserInv', AllAlive, NEW name \in Names, ParentDescribed(name)
    PROVE  AllAlive'
<1>1. /\ at = "description" /\ at' = "children" /\ Onward /\ SameScopes /\ SameHistories
      /\ stack' = stack \o <<Ptr(NIL), Ptr(name)>>
      /\ DOMAIN table \subseteq DOMAIN table' /\ name \in DOMAIN table'
      /\ states_' = states_ \/ states_' = Append(states_, name)
  BY DEF ParentDescribed
<1>2. scope \in Nat /\ stack \in Seq(Items) /\ Len(stack) = scope /\ Len(stack) \in Nat
  BY <1>1, ScopedOf, InBody
<1>3. /\ stack' \in Seq(Items) /\ Len(stack') = scope + 2
      /\ stack'[scope + 1] = Ptr(NIL) /\ stack'[scope + 2] = Ptr(name)
  <2>1. Ptr(NIL) \in Items /\ Ptr(name) \in Items
    BY ItemsTyped
  <2> QED
    BY <1>1, <1>2, <2>1, PushedTwo
<1>4. PushedAlive
  <2>1. \A i \in scope + 1 .. Len(stack') : stack'[i].val \in DOMAIN table' \cup {NIL}
    <3>1. \A i \in scope + 1 .. Len(stack') : i = scope + 1 \/ i = scope + 2
      BY <1>2, <1>3
    <3>2. stack'[scope + 1].val = NIL /\ stack'[scope + 2].val = name
      BY <1>3 DEF Ptr
    <3>3. name \in DOMAIN table'
      BY <1>1
    <3> QED
      BY <3>1, <3>2, <3>3
  <2>2. Len(stack) >= scope
    BY <1>2
  <2> QED
    BY <1>1, <1>2, <1>3, <2>1, <2>2, PushAlive
<1>5. ToSet(states_') \subseteq ToSet(states_) \cup DOMAIN table'
  <2>1. ToSet(Append(states_, name)) = ToSet(states_) \cup {name}
    BY ListsTyped, AppendFacts
  <2> QED
    BY <1>1, <2>1
<1> QED
  BY <1>1, <1>4, <1>5, AliveKept DEF Onward, SameHistories, SameScopes

LEMMA ParentDeclaredAlive ==
    ASSUME ParserInv, ParserInv', AllAlive, NEW h, NEW si, ParentDeclared(h, si)
    PROVE  AllAlive'
<1>1. /\ at = "children" /\ at' = "actions" /\ Onward /\ SameScopes /\ WroteHistory(Header, h)
      /\ states_' = states_ /\ stack'[scope + 1] = Ptr(Header)
      /\ Len(stack) = scope + 2 /\ DOMAIN table \subseteq DOMAIN table'
  BY DEF ParentDeclared
<1>2. /\ scope \in Nat /\ stack \in Seq(Items) /\ Len(stack) \in Nat /\ scope > 0
      /\ NamePtr(stack[scope + 2]) /\ Header = stack[scope + 2].val
  BY <1>1, ScopedOf DEF StackShape, Header
<1>3. Header \in DOMAIN table' \cup {NIL}
  <2>1. scope + 2 \in 1 .. Len(stack) /\ stack[scope + 2].tag = "ptr"
    BY <1>1, <1>2 DEF NamePtr
  <2> QED
    BY <1>1, <1>2, <2>1, PointerAlive
<1>4. stack' \in Seq(Items) /\ Len(stack') = scope + 1
  <2>1. at' # "undefined" /\ ParserInv'
    BY <1>1
  <2>2. StackShape' /\ TypeOK'
    BY <2>1 DEF ParserInv, ScopesNested
  <2>3. Len(stack') = scope' + 1
    BY <1>1, <2>2 DEF StackShape
  <2> QED
    BY <1>1, <2>2, <2>3 DEF TypeOK, SameScopes
<1>5. PushedAlive
  <2>1. \A i \in scope + 1 .. Len(stack') : i = scope + 1
    BY <1>2, <1>4
  <2>2. stack'[scope + 1].val = Header
    BY <1>1 DEF Ptr
  <2>3. \A i \in scope + 1 .. Len(stack') : stack'[i].val \in DOMAIN table' \cup {NIL}
    BY <1>3, <2>1, <2>2
  <2>4. Len(stack) >= scope
    BY <1>1, <1>2
  <2> QED
    BY <1>1, <1>2, <1>4, <2>3, <2>4, PushAlive
<1>6. sy_outer_deep_' \in {sy_outer_deep_, NIL} \cup DOMAIN table'
  BY <1>1, <1>3 DEF WroteHistory, Deepen
<1> QED
  BY <1>1, <1>5, <1>6, AliveKept DEF Onward, SameScopes

LEMMA BodyEndedAlive ==
    ASSUME ParserInv, TableInv, StatesListed, EventsListed, TransitionsOrdered, HistoriesDeep,
           TargetsKnown, BodyEnded
    PROVE  AllAlive'
<1> DEFINE W == DOMAIN table' \cup {NIL}
<1>1. /\ at = "description" /\ Onward /\ states_' = states_ /\ written' = written
      /\ sy_outer_deep_' \in {NIL, sy_outer_deep_}
      /\ table' = close_scope(table, scope) /\ scope > 0
      /\ stack' \in Seq(Items) /\ Len(stack') = scope - 1
      /\ \A k \in 1 .. scope - 1 : stack'[k] = stack[k]
      /\ scope = 1 => sy_parent' = NIL
      /\ scope # 1 => sy_parent' = OpenParents[scope - 1]
  BY DEF BodyEnded
<1>2. /\ scope \in Nat /\ Typed(table) /\ Inside
      /\ states_ \in Seq(Names) /\ events_ \in Seq(Names)
      /\ stack[1].val = NIL
  <2>1. Inside /\ scope \in Nat /\ StackShape
    BY <1>1, ScopedOf DEF Inside
  <2>2. stack[1].val = NIL
    BY <1>1, <2>1 DEF StackShape
  <2> QED
    BY <2>1, <2>2, ListsTyped
<1>3. \A n : Own(table, n) # {} => n \in DOMAIN table'
  BY <1>1, <1>2, GrownClose
<1>4. \A n \in AllStates : n \in W
  <2>1. \A n \in AllStates : HasState(table, n)
    BY <1>1 DEF StatesListed
  <2> QED
    BY <1>3, <2>1 DEF HasState
<1>5. ToSet(states_) \subseteq W
  BY <1>4 DEF AllStates
<1>6. ToSet(events_) \subseteq W
  <2>1. \A i \in DOMAIN events_ : HasEvent(table, events_[i])
    BY DEF EventsListed
  <2>2. \A i \in DOMAIN events_ : events_[i] \in W
    BY <1>3, <2>1 DEF HasEvent
  <2> HIDE DEF W
  <2> QED
    BY <2>2 DEF ToSet
<1>7. \A k \in 1 .. scope : OpenParents[k] \in W
  BY <1>2, <1>4 DEF StatesListed
<1>8. sy_parent' \in W
  <2>1. CASE scope = 1
    BY <1>1, <2>1
  <2>2. CASE scope # 1
    <3>1. scope - 1 \in 1 .. scope
      BY <1>1, <1>2, <2>2
    <3> QED
      BY <1>1, <1>7, <2>2, <3>1
  <2> QED
    BY <2>1, <2>2
<1>9. sy_outer_deep_' \in W
  <2>1. sy_outer_deep_ = NIL \/ sy_outer_deep_ \in written.deep
    BY DEF HistoriesDeep, Outermost
  <2>2. written.deep \subseteq AllStates
    BY DEF HistoriesDeep
  <2> QED
    BY <1>1, <1>4, <2>1, <2>2
<1>10. \A i \in DOMAIN stack' : stack'[i].val \in W
  <2> SUFFICES ASSUME NEW i \in DOMAIN stack'
               PROVE  stack'[i].val \in W
    OBVIOUS
  <2>1. i \in 1 .. scope - 1 /\ stack'[i] = stack[i]
    BY <1>1, LenProperties
  <2>2. CASE i = 1
    BY <1>2, <2>1, <2>2
  <2>3. CASE i # 1
    <3>1. i - 1 \in 1 .. scope /\ i - 1 < scope /\ i - 1 + 1 = i
      BY <1>2, <2>1, <2>3
    <3>2. OpenParents[i - 1] = stack[i].val
      BY <3>1 DEF OpenParents
    <3> QED
      BY <1>7, <2>1, <3>1, <3>2
  <2> QED
    BY <2>2, <2>3
<1>11. \A i \in DOMAIN transitions_ : transitions_[i].from \in W /\ transitions_[i].to \in W
  <2> SUFFICES ASSUME NEW i \in DOMAIN transitions_
               PROVE  transitions_[i].from \in W /\ transitions_[i].to \in W
    OBVIOUS
  <2>1. transitions_[i].from \in W
    BY <1>5 DEF TransitionsOrdered
  <2>2. transitions_[i].to # NIL => LeadsToState(table, transitions_[i].to)
    BY <1>1 DEF TargetsKnown, Known, Announced
  <2>3. transitions_[i].to # NIL => transitions_[i].to \in DOMAIN table'
    BY <1>3, <2>2 DEF LeadsToState
  <2> QED
    BY <2>1, <2>3
<1>12. events_' = events_ /\ transitions_' = transitions_
  BY <1>1 DEF Onward
<1> HIDE DEF W
<1>13. /\ ToSet(states_') \subseteq W /\ ToSet(events_') \subseteq W
       /\ \A i \in DOMAIN transitions_' : transitions_'[i].from \in W /\ transitions_'[i].to \in W
  BY <1>1, <1>5, <1>6, <1>11, <1>12
<1> QED
  BY <1>8, <1>9, <1>10, <1>13 DEF AllAlive, Alive, W

LEMMA AliveStep ==
    ASSUME ParserInv, ParserInv', TableInv, ListsInv, HistoryInv, Fine => TargetsKnown, SymbolsAlive, Step
    PROVE  SymbolsAlive'
<1> SUFFICES ASSUME ~ errors'
             PROVE  AllAlive'
  BY AliveNext
<1>0. ~ errors => AllAlive
  BY AliveIs
<1>1. CASE QuietStep \/ TransitionStep
  <2>1. PICK A : Quiet(A)
    BY <1>1 DEF QuietStep, TransitionStep, Adding
  <2>2. ~ errors
    BY <2>1 DEF Quiet, Frame
  <2> QED
    BY <1>0, <1>1, <2>2, QuietAlive
<1>2. CASE Stopped
  BY <1>0, <1>2 DEF Stopped, AllAlive, Alive
<1>3. ASSUME NEW h \in budget.histories, NEW si, ChsmDescribed(h, si)
      PROVE  AllAlive'
  BY <1>3, ChsmDescribedAlive
<1>4. CASE BodyBegun \/ StateEnded
  <2>1. ~ errors
    BY <1>4 DEF BodyBegun, StateEnded, Onward
  <2> QED
    BY <1>0, <1>4, <2>1, BodyBegunAlive, StateEndedAlive
<1>5. CASE BodyEnded
  <2>1. Onward /\ at = "description"
    BY <1>5 DEF BodyEnded
  <2>2. Fine
    BY <2>1 DEF Onward, Fine
  <2> QED
    BY <1>5, <2>2, BodyEndedAlive DEF ListsInv, HistoryInv
<1>6. ASSUME NEW id \in Identifiers, NEW si, StateDescribed(NameIn(sy_parent, id), si)
      PROVE  AllAlive'
  <2> DEFINE name == NameIn(sy_parent, id)
  <2>1. Onward /\ NewTable /\ name \in DOMAIN table'
    BY <1>6 DEF StateDescribed
  <2>2. ~ errors
    BY <2>1 DEF Onward
  <2>3. name \in Names
    BY <2>1 DEF NewTable, Typed
  <2> HIDE DEF name
  <2>4. StateDescribed(name, si)
    BY <1>6 DEF name
  <2> QED
    BY <1>0, <2>2, <2>3, <2>4, StateDescribedAlive
<1>7. ASSUME NEW id \in Identifiers, ParentDescribed(NameIn(sy_parent, id))
      PROVE  AllAlive'
  <2> DEFINE name == NameIn(sy_parent, id)
  <2>1. Onward /\ NewTable /\ name \in DOMAIN table'
    BY <1>7 DEF ParentDescribed
  <2>2. ~ errors
    BY <2>1 DEF Onward
  <2>3. name \in Names
    BY <2>1 DEF NewTable, Typed
  <2> HIDE DEF name
  <2>4. ParentDescribed(name)
    BY <1>7 DEF name
  <2> QED
    BY <1>0, <2>2, <2>3, <2>4, ParentDescribedAlive
<1>8. ASSUME NEW h \in budget.histories, NEW si, ParentDeclared(h, si)
      PROVE  AllAlive'
  <2>1. ~ errors
    BY <1>8 DEF ParentDeclared, Onward
  <2> QED
    BY <1>0, <1>8, <2>1, ParentDeclaredAlive
<1>9. CASE UNCHANGED vars
  BY <1>0, <1>9 DEF vars, AllAlive, Alive
<1> QED
  BY <1>1, <1>2, <1>3, <1>4, <1>5, <1>6, <1>7, <1>8, <1>9 DEF Step

\* What references there are does not change.
LEMMA SameRefs ==
    ASSUME Step
    PROVE  PlainText' <=> PlainText
<1>1. budget'.refs = budget.refs
  <2>1. ASSUME QuietStep \/ TransitionStep
        PROVE  budget'.refs = budget.refs
    <3>1. PICK A : Quiet(A)
      BY <2>1 DEF QuietStep, TransitionStep, Adding
    <3> QED
      BY <3>1 DEF Quiet, Frame
  <2>2. ASSUME NEW h \in budget.histories, NEW si, ChsmDescribed(h, si) \/ ParentDeclared(h, si)
        PROVE  budget'.refs = budget.refs
    BY <2>2 DEF ChsmDescribed, ParentDeclared, Onward
  <2>3. ASSUME NEW id \in Identifiers, NEW si, StateDescribed(NameIn(sy_parent, id), si)
        PROVE  budget'.refs = budget.refs
    BY <2>3 DEF StateDescribed, Onward
  <2>4. ASSUME NEW id \in Identifiers, ParentDescribed(NameIn(sy_parent, id))
        PROVE  budget'.refs = budget.refs
    BY <2>4 DEF ParentDescribed, Onward
  <2>5. CASE Stopped \/ UNCHANGED vars
    BY <2>5 DEF Stopped, vars
  <2>6. CASE BodyBegun \/ BodyEnded \/ StateEnded
    BY <2>6 DEF BodyBegun, BodyEnded, StateEnded, Onward
  <2> QED
    BY <2>1, <2>2, <2>3, <2>4, <2>5, <2>6 DEF Step
<1> QED
  BY <1>1 DEF PlainText

LEMMA PointersInit ==
    ASSUME Init
    PROVE  PointersInv
<1>1. ~ Fine
  BY DEF Init, Fine
<1>2. /\ table = <<>> /\ states_ = <<>> /\ events_ = <<>> /\ transitions_ = <<>> /\ stack = <<>>
      /\ sy_parent = NIL /\ sy_outer_deep_ = NIL
  BY DEF Init
<1>3. DOMAIN table = {} /\ DOMAIN stack = {} /\ DOMAIN transitions_ = {}
      /\ ToSet(states_) = {} /\ ToSet(events_) = {}
  BY <1>2 DEF ToSet
<1>4. AllAlive
  BY <1>2, <1>3 DEF AllAlive, Alive
<1> QED
  BY <1>1, <1>4, AliveIs DEF PointersInv

LEMMA PointersStep ==
    ASSUME ParserInv, ParserInv', TableInv, ListsInv, HistoryInv, PointersInv, Step
    PROVE  PointersInv'
<1> SUFFICES ASSUME PlainText
             PROVE  (Fine => TargetsKnown)' /\ SymbolsAlive'
  BY SameRefs DEF PointersInv
<1>1. (Fine => TargetsKnown) /\ SymbolsAlive
  BY DEF PointersInv
<1>2. Fine' => TargetsKnown'
  BY <1>1, TargetsStep
<1>3. SymbolsAlive'
  BY <1>1, AliveStep
<1> QED
  BY <1>2, <1>3

\* No symbol is erased while it is pointed to: the inductive invariant.
THEOREM PointersInvariant == Spec => [](ParserInv /\ TableInv /\ ListsInv /\ HistoryInv /\ PointersInv)
<1>1. Init => PointersInv
  BY PointersInit
<1>2. /\ ParserInv /\ TableInv /\ ListsInv /\ HistoryInv /\ ParserInv' /\ PointersInv /\ [Next]_vars
      => PointersInv'
  BY NextStep, PointersStep
<1> QED
  BY <1>1, <1>2, HistoryInvariant, PTL DEF Spec

\* In a description whose references have no leading periods, every pointer that is followed
\* leads to a symbol that is alive and has the info asked for, unless an error was reported.
THEOREM PointersFollowed == Spec => [](PlainText => PointersValid)
<1>1. TableInv /\ PointersInv => (PlainText => PointersValid)
  BY DEF PointersInv, TableInv, PointersValid
<1> QED
  BY PointersInvariant, <1>1, PTL

-----------------------------------------------------------------------------
(* What is left when code is generated. *)

\* At the end there is nothing to do but the checks.
LEMMA EndStep ==
    ASSUME ParserInv, at = "end", [Next]_vars
    PROVE  chsm \/ UNCHANGED vars
<1>0. ~ InBlock
  BY ScopedOf DEF StackShape, InBlock
<1>1. \A h \in budget.histories, d, p \in BOOLEAN : ~ chsm_description(h, d, p)
  BY DEF chsm_description
<1>2. ~ body_begin /\ ~ body_end /\ ~ spec_end /\ ~ transition_begin
  BY DEF body_begin, body_end, spec_end, transition_begin
<1>3. \A i \in budget.idents : ~ state_description(i)
  BY DEF state_description, Describe
<1>4. \A i \in budget.idents : ~ child(i)
  BY DEF child
<1>5. \A i \in budget.idents, t \in budget.parents : ~ parent_description(i, t)
  BY DEF parent_description, Describe
<1>6. \A h \in budget.histories : ~ parent_declared(h)
  BY DEF parent_declared
<1>7. \A k \in {"enter", "exit"} : ~ enter_exit_action(k)
  BY DEF enter_exit_action
<1>8. ~ NullChsm
  BY <1>0 DEF NullChsm
<1>9. \A e \in budget.events, b \in Bases, p \in {0, 1}, c \in budget.preconditions :
          ~ event_description(e, b, p, c)
  BY DEF event_description, Describe
<1>10. \A ev, c : ~ event_condition_spec(ev, c)
  BY DEF event_condition_spec
<1>11. ~ event_error /\ ~ target_function /\ ~ target_error
  BY DEF event_error, target_function, target_error
<1>12. \A r \in budget.refs : ~ target_state(r) /\ ~ embedded_state_name(r)
  BY <1>0 DEF target_state, embedded_state_name
<1>13. \A e \in budget.events : ~ embedded_event_name(e)
  BY <1>0 DEF embedded_event_name
<1>14. \A a \in BOOLEAN : ~ transition_external(a)
  BY DEF transition_external
<1>15. ~ transition_internal
  BY DEF transition_internal
<1>16. Finished => UNCHANGED vars
  BY DEF Finished
<1> QED
  BY <1>1, <1>2, <1>3, <1>4, <1>5, <1>6, <1>7, <1>8, <1>9, <1>10, <1>11, <1>12, <1>13, <1>14, <1>15,
     <1>16, Zenon DEF Next

LEMMA ChsmDefined ==
    ASSUME ParserInv, TableInv, chsm
    PROVE  EmittedDefined'
<1>0. /\ Typed(table) /\ at = "end" /\ InfosSound(table)
  BY InvFacts DEF chsm, TableInv
<1> SUFFICES ASSUME emitted'
             PROVE  \A n : \A x \in Own(table', n) : x.type # "GLOBAL"
  BY DEF EmittedDefined
<1>1. UndefinedStates = {} /\ table' = backpatch_enter_exit_events
  BY DEF chsm
<1>2. Grown(table, table', {}, {})
  BY <1>0, <1>1, BackpatchTable, SameGrown
<1>3. \A n : \A y \in InfoSet(table, n) : y.type # "GLOBAL"
  <2> SUFFICES ASSUME NEW n, NEW y \in InfoSet(table, n), y.type = "GLOBAL"
               PROVE  FALSE
    OBVIOUS
  <2>1. y \in Own(table, n)
    BY DEF Own
  <2>2. /\ info(table, n, 0) \in Own(table, n) /\ n \in DOMAIN table
        /\ info(table, n, 0).type = "GLOBAL"
    BY <1>0, <2>1, ClosedOwn
  <2>3. info(table, n, 0) # NIL
    <3>1. info(table, n, 0) \in AllInfos
      BY <1>0, <2>2, InfoSetIs DEF Own
    <3> QED
      BY <3>1, IdentAssumption
  <2>4. n \in UndefinedStates
    BY <2>2, <2>3 DEF UndefinedStates, type_of
  <2> QED
    BY <1>1, <2>4
<1> SUFFICES ASSUME NEW n, NEW x \in Own(table', n)
             PROVE  x.type # "GLOBAL"
  OBVIOUS
<1>4. PICK y \in InfoSet(table, n) : Like(x, y)
  BY <1>2 DEF Grown, Own
<1> QED
  BY <1>3, <1>4 DEF Like

LEMMA DefinedStep ==
    ASSUME ParserInv, TableInv, EmittedDefined, [Next]_vars
    PROVE  EmittedDefined'
<1>1. Step
  BY NextStep
<1>2. CASE emitted
  <2>1. at = "done"
    BY <1>2 DEF TableInv, EmittedFine
  <2>2. UNCHANGED vars
    <3>1. ~ QuietStep /\ ~ TransitionStep /\ ~ Stopped
      BY <2>1 DEF QuietStep, TransitionStep, Adding, Quiet, Frame, Stopped
    <3>2. \A h, si : ~ ChsmDescribed(h, si) /\ ~ ParentDeclared(h, si)
      BY <2>1 DEF ChsmDescribed, ParentDeclared
    <3>3. ~ BodyBegun /\ ~ BodyEnded /\ ~ StateEnded
      BY <2>1 DEF BodyBegun, BodyEnded, StateEnded
    <3>4. \A n, si : ~ StateDescribed(n, si) /\ ~ ParentDescribed(n)
      BY <2>1 DEF StateDescribed, ParentDescribed
    <3> QED
      BY <1>1, <3>1, <3>2, <3>3, <3>4, Zenon DEF Step
  <2> QED
    BY <2>2 DEF vars, EmittedDefined
<1>3. CASE ~ emitted /\ emitted'
  <2>1. at = "end"
    <3>1. ASSUME NEW A, Quiet(A)
          PROVE  at = "end"
      <4>1. Frame /\ SamePlace
        BY <3>1 DEF Quiet
      <4>2. at' = "done" /\ at # "done"
        BY <1>3, <4>1 DEF Frame
      <4> QED
        BY <4>1, <4>2 DEF SamePlace, InDescribed
    <3>2. QuietStep \/ TransitionStep
      <4>1. ~ Stopped /\ ~ UNCHANGED vars
        BY <1>3 DEF Stopped, vars
      <4>2. \A h, si : ~ ChsmDescribed(h, si) /\ ~ ParentDeclared(h, si)
        BY <1>3 DEF ChsmDescribed, ParentDeclared, Onward
      <4>3. ~ BodyBegun /\ ~ BodyEnded /\ ~ StateEnded
        BY <1>3 DEF BodyBegun, BodyEnded, StateEnded, Onward
      <4>4. \A n, si : ~ StateDescribed(n, si) /\ ~ ParentDescribed(n)
        BY <1>3 DEF StateDescribed, ParentDescribed, Onward
      <4> QED
        BY <1>1, <4>1, <4>2, <4>3, <4>4, Zenon DEF Step
    <3> QED
      BY <3>1, <3>2 DEF QuietStep, TransitionStep, Adding
  <2>2. chsm
    BY <1>3, <2>1, EndStep DEF vars
  <2> QED
    BY <2>2, ChsmDefined
<1>4. CASE ~ emitted'
  BY <1>4 DEF EmittedDefined
<1> QED
  BY <1>2, <1>3, <1>4

\* The invariants hold for every description, of any size.
THEOREM CompilerInvariant == Spec => []CompilerInv
<1>1. Init => EmittedDefined
  BY DEF Init, EmittedDefined
<1>2. ParserInv /\ TableInv /\ EmittedDefined /\ [Next]_vars => EmittedDefined'
  BY DefinedStep
<1>3. CompilerInv <=>
         ParserInv /\ TableInv /\ ListsInv /\ HistoryInv /\ PointersInv /\ EmittedDefined
  BY DEF CompilerInv
<1> QED
  BY <1>1, <1>2, <1>3, PointersInvariant, PTL DEF Spec

LEMMA StateKnown ==
    ASSUME CompilerInv, emitted, NEW n, Known(table, Announced, n)
    PROVE  n \in ToSet(states_) \cup {RootName}
<1>1. ParserInv /\ TableInv /\ ListsInv /\ EmittedDefined
  BY DEF CompilerInv
<1>2. Fine /\ at = "done"
  BY <1>1, EmittedOwn
<1>3. LeadsToState(table, n)
  BY <1>2 DEF Known, Announced
<1>4. PICK si \in Own(table, n) : si.type \in STATES \cup {"GLOBAL"}
  BY <1>3 DEF LeadsToState
<1>5. n \in DOMAIN table
  BY <1>1, <1>4, EmittedOwn
<1>6. HasState(table, n)
  BY <1>1, <1>4, <1>5 DEF EmittedDefined, HasState
<1> QED
  BY <1>1, <1>2, <1>5, <1>6 DEF ListsInv, StatesListed, AllStates

LEMMA TargetsGiven ==
    ASSUME CompilerInv, PlainText
    PROVE  TargetsAreStates
<1> DEFINE ends   == UNION {{t.from, t.to} : t \in ToSet(transitions_)}
           states == {info(table, e, 0).state : e \in ToSet(events_)}
<1> SUFFICES ASSUME emitted
             PROVE  (ends \cup states) \ {NIL} \subseteq ToSet(states_) \cup {RootName}
  BY DEF TargetsAreStates
<1>1. ParserInv /\ TableInv /\ ListsInv /\ PointersInv
  BY DEF CompilerInv
<1>2. Fine
  BY <1>1, EmittedOwn
<1>3. TargetsKnown /\ TransitionsOrdered
  BY <1>1, <1>2 DEF PointersInv, ListsInv
<1>4. ASSUME NEW t \in ToSet(transitions_)
      PROVE  t.from \in ToSet(states_) /\ (t.to # NIL => t.to \in ToSet(states_) \cup {RootName})
  <2>1. PICK i \in DOMAIN transitions_ : t = transitions_[i]
    BY DEF ToSet
  <2>2. t.from \in ToSet(states_)
    BY <1>3, <2>1 DEF TransitionsOrdered
  <2>3. t.to # NIL => Known(table, Announced, t.to)
    BY <1>3, <2>1 DEF TargetsKnown
  <2> QED
    BY <2>2, <2>3, StateKnown
<1>5. ASSUME NEW e \in ToSet(events_)
      PROVE  info(table, e, 0).state \in ToSet(states_) \cup {RootName, NIL}
  <2>1. /\ info(table, e, 0) \in Own(table, e) /\ e \in DOMAIN table
        /\ info(table, e, 0).type \in EVENT
    BY <1>1, EventEmitted
  <2>2. CASE info(table, e, 0).type = "ENEX_EVENT"
    <3>1. Known(table, Announced, info(table, e, 0).state)
      BY <1>3, <2>1, <2>2 DEF TargetsKnown
    <3> QED
      BY <3>1, StateKnown
  <2>3. CASE info(table, e, 0).type = "USER_EVENT"
    <3>1. NameFits(e, info(table, e, 0))
      BY <1>1, <2>1 DEF TableInv, InfosSound, Own
    <3> QED
      BY <2>3, <3>1 DEF NameFits
  <2> QED
    BY <2>1, <2>2, <2>3 DEF EVENT
<1>6. ends \subseteq ToSet(states_) \cup {RootName, NIL}
  BY <1>4
<1>7. states \subseteq ToSet(states_) \cup {RootName, NIL}
  BY <1>5
<1> HIDE DEF ends, states
<1> QED
  BY <1>6, <1>7

\* In a description whose references have no leading periods, the transitions that code is
\* generated for lead from states to states, and the enter and exit events are those of states.
THEOREM TargetsDefined == Spec => [](PlainText => TargetsAreStates)
<1>1. CompilerInv => (PlainText => TargetsAreStates)
  BY TargetsGiven
<1> QED
  BY CompilerInvariant, <1>1, PTL
=================================================================================
