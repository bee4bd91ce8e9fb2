------------------------- MODULE OstreamIndentProofs -------------------------
(***************************************************************************)
(* Proof that every indentation object is owned by one stream, and that    *)
(* the pointers implement values, for any number of streams and objects.   *)
(***************************************************************************)
EXTENDS OstreamIndent, TLAPS

-----------------------------------------------------------------------------
(* The parts of the memory: slots p, registrations c and the heap h.       *)

\* OwnedOnce of any memory.
Owned(p, c, h) ==
    /\ DOMAIN p \subseteq Streams
    /\ p \in [DOMAIN p -> Objects \cup {NullPtr}]
    /\ c \in [DOMAIN p -> Nat]
    /\ DOMAIN h \subseteq Objects /\ h \in [DOMAIN h -> Settings]
    /\ \A o : o \in DOMAIN h <=> o # NullPtr /\ \E s \in DOMAIN p : p[s] = o
    /\ \A s, t \in DOMAIN p : s # t /\ p[s] # NullPtr => p[s] # p[t]
    /\ \A s \in DOMAIN p : c[s] = IF p[s] = NullPtr THEN 0 ELSE 1

ValuesOf(p, h) == [s \in DOMAIN p |-> IF p[s] = NullPtr THEN ostream_indent ELSE h[p[s]]]

\* From slots p, registrations c and heap h to q, d and g: stream s gets object
\* o holding v, loses its object, or writes v to the one it has.
Allocates(s, o, v, p, c, h, q, d, g) ==
    q = [p EXCEPT ![s] = o] /\ d = [c EXCEPT ![s] = 1] /\ g = With(o, v, h)

Erases(s, p, c, h, q, d, g) ==
    q = [p EXCEPT ![s] = NullPtr] /\ d = [c EXCEPT ![s] = 0] /\ g = Without(p[s], h)

Writes(s, v, p, h, g) == g = [h EXCEPT ![p[s]] = v]

\* All that changes in the values is that of s, to v.
ValueSet(s, v, p, h, q, g) == ValuesOf(q, g) = [ValuesOf(p, h) EXCEPT ![s] = v]

LEMMA DefaultSettings == ostream_indent \in Settings
  BY ObjectsAssumption DEF ostream_indent, Settings

\* A stream with an empty slot gets an object of its own.
LEMMA AllocateOwned ==
    ASSUME NEW p, NEW c, NEW h, Owned(p, c, h), NEW s \in DOMAIN p, p[s] = NullPtr,
           NEW o \in Objects \ DOMAIN h, NEW v \in Settings,
           NEW q, NEW d, NEW g, Allocates(s, o, v, p, c, h, q, d, g)
    PROVE  Owned(q, d, g) /\ ValueSet(s, v, p, h, q, g)
<1> USE DEF Allocates, ValueSet
<1>1. /\ DOMAIN q = DOMAIN p /\ q[s] = o /\ \A t \in DOMAIN p : t # s => q[t] = p[t]
      /\ q \in [DOMAIN p -> Objects \cup {NullPtr}]
  BY DEF Owned
<1>2. d \in [DOMAIN p -> Nat] /\ d[s] = 1 /\ \A t \in DOMAIN p : t # s => d[t] = c[t]
  BY DEF Owned
<1>3. /\ DOMAIN g = DOMAIN h \cup {o} /\ g[o] = v /\ \A x \in DOMAIN h : g[x] = h[x]
      /\ g \in [DOMAIN h \cup {o} -> Settings]
  BY DEF With, Owned
<1>4. o # NullPtr /\ \A t \in DOMAIN p : p[t] # o
  BY ObjectsAssumption DEF Owned
<1>5. \A x : x \in DOMAIN g <=> x # NullPtr /\ \E t \in DOMAIN q : q[t] = x
  BY <1>1, <1>3, <1>4 DEF Owned
<1>6. \A t, u \in DOMAIN q : t # u /\ q[t] # NullPtr => q[t] # q[u]
  BY <1>1, <1>4 DEF Owned
<1>7. \A t \in DOMAIN q : d[t] = IF q[t] = NullPtr THEN 0 ELSE 1
  BY <1>1, <1>2, <1>4 DEF Owned
<1>8. Owned(q, d, g)
  BY <1>1, <1>2, <1>3, <1>5, <1>6, <1>7 DEF Owned
<1>9. ValuesOf(q, g) = [ValuesOf(p, h) EXCEPT ![s] = v]
  <2>1. ASSUME NEW t \in DOMAIN p, t # s
        PROVE  ValuesOf(q, g)[t] = ValuesOf(p, h)[t]
    <3>1. p[t] # NullPtr => p[t] \in DOMAIN h
      BY DEF Owned
    <3> QED
      BY <1>1, <1>3, <2>1, <3>1 DEF ValuesOf
  <2>2. ValuesOf(q, g)[s] = v
    BY <1>1, <1>3, <1>4 DEF ValuesOf
  <2> QED
    BY <1>1, <2>1, <2>2 DEF ValuesOf
<1> QED
  BY <1>8, <1>9

\* The object of one stream is written.
LEMMA WriteOwned ==
    ASSUME NEW p, NEW c, NEW h, Owned(p, c, h), NEW s \in DOMAIN p, p[s] # NullPtr,
           NEW v \in Settings,
           NEW g, Writes(s, v, p, h, g)
    PROVE  Owned(p, c, g) /\ ValueSet(s, v, p, h, p, g)
<1> USE DEF Writes, ValueSet
<1>1. p[s] \in DOMAIN h
  BY DEF Owned
<1>2. /\ DOMAIN g = DOMAIN h /\ g[p[s]] = v /\ \A x \in DOMAIN h : x # p[s] => g[x] = h[x]
      /\ g \in [DOMAIN h -> Settings]
  BY <1>1 DEF Owned
<1>3. Owned(p, c, g)
  BY <1>2 DEF Owned
<1>4. ASSUME NEW t \in DOMAIN p, t # s
      PROVE  ValuesOf(p, g)[t] = ValuesOf(p, h)[t]
  <2>1. p[t] # NullPtr => p[t] \in DOMAIN h /\ p[t] # p[s]
    BY <1>4 DEF Owned
  <2> QED
    BY <1>2, <2>1 DEF ValuesOf
<1>5. ValuesOf(p, g)[s] = v
  BY <1>2 DEF ValuesOf
<1>6. ValuesOf(p, g) = [ValuesOf(p, h) EXCEPT ![s] = v]
  BY <1>4, <1>5 DEF ValuesOf
<1> QED
  BY <1>3, <1>6

\* The object of one stream goes.
LEMMA EraseOwned ==
    ASSUME NEW p, NEW c, NEW h, Owned(p, c, h), NEW s \in DOMAIN p, p[s] # NullPtr,
           NEW q, NEW d, NEW g, Erases(s, p, c, h, q, d, g)
    PROVE  Owned(q, d, g) /\ ValueSet(s, ostream_indent, p, h, q, g)
<1> USE DEF Erases, ValueSet
<1>1. /\ DOMAIN q = DOMAIN p /\ q[s] = NullPtr /\ \A t \in DOMAIN p : t # s => q[t] = p[t]
      /\ q \in [DOMAIN p -> Objects \cup {NullPtr}]
  BY DEF Owned
<1>2. d \in [DOMAIN p -> Nat] /\ d[s] = 0 /\ \A t \in DOMAIN p : t # s => d[t] = c[t]
  BY DEF Owned
<1>3. /\ DOMAIN g = DOMAIN h \ {p[s]} /\ \A x \in DOMAIN h : x # p[s] => g[x] = h[x]
      /\ g \in [DOMAIN h \ {p[s]} -> Settings]
  BY DEF Without, Owned
<1>4. \A t \in DOMAIN p : t # s => p[t] # p[s]
  BY DEF Owned
<1>5. \A x : x \in DOMAIN g <=> x # NullPtr /\ \E t \in DOMAIN q : q[t] = x
  BY <1>1, <1>3, <1>4 DEF Owned
<1>6. \A t, u \in DOMAIN q : t # u /\ q[t] # NullPtr => q[t] # q[u]
  BY <1>1 DEF Owned
<1>7. \A t \in DOMAIN q : d[t] = IF q[t] = NullPtr THEN 0 ELSE 1
  BY <1>1, <1>2 DEF Owned
<1>8. Owned(q, d, g)
  BY <1>1, <1>2, <1>3, <1>5, <1>6, <1>7 DEF Owned
<1>9. ValuesOf(q, g) = [ValuesOf(p, h) EXCEPT ![s] = ostream_indent]
  <2>1. ASSUME NEW t \in DOMAIN p, t # s
        PROVE  ValuesOf(q, g)[t] = ValuesOf(p, h)[t]
    <3>1. p[t] # NullPtr => p[t] \in DOMAIN h /\ p[t] # p[s]
      BY <1>4, <2>1 DEF Owned
    <3> QED
      BY <1>1, <1>3, <2>1, <3>1 DEF ValuesOf
  <2>2. ValuesOf(q, g)[s] = ostream_indent
    BY <1>1 DEF ValuesOf
  <2> QED
    BY <1>1, <2>1, <2>2 DEF ValuesOf
<1> QED
  BY <1>8, <1>9

\* A stream is opened with an empty slot, and is closed with one.
LEMMA OpenOwned ==
    ASSUME NEW p, NEW c, NEW h, Owned(p, c, h), NEW s \in Streams \ DOMAIN p,
           NEW q, q = With(s, NullPtr, p),
           NEW d, d = With(s, 0, c)
    PROVE  Owned(q, d, h) /\ ValuesOf(q, h) = With(s, ostream_indent, ValuesOf(p, h))
<1>0. DOMAIN c = DOMAIN p
  BY DEF Owned
<1>1. /\ DOMAIN q = DOMAIN p \cup {s} /\ q[s] = NullPtr /\ \A t \in DOMAIN p : q[t] = p[t]
      /\ q \in [DOMAIN p \cup {s} -> Objects \cup {NullPtr}]
  BY DEF Owned, With
<1>2. d \in [DOMAIN p \cup {s} -> Nat] /\ d[s] = 0 /\ \A t \in DOMAIN p : d[t] = c[t]
  BY <1>0 DEF Owned, With
<1>3. \A x : x \in DOMAIN h <=> x # NullPtr /\ \E t \in DOMAIN q : q[t] = x
  BY <1>1 DEF Owned
<1>4. \A t, u \in DOMAIN q : t # u /\ q[t] # NullPtr => q[t] # q[u]
  BY <1>1 DEF Owned
<1>5. \A t \in DOMAIN q : d[t] = IF q[t] = NullPtr THEN 0 ELSE 1
  BY <1>1, <1>2 DEF Owned
<1>6. Owned(q, d, h)
  BY <1>1, <1>2, <1>3, <1>4, <1>5 DEF Owned
<1>7. ValuesOf(q, h) = With(s, ostream_indent, ValuesOf(p, h))
  BY <1>1 DEF ValuesOf, With
<1> QED
  BY <1>6, <1>7

LEMMA CloseOwned ==
    ASSUME NEW p, NEW c, NEW h, Owned(p, c, h), NEW s \in DOMAIN p, p[s] = NullPtr,
           NEW q, q = Without(s, p),
           NEW d, d = Without(s, c)
    PROVE  Owned(q, d, h) /\ ValuesOf(q, h) = Without(s, ValuesOf(p, h))
<1>0. DOMAIN c = DOMAIN p
  BY DEF Owned
<1>1. /\ DOMAIN q = DOMAIN p \ {s} /\ \A t \in DOMAIN p \ {s} : q[t] = p[t]
      /\ q \in [DOMAIN p \ {s} -> Objects \cup {NullPtr}]
  BY DEF Owned, Without
<1>2. d \in [DOMAIN p \ {s} -> Nat] /\ \A t \in DOMAIN p \ {s} : d[t] = c[t]
  BY <1>0 DEF Owned, Without
<1>3. \A x : x \in DOMAIN h <=> x # NullPtr /\ \E t \in DOMAIN q : q[t] = x
  BY <1>1 DEF Owned
<1>4. \A t, u \in DOMAIN q : t # u /\ q[t] # NullPtr => q[t] # q[u]
  BY <1>1 DEF Owned
<1>5. \A t \in DOMAIN q : d[t] = IF q[t] = NullPtr THEN 0 ELSE 1
  BY <1>1, <1>2 DEF Owned
<1>6. Owned(q, d, h)
  BY <1>1, <1>2, <1>3, <1>4, <1>5 DEF Owned
<1>7. ValuesOf(q, h) = Without(s, ValuesOf(p, h))
  BY <1>1 DEF ValuesOf, Without
<1> QED
  BY <1>6, <1>7

-----------------------------------------------------------------------------
(* The invariant and the mapping in those terms.                           *)

Printed == fill \in [Open -> Chars] /\ emitted \in Chars \X Nat

LEMMA OwnedOnceMeans == OwnedOnce <=> Owned(pword, callbacks, heap) /\ Printed
<1>1. (\A o : o \in DOMAIN heap <=> o # NullPtr /\ \E s \in DOMAIN pword : pword[s] = o)
          <=> DOMAIN heap = {pword[s] : s \in DOMAIN pword} \ {NullPtr}
  OBVIOUS
<1> QED
  BY <1>1 DEF OwnedOnce, TypeOK, Owned, Printed, Open

LEMMA IndentationMeans ==
    Indentation = ValuesOf(pword, heap) /\ Indentation' = ValuesOf(pword', heap')
  BY DEF Indentation, ValuesOf, Open

\* instance() finds the object of the stream or makes one.
LEMMA InstanceOwned ==
    ASSUME OwnedOnce, NEW s, CanUse(s)
    PROVE  LET mem == instance(Memory, s)
           IN  /\ mem = [pword |-> mem.pword, callbacks |-> mem.callbacks, heap |-> mem.heap]
               /\ Owned(mem.pword, mem.callbacks, mem.heap)
               /\ DOMAIN mem.pword = Open /\ mem.pword[s] # NullPtr
               /\ ValuesOf(mem.pword, mem.heap) = Indentation
               /\ mem.heap[mem.pword[s]] = Indentation[s] /\ Indentation[s] \in Settings
<1> DEFINE mem == instance(Memory, s)
<1>1. s \in Open /\ Owned(pword, callbacks, heap) /\ DOMAIN pword = Open
  BY OwnedOnceMeans DEF CanUse, Open
<1>2. CASE pword[s] # NullPtr
  <2>1. mem = Memory
    BY <1>2 DEF instance, Memory
  <2>2. pword[s] \in DOMAIN heap /\ heap[pword[s]] \in Settings
    BY <1>1, <1>2 DEF Owned
  <2> QED
    BY <1>1, <1>2, <2>1, <2>2, IndentationMeans DEF Memory, ValuesOf
<1>3. CASE pword[s] = NullPtr
  <2> DEFINE o == New(Memory)
  <2>1. o \in Objects \ DOMAIN heap
    BY DEF New, Free, CanUse, Memory
  <2> HIDE DEF o
  <2> DEFINE p == [pword EXCEPT ![s] = o]
             c == [callbacks EXCEPT ![s] = 1]
             h == With(o, ostream_indent, heap)
  <2>2. callbacks[s] = 0 /\ callbacks \in [Open -> Nat]
    BY <1>1, <1>3 DEF Owned
  <2>3. mem = [pword |-> p, callbacks |-> c, heap |-> h]
    <3>1. Allocate(Memory, s, ostream_indent) = [pword |-> p, callbacks |-> callbacks, heap |-> h]
      BY DEF Allocate, Memory, o
    <3>2. mem = [Allocate(Memory, s, ostream_indent) EXCEPT !.callbacks[s] = @ + 1]
      BY <1>3 DEF instance, Memory
    <3>3. [callbacks EXCEPT ![s] = callbacks[s] + 1] = c
      BY <2>2
    <3> QED
      BY <3>1, <3>2, <3>3
  <2>m. Allocates(s, o, ostream_indent, pword, callbacks, heap, p, c, h)
    BY DEF Allocates
  <2>8. mem.pword = p /\ mem.callbacks = c /\ mem.heap = h
    BY <2>3
  <2> HIDE DEF mem, p, c, h
  <2>4. Owned(p, c, h) /\ ValueSet(s, ostream_indent, pword, heap, p, h)
    BY <2>m, <1>1, <1>3, <2>1, DefaultSettings, AllocateOwned
  <2>5. ValuesOf(pword, heap)[s] = ostream_indent
    BY <1>1, <1>3 DEF ValuesOf
  <2>6. ValuesOf(p, h) = Indentation
    BY <1>1, <2>4, <2>5, IndentationMeans DEF ValuesOf, ValueSet
  <2>7. DOMAIN p = Open /\ p[s] = o /\ o # NullPtr /\ h[o] = ostream_indent
    BY <1>1, <2>1, <2>m, ObjectsAssumption DEF Allocates, With
  <2> QED
    BY <2>3, <2>4, <2>5, <2>6, <2>7, <2>8, IndentationMeans, DefaultSettings DEF mem
<1> QED
  BY <1>2, <1>3

\* A manipulator that writes v to the object of its stream.
LEMMA UseOwned ==
    ASSUME OwnedOnce, NEW s, CanUse(s), NEW v \in Settings, Becomes(Use(s, v))
    PROVE  /\ Owned(pword', callbacks', heap') /\ DOMAIN pword' = Open
           /\ Indentation' = [Indentation EXCEPT ![s] = v]
<1> DEFINE mem == instance(Memory, s)
           p == mem.pword
           c == mem.callbacks
           h == mem.heap
<1>1. /\ mem = [pword |-> p, callbacks |-> c, heap |-> h]
      /\ Owned(p, c, h) /\ DOMAIN p = Open /\ p[s] # NullPtr
      /\ ValuesOf(p, h) = Indentation
  BY InstanceOwned
<1>2. Use(s, v) = [mem EXCEPT !.heap[mem.pword[s]] = v]
  BY DEF Use
<1> HIDE DEF mem
<1>3. Use(s, v) = [pword |-> p, callbacks |-> c, heap |-> [h EXCEPT ![p[s]] = v]]
  BY <1>1, <1>2
<1>4. pword' = p /\ callbacks' = c /\ heap' = [h EXCEPT ![p[s]] = v]
  BY <1>3 DEF Becomes
<1> HIDE DEF p, c, h
<1>5. s \in DOMAIN p
  BY <1>1 DEF CanUse
<1> QED
  <2>1. Writes(s, v, p, h, heap')
    BY <1>4 DEF Writes
  <2>2. Owned(p, c, heap') /\ ValueSet(s, v, p, h, p, heap')
    BY <1>1, <1>5, <2>1, WriteOwned
  <2> QED
    BY <1>1, <1>4, <2>2, IndentationMeans DEF ValueSet

\* What is found in the object.
LEMMA FoundIs ==
    ASSUME OwnedOnce, NEW s, CanUse(s)
    PROVE  Found(s) = Indentation[s] /\ Found(s) \in Settings
  BY InstanceOwned DEF Found

LEMMA OwnedOnceNext ==
    OwnedOnce' <=> Owned(pword', callbacks', heap') /\ Printed'
<1>1. OwnedOnce' <=> (Owned(pword, callbacks, heap) /\ Printed)'
  BY OwnedOnceMeans, PTL
<1>2. Owned(pword, callbacks, heap)' <=> Owned(pword', callbacks', heap')
  BY DEF Owned
<1> QED
  BY <1>1, <1>2

\* The instance of the abstract specification in terms of this module.
LEMMA ValuesMeans ==
    ASSUME OwnedOnce
    PROVE  /\ Values!Open = Open /\ Values!Settings = Settings
           /\ Values!Default = ostream_indent
           /\ \A s \in Open : Indentation[s] \in Settings
<1>1. \A s \in Open : Indentation[s] \in Settings
  <2>1. ASSUME NEW s \in Open, pword[s] # NullPtr
        PROVE  heap[pword[s]] \in Settings
    BY <2>1, OwnedOnceMeans DEF Owned, Open
  <2> QED
    BY <2>1, DefaultSettings DEF Indentation
<1> QED
  BY <1>1 DEF Values!Open, Values!Settings, Values!Default, Settings, ostream_indent,
              Indentation, Open

-----------------------------------------------------------------------------
(* One lemma per kind of step: it keeps the invariant and is a step of the *)
(* abstract specification.                                                 *)

LEMMA ManipulatorStep ==
    ASSUME OwnedOnce, NEW s, CanUse(s), NEW v \in Settings, Becomes(Use(s, v)),
           UNCHANGED <<fill, emitted>>
    PROVE  OwnedOnce' /\ Values!Manipulate(s)
<1>1. /\ Owned(pword', callbacks', heap') /\ DOMAIN pword' = Open
      /\ Indentation' = [Indentation EXCEPT ![s] = v]
  BY UseOwned
<1>2. Printed'
  BY <1>1, OwnedOnceMeans DEF Printed, Open
<1> QED
  BY <1>1, <1>2, OwnedOnceNext, ValuesMeans DEF Values!Manipulate, CanUse

LEMMA IncStep ==
    ASSUME OwnedOnce, NEW s, inc(s)
    PROVE  OwnedOnce' /\ Values!Manipulate(s)
<1>1. PICK amount \in 1 .. MaxAmount :
          /\ Found(s).oi_amount + amount =< MaxAmount
          /\ Becomes(Use(s, [Found(s) EXCEPT !.oi_amount = @ + amount]))
  BY DEF inc
<1> DEFINE v == [Found(s) EXCEPT !.oi_amount = @ + amount]
<1>2. v \in Settings
  BY <1>1, FoundIs, ObjectsAssumption DEF inc, Settings
<1>3. Becomes(Use(s, v)) /\ CanUse(s) /\ UNCHANGED <<fill, emitted>>
  BY <1>1 DEF inc
<1> HIDE DEF v
<1> QED
  BY <1>2, <1>3, ManipulatorStep

LEMMA DecStep ==
    ASSUME OwnedOnce, NEW s, dec(s)
    PROVE  OwnedOnce' /\ Values!Manipulate(s)
<1>1. PICK amount \in 1 .. MaxAmount + 1 :
          Becomes(Use(s, [Found(s) EXCEPT !.oi_amount = decremented(@, amount)]))
  BY DEF dec
<1> DEFINE v == [Found(s) EXCEPT !.oi_amount = decremented(@, amount)]
<1>2. v \in Settings
  <2>1. Found(s) \in Settings /\ Found(s).oi_amount \in 0 .. MaxAmount
    BY FoundIs DEF dec, Settings
  <2>2. decremented(Found(s).oi_amount, amount) \in 0 .. MaxAmount
    BY <2>1, ObjectsAssumption DEF decremented
  <2> QED
    BY <2>1, <2>2 DEF Settings
<1>3. Becomes(Use(s, v)) /\ CanUse(s) /\ UNCHANGED <<fill, emitted>>
  BY <1>1 DEF dec
<1> HIDE DEF v
<1> QED
  BY <1>2, <1>3, ManipulatorStep

LEMMA SetIndentStep ==
    ASSUME OwnedOnce, NEW s, set_indent(s)
    PROVE  OwnedOnce' /\ Values!Manipulate(s)
<1>1. PICK amount \in 0 .. MaxAmount :
          Becomes(Use(s, [Found(s) EXCEPT !.oi_amount = amount]))
  BY DEF set_indent
<1> DEFINE v == [Found(s) EXCEPT !.oi_amount = amount]
<1>2. v \in Settings
  BY FoundIs DEF set_indent, Settings
<1>3. Becomes(Use(s, v)) /\ CanUse(s) /\ UNCHANGED <<fill, emitted>>
  BY <1>1 DEF set_indent
<1> HIDE DEF v
<1> QED
  BY <1>2, <1>3, ManipulatorStep

LEMMA SetScaleStep ==
    ASSUME OwnedOnce, NEW s, set_scale(s)
    PROVE  OwnedOnce' /\ Values!Manipulate(s)
<1>1. PICK scale \in Scales : Becomes(Use(s, [Found(s) EXCEPT !.oi_scale = scale]))
  BY DEF set_scale
<1> DEFINE v == [Found(s) EXCEPT !.oi_scale = scale]
<1>2. v \in Settings
  BY FoundIs DEF set_scale, Settings
<1>3. Becomes(Use(s, v)) /\ CanUse(s) /\ UNCHANGED <<fill, emitted>>
  BY <1>1 DEF set_scale
<1> HIDE DEF v
<1> QED
  BY <1>2, <1>3, ManipulatorStep

LEMMA SetCharStep ==
    ASSUME OwnedOnce, NEW s, set_char(s)
    PROVE  OwnedOnce' /\ Values!Manipulate(s)
<1>1. PICK char \in Chars : Becomes(Use(s, [Found(s) EXCEPT !.oi_char = char]))
  BY DEF set_char
<1> DEFINE v == [Found(s) EXCEPT !.oi_char = char]
<1>2. v \in Settings
  BY FoundIs DEF set_char, Settings
<1>3. Becomes(Use(s, v)) /\ CanUse(s) /\ UNCHANGED <<fill, emitted>>
  BY <1>1 DEF set_char
<1> HIDE DEF v
<1> QED
  BY <1>2, <1>3, ManipulatorStep

\* Reading may create the object; no value changes.
LEMMA InstanceStep ==
    ASSUME OwnedOnce, NEW s, CanUse(s), Becomes(instance(Memory, s))
    PROVE  /\ Owned(pword', callbacks', heap') /\ DOMAIN pword' = Open
           /\ Indentation' = Indentation
  BY InstanceOwned, IndentationMeans DEF Becomes

LEMMA GetStep ==
    ASSUME OwnedOnce, NEW s, get(s)
    PROVE  OwnedOnce' /\ Values!Manipulate(s)
<1>1. /\ Owned(pword', callbacks', heap') /\ DOMAIN pword' = Open
      /\ Indentation' = Indentation
  BY InstanceStep DEF get
<1>2. Printed'
  BY <1>1, OwnedOnceMeans DEF Printed, Open, get
<1>3. s \in Open /\ Indentation[s] \in Settings
  BY ValuesMeans DEF get, CanUse
<1>4. Indentation = [Indentation EXCEPT ![s] = Indentation[s]]
  BY <1>3 DEF Indentation
<1> QED
  BY <1>1, <1>2, <1>3, <1>4, OwnedOnceNext, ValuesMeans DEF Values!Manipulate, get

\* One field of the width, and the rest of count of them.
LEMMA Width ==
    ASSUME NEW a \in Nat, NEW b \in Nat, NEW n \in Nat \ {0}
    PROVE  a * b + (a * b) * (n - 1) = n * a * b /\ n * a * b \in Nat
<1> DEFINE w == a * b
<1>1. w \in Nat
  OBVIOUS
<1>2. n * a * b = n * w
  OBVIOUS
<1> HIDE DEF w
<1>3. w + w * (n - 1) = n * w /\ n * w \in Nat
  BY <1>1
<1> QED
  BY <1>2, <1>3 DEF w

LEMMA IndentStep ==
    ASSUME OwnedOnce, NEW s, indent(s)
    PROVE  OwnedOnce' /\ Values!Indent(s)
<1> DEFINE oi == Indentation[s]
<1>1. /\ Owned(pword', callbacks', heap') /\ DOMAIN pword' = Open
      /\ Indentation' = Indentation
  BY InstanceStep DEF indent
<1>2. s \in Open /\ oi \in Settings
  BY ValuesMeans DEF indent, CanUse
<1>3. LET mem == instance(Memory, s) IN mem.heap[mem.pword[s]] = oi
  BY InstanceOwned DEF indent
<1>4. /\ fill' = [fill EXCEPT ![s] = oi.oi_char]
      /\ \E count \in 1 .. MaxCount :
            emitted' = <<oi.oi_char, oi.oi_amount * oi.oi_scale
                                     + oi.oi_amount * oi.oi_scale * (count - 1)>>
  BY <1>3 DEF indent
<1> HIDE DEF oi
<1>5. PICK count \in 1 .. MaxCount :
          emitted' = <<oi.oi_char, oi.oi_amount * oi.oi_scale
                                   + oi.oi_amount * oi.oi_scale * (count - 1)>>
  BY <1>4
<1>6. oi.oi_amount \in Nat /\ oi.oi_scale \in Nat /\ oi.oi_char \in Chars
  <2>1. oi.oi_amount \in 0 .. MaxAmount /\ oi.oi_scale \in Scales /\ oi.oi_char \in Chars
    BY <1>2 DEF Settings
  <2>2. \A n \in 0 .. MaxAmount : n \in Nat
    BY ObjectsAssumption
  <2>3. \A n \in Scales : n \in Nat
    BY ObjectsAssumption
  <2> QED
    BY <2>1, <2>2, <2>3, Zenon
<1>7. count \in Nat \ {0}
  BY ObjectsAssumption
<1>8. /\ emitted' = <<oi.oi_char, count * oi.oi_amount * oi.oi_scale>>
      /\ count * oi.oi_amount * oi.oi_scale \in Nat
  BY <1>5, <1>6, <1>7, Width
<1>9. Printed'
  <2>1. fill' \in [Open -> Chars]
    BY <1>4, <1>6, OwnedOnceMeans DEF Printed
  <2>2. emitted' \in Chars \X Nat
    BY <1>6, <1>8
  <2> QED
    BY <1>1, <2>1, <2>2 DEF Printed, Open
<1> QED
  <2>1. OwnedOnce'
    BY <1>1, <1>9, OwnedOnceNext
  <2>2. \E n \in 1 .. MaxCount :
            emitted' = <<oi.oi_char, n * oi.oi_amount * oi.oi_scale>>
    BY <1>8
  <2> QED
    BY <1>1, <1>2, <1>4, <2>1, <2>2, ValuesMeans DEF Values!Indent, oi

LEMMA OpenStep ==
    ASSUME OwnedOnce, NEW s \in Streams, OpenStream(s)
    PROVE  OwnedOnce' /\ Values!OpenStream(s)
<1>1. Owned(pword, callbacks, heap) /\ Printed
  BY OwnedOnceMeans
<1>2. /\ s \in Streams \ DOMAIN pword /\ heap' = heap
      /\ pword' = With(s, NullPtr, pword) /\ callbacks' = With(s, 0, callbacks)
      /\ fill' = With(s, Tab, fill) /\ emitted' = emitted
  BY DEF OpenStream, Open
<1>3. /\ Owned(pword', callbacks', heap)
      /\ ValuesOf(pword', heap) = With(s, ostream_indent, ValuesOf(pword, heap))
  BY <1>1, <1>2, OpenOwned
<1>4. Indentation' = Values!With(s, Values!Default, Indentation)
  BY <1>2, <1>3, ValuesMeans, IndentationMeans DEF Values!With, With
<1>5. Printed'
  BY <1>1, <1>2, ObjectsAssumption DEF Printed, With, Open
<1>6. fill' = Values!With(s, Tab, fill)
  BY <1>2 DEF With, Values!With
<1> QED
  BY <1>2, <1>3, <1>4, <1>5, <1>6, OwnedOnceNext, ValuesMeans DEF Values!OpenStream, Open

\* The memory q, d, g the callback leaves when the format of a stream goes.
FormatErased(s, q, d, g) ==
    q = Erased(s).pword /\ d = [callbacks EXCEPT ![s] = 0] /\ g = Erased(s).heap

LEMMA ErasedOwned ==
    ASSUME OwnedOnce, NEW s \in Open, NEW q, NEW d, NEW g, FormatErased(s, q, d, g)
    PROVE  /\ Owned(q, d, g) /\ ValueSet(s, ostream_indent, pword, heap, q, g)
           /\ DOMAIN q = Open /\ q[s] = NullPtr
           /\ \A t \in Open : t # s => q[t] = pword[t]
           /\ DOMAIN g \subseteq DOMAIN heap
<1> USE DEF FormatErased
<1>1. Owned(pword, callbacks, heap) /\ Open = DOMAIN pword
  BY OwnedOnceMeans DEF Open
<1>2. CASE callbacks[s] = 0
  <2>1. pword[s] = NullPtr
    BY <1>1, <1>2 DEF Owned
  <2>2. q = pword /\ g = heap
    BY <1>2 DEF Erased, Memory
  <2>3. d = callbacks
    BY <1>1, <1>2 DEF Owned
  <2>4. ValueSet(s, ostream_indent, pword, heap, pword, heap)
    BY <1>1, <2>1 DEF ValueSet, ValuesOf
  <2> QED
    BY <1>1, <2>1, <2>2, <2>3, <2>4
<1>3. CASE callbacks[s] # 0
  <2>1. pword[s] # NullPtr
    BY <1>1, <1>3 DEF Owned
  <2>2. q = [pword EXCEPT ![s] = NullPtr] /\ g = Without(pword[s], heap)
    BY <1>3 DEF Erased, Memory, callback_erase
  <2>3. Erases(s, pword, callbacks, heap, q, d, g)
    BY <2>2 DEF Erases
  <2>4. Owned(q, d, g) /\ ValueSet(s, ostream_indent, pword, heap, q, g)
    BY <1>1, <2>1, <2>3, EraseOwned
  <2>5. DOMAIN q = Open /\ q[s] = NullPtr /\ \A t \in Open : t # s => q[t] = pword[t]
    BY <1>1, <2>2
  <2>6. DOMAIN g \subseteq DOMAIN heap
    BY <2>2 DEF Without
  <2> QED
    BY <2>4, <2>5, <2>6
<1> QED
  BY <1>2, <1>3

LEMMA CloseStep ==
    ASSUME OwnedOnce, NEW s, CloseStream(s)
    PROVE  OwnedOnce' /\ Values!CloseStream(s)
<1>1. /\ s \in Open /\ heap' = Erased(s).heap
      /\ pword' = Without(s, pword) /\ callbacks' = Without(s, callbacks)
      /\ fill' = Without(s, fill) /\ emitted' = emitted
  BY DEF CloseStream
<1> DEFINE q == Erased(s).pword
           d == [callbacks EXCEPT ![s] = 0]
<1>2. q = Erased(s).pword /\ d = [callbacks EXCEPT ![s] = 0]
  OBVIOUS
<1> HIDE DEF q, d
<1>3. /\ Owned(q, d, heap') /\ ValueSet(s, ostream_indent, pword, heap, q, heap')
      /\ DOMAIN q = Open /\ q[s] = NullPtr
      /\ \A t \in Open : t # s => q[t] = pword[t]
  <2>1. FormatErased(s, q, d, heap')
    BY <1>1, <1>2 DEF FormatErased
  <2> QED
    BY <1>1, <2>1, ErasedOwned
<1>4. pword' = Without(s, q)
  BY <1>1, <1>3 DEF Without, Open
<1>5. DOMAIN callbacks = Open
  BY OwnedOnceMeans DEF Owned, Open
<1>6. callbacks' = Without(s, d)
  BY <1>1, <1>2, <1>5 DEF Without
<1>7. s \in DOMAIN q
  BY <1>1, <1>3
<1>8. /\ Owned(pword', callbacks', heap')
      /\ ValuesOf(pword', heap') = Without(s, ValuesOf(q, heap'))
  BY <1>3, <1>4, <1>6, <1>7, CloseOwned
<1>9. Without(s, ValuesOf(q, heap')) = Without(s, ValuesOf(pword, heap))
  BY <1>3 DEF ValueSet, Without, ValuesOf, Open
<1>10. Indentation' = Values!Without(s, Indentation)
  BY <1>8, <1>9, IndentationMeans DEF Without, Values!Without
<1>11. Printed'
  BY <1>1, OwnedOnceMeans DEF Printed, Without, Open
<1>12. fill' = Values!Without(s, fill)
  BY <1>1 DEF Without, Values!Without
<1> QED
  BY <1>1, <1>8, <1>10, <1>11, <1>12, OwnedOnceNext, ValuesMeans DEF Values!CloseStream

LEMMA CopyStep ==
    ASSUME OwnedOnce, NEW s, NEW from, copyfmt(s, from)
    PROVE  OwnedOnce' /\ Values!CopyFormat(s, from)
<1> DEFINE q == Erased(s).pword
           d == [callbacks EXCEPT ![s] = 0]
           g == Erased(s).heap
           copied == [pword |-> [q EXCEPT ![s] = pword[from]],
                      callbacks |-> [callbacks EXCEPT ![s] = callbacks[from]],
                      heap |-> g]
<1>1. /\ s \in Open /\ from \in Open /\ s # from
      /\ fill' = [fill EXCEPT ![s] = fill[from]] /\ emitted' = emitted
      /\ Objects \ DOMAIN heap # {}
  BY DEF copyfmt, Free, Memory
<1>2. Becomes(IF callbacks[from] = 0 THEN copied ELSE callback_copyfmt(copied, s))
  BY DEF copyfmt
<1>3. q = Erased(s).pword /\ d = [callbacks EXCEPT ![s] = 0] /\ g = Erased(s).heap
  OBVIOUS
<1> HIDE DEF q, d, g
<1>4. /\ Owned(q, d, g) /\ ValueSet(s, ostream_indent, pword, heap, q, g)
      /\ DOMAIN q = Open /\ q[s] = NullPtr
      /\ \A t \in Open : t # s => q[t] = pword[t]
      /\ DOMAIN g \subseteq DOMAIN heap
  <2>1. FormatErased(s, q, d, g)
    BY <1>3 DEF FormatErased
  <2> QED
    BY <1>1, <2>1, ErasedOwned
<1>5. /\ Owned(pword, callbacks, heap) /\ Printed /\ Open = DOMAIN pword
      /\ callbacks \in [Open -> Nat]
  BY OwnedOnceMeans DEF Owned, Open
<1>6. q[from] = pword[from] /\ s \in DOMAIN q /\ from \in DOMAIN q
  BY <1>1, <1>4
<1>7. ValuesOf(q, g)[from] = Indentation[from]
  BY <1>1, <1>4, <1>5, IndentationMeans DEF ValueSet, ValuesOf
<1>8. /\ Owned(pword', callbacks', heap')
      /\ ValueSet(s, Indentation[from], q, g, pword', heap')
  <2>1. CASE callbacks[from] = 0
    <3>1. pword[from] = NullPtr
      BY <1>1, <1>5, <2>1 DEF Owned
    <3>2. pword' = [q EXCEPT ![s] = NullPtr] /\ callbacks' = d /\ heap' = g
      BY <1>2, <1>3, <2>1, <3>1 DEF Becomes
    <3>3. q = [q EXCEPT ![s] = NullPtr]
      BY <1>4, <1>6 DEF Owned
    <3>4. pword' = q
      BY <3>2, <3>3
    <3>5. Indentation[from] = ostream_indent
      BY <1>1, <3>1 DEF Indentation
    <3>6. ValueSet(s, ostream_indent, q, g, q, g)
      BY <1>4, <1>6 DEF ValueSet, ValuesOf
    <3> QED
      BY <1>4, <3>2, <3>4, <3>5, <3>6
  <2>2. CASE callbacks[from] # 0
    <3>1. pword[from] # NullPtr /\ callbacks[from] = 1
      BY <1>1, <1>5, <2>2 DEF Owned
    <3> DEFINE o == New(copied)
               v == copied.heap[copied.pword[s]]
    <3>2. /\ pword' = [copied.pword EXCEPT ![s] = o]
          /\ callbacks' = copied.callbacks
          /\ heap' = With(o, v, copied.heap)
      BY <1>2, <2>2 DEF Becomes, callback_copyfmt, Allocate
    <3>3. o \in Objects \ DOMAIN g
      BY <1>1, <1>4 DEF New, Free
    <3>4. v = g[pword[from]]
      BY <1>6
    <3>5. copied.heap = g /\ copied.pword = [q EXCEPT ![s] = pword[from]]
                         /\ copied.callbacks = [callbacks EXCEPT ![s] = 1]
      BY <3>1
    <3> HIDE DEF copied, o, v
    <3>6. pword' = [q EXCEPT ![s] = o]
      BY <1>6, <3>2, <3>5
    <3>7. callbacks' = [d EXCEPT ![s] = 1]
      BY <1>1, <1>3, <1>5, <3>2, <3>5
    <3>8. Allocates(s, o, v, q, d, g, pword', callbacks', heap')
      BY <3>2, <3>5, <3>6, <3>7 DEF Allocates
    <3>9. v = Indentation[from]
      BY <1>6, <1>7, <3>1, <3>4 DEF ValuesOf
    <3>10. v \in Settings
      BY <1>1, <3>9, ValuesMeans
    <3>11. Owned(pword', callbacks', heap') /\ ValueSet(s, v, q, g, pword', heap')
      BY <1>4, <1>6, <3>3, <3>8, <3>10, AllocateOwned
    <3> QED
      BY <3>9, <3>11
  <2> QED
    BY <2>1, <2>2
<1>9. Indentation' = [Indentation EXCEPT ![s] = Indentation[from]]
  <2>1. Indentation' = [ValuesOf(q, g) EXCEPT ![s] = Indentation[from]]
    BY <1>8, IndentationMeans DEF ValueSet
  <2>2. ValuesOf(q, g) = [Indentation EXCEPT ![s] = ostream_indent]
    BY <1>4, IndentationMeans DEF ValueSet
  <2>3. DOMAIN Indentation = Open
    BY DEF Indentation
  <2> QED
    BY <1>1, <2>1, <2>2, <2>3
<1>10. Printed'
  <2>1. DOMAIN pword' = Open
    <3>1. DOMAIN pword' = DOMAIN Indentation'
      BY DEF Indentation, Open
    <3>2. DOMAIN Indentation' = DOMAIN Indentation
      BY <1>9
    <3> QED
      BY <3>1, <3>2 DEF Indentation
  <2> QED
    BY <1>1, <1>5, <2>1 DEF Printed, Open
<1> QED
  BY <1>1, <1>8, <1>9, <1>10, OwnedOnceNext, ValuesMeans DEF Values!CopyFormat

-----------------------------------------------------------------------------
(* The theorems                                                            *)

LEMMA InitOwned == Init => OwnedOnce /\ Values!Init
<1> SUFFICES ASSUME Init PROVE OwnedOnce /\ Values!Init
  OBVIOUS
<1>1. Owned(pword, callbacks, heap) /\ Printed
  BY ObjectsAssumption DEF Init, Owned, Printed, Open
<1>2. Indentation = [s \in {} |-> Values!Default]
  BY DEF Init, Indentation, Open
<1> QED
  BY <1>1, <1>2, OwnedOnceMeans DEF Values!Init, Init

LEMMA StepOwned ==
    ASSUME OwnedOnce, [Next]_vars
    PROVE  OwnedOnce' /\ [Values!Next]_(Values!vars)
<1>1. CASE UNCHANGED vars
  <2>1. Owned(pword', callbacks', heap') /\ Printed'
    BY <1>1, OwnedOnceMeans DEF vars, Printed, Open
  <2>2. UNCHANGED Values!vars
    BY <1>1 DEF vars, Values!vars, Indentation, Open
  <2> QED
    BY <2>1, <2>2, OwnedOnceNext
<1>2. CASE Next
  <2>1. PICK s \in Streams :
            \/ OpenStream(s) \/ CloseStream(s)
            \/ inc(s) \/ dec(s) \/ set_indent(s) \/ set_scale(s) \/ set_char(s)
            \/ get(s) \/ indent(s)
            \/ \E from \in Streams : copyfmt(s, from)
    BY <1>2 DEF Next
  <2>2. CASE OpenStream(s)
    BY <2>2, OpenStep DEF Values!Next
  <2>3. CASE CloseStream(s)
    BY <2>3, CloseStep DEF Values!Next
  <2>4. CASE inc(s) \/ dec(s) \/ set_indent(s) \/ set_scale(s) \/ set_char(s) \/ get(s)
    BY <2>4, IncStep, DecStep, SetIndentStep, SetScaleStep, SetCharStep, GetStep
       DEF Values!Next
  <2>5. CASE indent(s)
    BY <2>5, IndentStep DEF Values!Next
  <2>6. CASE \E from \in Streams : copyfmt(s, from)
    BY <2>6, CopyStep DEF Values!Next
  <2> QED
    BY <2>1, <2>2, <2>3, <2>4, <2>5, <2>6
<1> QED
  BY <1>1, <1>2

\* callback() and instance() keep every object owned by exactly one stream and
\* registered once, whatever is opened, used, copied and closed in whatever
\* order: nothing leaks, nothing is freed twice, no slot dangles.
THEOREM ObjectsOwnedOnce == Spec => []OwnedOnce
<1>1. Init => OwnedOnce
  BY InitOwned
<1>2. OwnedOnce /\ [Next]_vars => OwnedOnce'
  BY StepOwned
<1> QED
  BY <1>1, <1>2, PTL DEF Spec

\* The objects on the heap behave as values of the streams: no manipulator of
\* one stream shows in another, and copyfmt copies.
THEOREM PointersImplementValues == Spec => ImplementsValues
<1>1. Init => Values!Init
  BY InitOwned
<1>2. OwnedOnce /\ [Next]_vars => [Values!Next]_(Values!vars)
  BY StepOwned
<1> QED
  BY <1>1, <1>2, ObjectsOwnedOnce, PTL DEF Spec, ImplementsValues, Values!Spec
=============================================================================
