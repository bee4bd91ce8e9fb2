---------------------------- MODULE OstreamIndent ----------------------------
(***************************************************************************)
(* ostream_indent (src/src/c++/chsmc/indent.h, indent.cpp): the indentation *)
(* of a stream lives in an object on the heap that a slot of the stream     *)
(* (pword) points to.  The object is created when a manipulator first uses  *)
(* the stream, and a callback registered with the stream manages it: the    *)
(* library calls it when the stream is destroyed, and twice when it takes   *)
(* over another stream's format, before and after the slots and callbacks   *)
(* are copied from the other stream.                                        *)
(***************************************************************************)
EXTENDS Integers

CONSTANTS Streams, MaxAmount, Scales, Chars, Tab, MaxCount,
          Objects,  \* addresses of ostream_indent objects
          NullPtr   \* nullptr

ASSUME ObjectsAssumption ==
    /\ NullPtr \notin Objects
    /\ MaxAmount \in Nat
    /\ Scales \subseteq Nat /\ 1 \in Scales
    /\ Tab \in Chars
    /\ MaxCount \in Nat \ {0}

VARIABLES pword,      \* of every open stream: the slot ostream_indent uses
          callbacks,  \* of every open stream: how often callback() is registered
          heap,       \* the ostream_indent objects alive, by address
          fill, emitted

vars == <<pword, callbacks, heap, fill, emitted>>

Open == DOMAIN pword

Without(s, f) == [t \in DOMAIN f \ {s} |-> f[t]]

With(s, v, f) == [t \in DOMAIN f \cup {s} |-> IF t = s THEN v ELSE f[t]]

Settings == [oi_amount : 0 .. MaxAmount, oi_scale : Scales, oi_char : Chars]

\* The default constructor.
ostream_indent == [oi_amount |-> 0, oi_scale |-> 1, oi_char |-> Tab]

TypeOK ==
    /\ Open \subseteq Streams
    /\ pword \in [Open -> Objects \cup {NullPtr}]
    /\ callbacks \in [Open -> Nat]
    /\ DOMAIN heap \subseteq Objects /\ heap \in [DOMAIN heap -> Settings]
    /\ fill \in [Open -> Chars]
    /\ emitted \in Chars \X Nat

Init ==
    /\ pword = [s \in {} |-> NullPtr]
    /\ callbacks = [s \in {} |-> 0]
    /\ heap = [o \in {} |-> ostream_indent]
    /\ fill = [s \in {} |-> Tab]
    /\ emitted = <<Tab, 0>>

-----------------------------------------------------------------------------
(***************************************************************************)
(* The memory a step works on is a record, as the callback and instance()   *)
(* are called within larger steps.                                          *)
(***************************************************************************)
Memory == [pword |-> pword, callbacks |-> callbacks, heap |-> heap]

Becomes(mem) ==
    /\ pword' = mem.pword
    /\ callbacks' = mem.callbacks
    /\ heap' = mem.heap

\* operator new: an address not in use.
Free(mem) == Objects \ DOMAIN mem.heap

New(mem) == CHOOSE o \in Objects : o \in Free(mem)

Allocate(mem, s, v) ==
    [pword |-> [mem.pword EXCEPT ![s] = New(mem)], callbacks |-> mem.callbacks,
     heap |-> With(New(mem), v, mem.heap)]

\* callback() on erase_event: the object goes (deleting nullptr does nothing).
callback_erase(mem, s) ==
    [pword |-> [mem.pword EXCEPT ![s] = NullPtr], callbacks |-> mem.callbacks,
     heap |-> Without(mem.pword[s], mem.heap)]

\* Mutants: the slot is left as it was copied; the copy is a new object.
callback_copyfmt_sharing(mem, s) == mem
callback_copyfmt_default(mem, s) == Allocate(mem, s, ostream_indent)

\* callback() on copyfmt_event: the slot was copied, so the object is shared
\* with the other stream until it is replaced by a copy.
callback_copyfmt(mem, s) == Allocate(mem, s, mem.heap[mem.pword[s]])

\* instance(): the object of the stream, created and registered when first used.
instance(mem, s) ==
    IF mem.pword[s] # NullPtr
      THEN mem
      ELSE [Allocate(mem, s, ostream_indent) EXCEPT !.callbacks[s] = @ + 1]

\* What a manipulator finds in the object of the stream, and writes to it.
Found(s) == LET mem == instance(Memory, s) IN mem.heap[mem.pword[s]]

Use(s, v) ==
    LET mem == instance(Memory, s)
    IN  [mem EXCEPT !.heap[mem.pword[s]] = v]

-----------------------------------------------------------------------------
\* Each manipulator may have to allocate.
CanUse(s) == s \in Open /\ Free(Memory) # {}

\* inc, which inc_indent calls.
inc(s) ==
    /\ CanUse(s)
    /\ \E amount \in 1 .. MaxAmount :
          /\ Found(s).oi_amount + amount =< MaxAmount
          /\ Becomes(Use(s, [Found(s) EXCEPT !.oi_amount = @ + amount]))
    /\ UNCHANGED <<fill, emitted>>

\* Not below zero.
decremented(oi_amount, amount) == oi_amount - IF amount =< oi_amount THEN amount ELSE oi_amount

\* dec, which dec_indent calls.
dec(s) ==
    /\ CanUse(s)
    /\ \E amount \in 1 .. MaxAmount + 1 :
          Becomes(Use(s, [Found(s) EXCEPT !.oi_amount = decremented(@, amount)]))
    /\ UNCHANGED <<fill, emitted>>

set_indent(s) ==
    /\ CanUse(s)
    /\ \E amount \in 0 .. MaxAmount :
          Becomes(Use(s, [Found(s) EXCEPT !.oi_amount = amount]))
    /\ UNCHANGED <<fill, emitted>>

set_scale(s) ==
    /\ CanUse(s)
    /\ \E scale \in Scales :
          Becomes(Use(s, [Found(s) EXCEPT !.oi_scale = scale]))
    /\ UNCHANGED <<fill, emitted>>

set_char(s) ==
    /\ CanUse(s)
    /\ \E char \in Chars :
          Becomes(Use(s, [Found(s) EXCEPT !.oi_char = char]))
    /\ UNCHANGED <<fill, emitted>>

\* get_indent, get_scale and get_char: reading creates the object as well.
get(s) ==
    /\ CanUse(s)
    /\ Becomes(instance(Memory, s))
    /\ UNCHANGED <<fill, emitted>>

\* indent: one empty string in a field of the width, padded with the character,
\* which stays the fill character of the stream.
indent(s) ==
    /\ CanUse(s)
    /\ LET mem == instance(Memory, s)
           oi == mem.heap[mem.pword[s]]
           width == oi.oi_amount * oi.oi_scale
       IN  /\ Becomes(mem)
           /\ fill' = [fill EXCEPT ![s] = oi.oi_char]
           /\ \E count \in 1 .. MaxCount :
                 emitted' = <<oi.oi_char, width + width * (count - 1)>>

-----------------------------------------------------------------------------
(***************************************************************************)
(* The stream library, which calls the callback.                            *)
(***************************************************************************)
OpenStream(s) ==
    /\ s \notin Open
    /\ pword' = With(s, NullPtr, pword)
    /\ callbacks' = With(s, 0, callbacks)
    /\ fill' = With(s, Tab, fill)
    /\ UNCHANGED <<heap, emitted>>

Erased(s) == IF callbacks[s] = 0 THEN Memory ELSE callback_erase(Memory, s)

CloseStream(s) ==
    /\ s \in Open
    /\ heap' = Erased(s).heap
    /\ pword' = Without(s, pword)
    /\ callbacks' = Without(s, callbacks)
    /\ fill' = Without(s, fill)
    /\ UNCHANGED emitted

\* Copying a stream's format to itself does nothing.
copyfmt(s, from) ==
    /\ {s, from} \subseteq Open /\ s # from
    /\ Free(Memory) # {}
    /\ LET erased == Erased(s)
           copied == [pword |-> [erased.pword EXCEPT ![s] = pword[from]],
                      callbacks |-> [callbacks EXCEPT ![s] = callbacks[from]],
                      heap |-> erased.heap]
       IN  Becomes(IF callbacks[from] = 0 THEN copied ELSE callback_copyfmt(copied, s))
    /\ fill' = [fill EXCEPT ![s] = fill[from]]
    /\ UNCHANGED emitted

Next ==
    \E s \in Streams :
        \/ OpenStream(s) \/ CloseStream(s)
        \/ inc(s) \/ dec(s) \/ set_indent(s) \/ set_scale(s) \/ set_char(s)
        \/ get(s) \/ indent(s)
        \/ \E from \in Streams : copyfmt(s, from)

Spec == Init /\ [][Next]_vars

-----------------------------------------------------------------------------
(***************************************************************************)
(* Properties                                                               *)
(***************************************************************************)
\* Whatever is opened, copied, used and closed in whatever order: the objects
\* alive are exactly those the streams point to, each by one stream only, so
\* that callback() neither leaks an object, nor frees one twice, nor leaves a
\* stream with one that is gone; it is registered once with each; and no
\* indentation falls below zero.
OwnedOnce ==
    /\ TypeOK
    /\ DOMAIN heap = {pword[s] : s \in Open} \ {NullPtr}
    /\ \A s, t \in Open : s # t /\ pword[s] # NullPtr => pword[s] # pword[t]
    /\ \A s \in Open : callbacks[s] = IF pword[s] = NullPtr THEN 0 ELSE 1

\* The values of a stream, through the slot.
Indentation ==
    [s \in Open |-> IF pword[s] = NullPtr THEN ostream_indent ELSE heap[pword[s]]]

Values == INSTANCE IndentValues WITH indentation <- Indentation

\* The pointers implement values: a manipulator of one stream never changes the
\* indentation of another, copyfmt copies it, and what indent() writes is that
\* of its own stream.
ImplementsValues == Values!Spec
=============================================================================
