---------------------------- MODULE IndentValues ----------------------------
(***************************************************************************)
(* What ostream_indent (src/src/c++/chsmc/indent.h) promises: indentation   *)
(* is a value attached to a stream.  Each open stream has an amount, a      *)
(* scale and a character of its own, which are the defaults until a         *)
(* manipulator sets them; a stream that takes over the format of another    *)
(* (copyfmt) takes over the values, and from then on both go their own      *)
(* ways.                                                                    *)
(***************************************************************************)
EXTENDS Naturals

CONSTANTS Streams,    \* the streams the program may open
          MaxAmount,  \* bound on the indentation
          Scales,     \* the scaling factors set_scale is called with
          Chars,      \* the characters set_char is called with
          Tab,        \* '\t'
          MaxCount    \* bound on the count of indent

VARIABLES indentation,  \* of every open stream: its amount, scale and character
          fill,         \* the fill character of every open stream
          emitted       \* the indentation last written to a stream

Settings == [oi_amount : 0 .. MaxAmount, oi_scale : Scales, oi_char : Chars]
Default == [oi_amount |-> 0, oi_scale |-> 1, oi_char |-> Tab]

Open == DOMAIN indentation

Without(s, f) == [t \in DOMAIN f \ {s} |-> f[t]]

With(s, v, f) == [t \in DOMAIN f \cup {s} |-> IF t = s THEN v ELSE f[t]]

Init ==
    /\ indentation = [s \in {} |-> Default]
    /\ fill = [s \in {} |-> Tab]
    /\ emitted = <<Tab, 0>>

\* A new stream fills with a character of its own (here Tab stands for it).
OpenStream(s) ==
    /\ s \notin Open
    /\ indentation' = With(s, Default, indentation)
    /\ fill' = With(s, Tab, fill)
    /\ UNCHANGED emitted

CloseStream(s) ==
    /\ s \in Open
    /\ indentation' = Without(s, indentation)
    /\ fill' = Without(s, fill)
    /\ UNCHANGED emitted

Manipulate(s) ==
    /\ s \in Open
    /\ \E v \in Settings : indentation' = [indentation EXCEPT ![s] = v]
    /\ UNCHANGED <<fill, emitted>>

Indent(s) ==
    /\ s \in Open
    /\ \E count \in 1 .. MaxCount :
          emitted' = <<indentation[s].oi_char,
                       count * indentation[s].oi_amount * indentation[s].oi_scale>>
    /\ fill' = [fill EXCEPT ![s] = indentation[s].oi_char]
    /\ UNCHANGED indentation

CopyFormat(s, from) ==
    /\ {s, from} \subseteq Open
    /\ indentation' = [indentation EXCEPT ![s] = indentation[from]]
    /\ fill' = [fill EXCEPT ![s] = fill[from]]
    /\ UNCHANGED emitted

Next ==
    \E s \in Streams :
        \/ OpenStream(s)
        \/ CloseStream(s)
        \/ Manipulate(s)
        \/ Indent(s)
        \/ \E from \in Streams : CopyFormat(s, from)

vars == <<indentation, fill, emitted>>

Spec == Init /\ [][Next]_vars
=============================================================================
