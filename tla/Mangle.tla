------------------------------- MODULE Mangle -------------------------------
(***************************************************************************)
(* Mangled names (mangle.cpp), which identify the enter and exit events    *)
(* and actions of states: root.trunk becomes M4root5trunk.  A name is the  *)
(* sequence of its identifiers, an identifier the sequence of its          *)
(* characters, which may be digits but for the first.  Characters are      *)
(* numbers: those below Radix are the digits.  Radix is 10 in the program; *)
(* a smaller one makes the lengths short at which more digits are needed.  *)
(***************************************************************************)
EXTENDS Integers, SequencesExt

CONSTANT Radix        \* lengths are written in this base

ASSUME RadixAssumption == Radix \in Nat \ {0, 1}

Digits == 0 .. Radix - 1

g_mangle_prefix == Radix

itoa[n \in Nat] == IF n < Radix THEN <<n>> ELSE Append(itoa[n \div Radix], n % Radix)

\* How far mangle() and demangle() advance over the digits of a length.
DigitCount(len) == 1 + (IF len > Radix - 1 THEN 1 ELSE 0)

\* The characters overwrite what strcpy() left of the digits behind "out".
mangle(n) ==
    <<g_mangle_prefix>> \o FlattenSeq([i \in DOMAIN n |-> SubSeq(itoa[Len(n[i])], 1, DigitCount(Len(n[i])))
                                                \o n[i]])

\* atoi(): the value of the digits that s begins with.
atoi(s) ==
    LET k == CHOOSE k \in 0 .. Len(s) : /\ \A i \in 1 .. k : s[i] \in Digits
                                        /\ k < Len(s) => s[k + 1] \notin Digits
    IN  FoldLeft(LAMBDA acc, d : acc * Radix + d, 0, SubSeq(s, 1, k))

\* What demangle() makes of the last k characters of s.
demangle(s) ==
    LET rest(k) == SubSeq(s, Len(s) - k + 1, Len(s))
        least(a, b) == IF a < b THEN a ELSE b
        from[k \in 0 .. Len(s)] ==
            LET len == atoi(rest(k))
                in  == SubSeq(rest(k), DigitCount(len) + 1, k)
                cut == least(len, Len(in))
            IN  IF k = 0 \/ len = 0 THEN <<>>
                ELSE <<SubSeq(in, 1, cut)>> \o from[Len(in) - cut]
    IN  from[Len(s) - 1]
=============================================================================
