------------------------------ MODULE MCTables ------------------------------
(***************************************************************************)
(* How the models write down the tables of a machine: the children of its  *)
(* parent states, and one record per transition.                           *)
(***************************************************************************)
EXTENDS EventProcessing

\* The inverse of Children.
ParentTable(children) ==
    [s \in DOMAIN children |->
        IF \E p \in DOMAIN children : \E i \in 1 .. Len(children[p]) : children[p][i] = s
        THEN CHOOSE p \in DOMAIN children : \E i \in 1 .. Len(children[p]) : children[p][i] = s
        ELSE NIL]

\* A table that is "other" except where t says otherwise.
Table(domain, t, other) ==
    [x \in domain |-> IF x \in DOMAIN t THEN t[x] ELSE other]

\* A transition with a hard-coded target, an internal one, one with a function.
External(from, to)      == [from |-> from, to |-> to, fn |-> {}]
Internal(from)          == [from |-> from, to |-> NIL, fn |-> {}]
Computed(from, targets) == [from |-> from, to |-> NIL, fn |-> targets]

FromTable(trs) == [tr \in DOMAIN trs |-> trs[tr].from]
ToTable(trs)   == [tr \in DOMAIN trs |-> trs[tr].to]
FnTable(trs)   == [tr \in DOMAIN trs |-> trs[tr].fn]

\* A table without entries.
None == [x \in {} |-> {}]

=============================================================================
