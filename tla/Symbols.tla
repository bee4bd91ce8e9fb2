------------------------------ MODULE Symbols ------------------------------
(***************************************************************************)
(* The symbol table of the compiler (symbol.h, symbol.cpp) and the infos   *)
(* that hang off its symbols (base_info.h, *_info.h, xxx_info.cpp).        *)
(*                                                                         *)
(* A table maps the name of a symbol to its info_list_.  A name is the     *)
(* sequence of the identifiers that are joined by dots: p.q.s is           *)
(* <<"p", "q", "s">>.  An info has a type and a scope and what its class   *)
(* adds.  The operators are functional: they return the table the C++      *)
(* function would leave behind.                                            *)
(***************************************************************************)
EXTENDS Naturals, Sequences

CONSTANT NIL          \* nullptr

SCOPE_GLOBAL == 1

RootName == <<"root">>

STATES  == {"STATE", "CLUSTER", "SET"}
PARENT  == {"CLUSTER", "SET"}
EVENT   == {"ENEX_EVENT", "USER_EVENT"}
ANY     == {"GLOBAL", "CHSM", "CHILD"} \cup STATES \cup EVENT

-----------------------------------------------------------------------------
(* The infos. *)

global_info == [type |-> "GLOBAL", scope |-> SCOPE_GLOBAL]

chsm_info == [type |-> "CHSM", scope |-> SCOPE_GLOBAL]

child_info_in_place(scope, parent) ==
    [type |-> "CHILD", scope |-> scope, parent |-> parent, defined |-> FALSE]

\* A child is put into the scope that its parent's body will open.
child_info(scope, parent) ==
    [type |-> "CHILD", scope |-> scope + 1, parent |-> parent, defined |-> FALSE]

state_info(type, parent, serial, history) ==
    [type |-> type, scope |-> SCOPE_GLOBAL, parent |-> parent, serial |-> serial,
     history |-> history, children |-> <<>>, hasEnter |-> FALSE, hasExit |-> FALSE,
     enterAction |-> FALSE, exitAction |-> FALSE]

cluster_info(parent, serial, history) == state_info("CLUSTER", parent, serial, history)

set_info(parent, serial) == state_info("SET", parent, serial, FALSE)

event_info(kind, state) ==
    [type |-> "ENEX_EVENT", scope |-> SCOPE_GLOBAL, kind |-> kind, state |-> state,
     base |-> NIL, tids |-> <<>>, used |-> FALSE, precondition |-> "none", params |-> 0]

user_event_info(base) ==
    [type |-> "USER_EVENT", scope |-> SCOPE_GLOBAL, kind |-> "user", state |-> NIL,
     base |-> base, tids |-> <<>>, used |-> FALSE, precondition |-> "none", params |-> 0]

-----------------------------------------------------------------------------
(* Symbols. *)

Infos(table, n) == IF n \in DOMAIN table THEN table[n] ELSE <<>>

\* sym_table_[ n ]: the symbol is created when it is first named.
Touch(table, n) == [m \in DOMAIN table \cup {n} |-> Infos(table, m)]

\* symbol::info( in ): the list is ordered from the innermost scope outwards, and
\* "in" counts its elements.
info(table, n, in) ==
    IF in < Len(Infos(table, n)) THEN Infos(table, n)[in + 1] ELSE NIL

type_of(table, n, in) ==
    IF info(table, n, in) = NIL THEN "NONE" ELSE info(table, n, in).type

symbol_scope(table, n) ==
    IF info(table, n, 0) = NIL THEN 0 ELSE info(table, n, 0).scope

\* How many infos of the list stay in front of one of scope s.
Before(list, s) ==
    IF \E i \in DOMAIN list : s >= list[i].scope
    THEN (CHOOSE i \in DOMAIN list : /\ s >= list[i].scope
                                     /\ \A j \in 1 .. i - 1 : s < list[j].scope) - 1
    ELSE Len(list)

insert_info(table, n, si) ==
    LET list == Infos(table, n)
        k    == Before(list, si.scope)
    IN  [Touch(table, n) EXCEPT ![n] =
            SubSeq(list, 1, k) \o <<si>> \o SubSeq(list, k + 1, Len(list))]

delete_info(table, n) == [table EXCEPT ![n] = Tail(@)]

\* Replaces the first info of a symbol by a changed copy: an assignment through INFO().
Update(table, n, si) == [table EXCEPT ![n][1] = si]

\* What is left of an info_list_ when the infos of the current scope are popped off its front.
Popped(list, scope) ==
    LET k == CHOOSE k \in 0 .. Len(list) :
                /\ \A i \in 1 .. k : list[i].scope = scope
                /\ k < Len(list) => list[k + 1].scope # scope
    IN  SubSeq(list, k + 1, Len(list))

close_scope_keeping(table, scope) == table

\* Symbols that have no info left are erased.
close_scope(table, scope) ==
    IF scope <= 1
    THEN table
    ELSE LET left == {n \in DOMAIN table : Popped(table[n], scope) # <<>>}
         IN  [n \in left |-> Popped(table[n], scope)]

-----------------------------------------------------------------------------
(* Checking the type of a symbol. *)

\* The result of type_check() and whether it reports an error.
type_check(table, n, types, condition, in) ==
    LET none  == info(table, n, in) = NIL /\ condition # "MUST_EXIST"
        match == type_of(table, n, in) \in types
    IN  [ok    |-> none \/ (match /\ condition # "NO_INFO"),
         error |-> ~none /\ ~match]

\* False means that an error is reported.
not_exists(table, n, types) == type_of(table, n, 0) \notin types
=============================================================================
