----------------------------- MODULE DebugOutput -----------------------------
(***************************************************************************)
(* The debugging output of the C++ run-time library: debug(), is_debug(),   *)
(* dout(), dump_state() and the places that indent and report               *)
(* (src/src/c++/libchsm/machine.cpp, event.cpp, state.cpp).                 *)
(*                                                                         *)
(* Of the micro-step algorithm only the nesting of its loops is kept: which *)
(* events and transitions there are is left open, so that every early       *)
(* `continue' and every number of rounds is a behaviour.  Each place tests  *)
(* the flags anew, as the code does.                                        *)
(***************************************************************************)
EXTENDS Naturals

CONSTANTS Modulus,     \* unsigned debug_indent_ counts modulo this number
          FromActions  \* TRUE: debug() is called by user code within the algorithm too

\* Enough for the deepest nesting, as any unsigned is.
ASSUME DebugAssumption == Modulus \in Nat /\ Modulus > 8 /\ FromActions \in BOOLEAN

VARIABLES pc,            \* where in algorithm() the machine is
          debug_state_,  \* the flags set
          debug_indent_,
          preamble       \* how often dout() indented the line printed last

vars == <<pc, debug_state_, debug_indent_, preamble>>

\* DEBUG_ENTER_EXIT, DEBUG_EVENTS and DEBUG_ALGORITHM; DEBUG_NONE is {} and
\* DEBUG_ALL is Flags.
Flags == {"ENTER_EXIT", "EVENTS", "ALGORITHM"}

is_debug(flag) == flag \in debug_state_

\* How deep the loops are nested at each place.
Nesting == [idle    |-> 0,
            running |-> 1,
            phaseI  |-> 2, eventI  |-> 3, exiting  |-> 4, action |-> 5,
            phaseII |-> 2, eventII |-> 3, entering |-> 4,
            phaseIII |-> 2]

Places == DOMAIN Nesting

TypeOK ==
    /\ pc \in Places
    /\ debug_state_ \in SUBSET Flags
    /\ debug_indent_ \in 0 .. Modulus - 1
    /\ preamble \in 0 .. Modulus - 1

Init ==
    /\ pc = "idle"
    /\ debug_state_ = {}
    /\ debug_indent_ = 0
    /\ preamble = 0

Inc(n) == IF n = Modulus - 1 THEN 0 ELSE n + 1
Dec(n) == IF n = 0 THEN Modulus - 1 ELSE n - 1

-----------------------------------------------------------------------------
\* A line is printed and what follows is indented.
Begin(from, to) ==
    /\ pc = from
    /\ pc' = to
    /\ IF is_debug("ALGORITHM")
         THEN preamble' = debug_indent_ /\ debug_indent_' = Inc(debug_indent_)
         ELSE UNCHANGED <<debug_indent_, preamble>>
    /\ UNCHANGED debug_state_

\* ... without a line: an internal transition.
BeginSilently(from, to) ==
    /\ pc = from
    /\ pc' = to
    /\ debug_indent_' = IF is_debug("ALGORITHM") THEN Inc(debug_indent_) ELSE debug_indent_
    /\ UNCHANGED <<debug_state_, preamble>>

End(from, to) ==
    /\ pc = from
    /\ pc' = to
    /\ debug_indent_' = IF is_debug("ALGORITHM") THEN Dec(debug_indent_) ELSE debug_indent_
    /\ UNCHANGED <<debug_state_, preamble>>

\* Mutant: the indentation of the previous phase is kept.
NextPhaseDeeper(from, to) == Begin(from, to)

\* From one phase to the next: its name is printed one level up.
NextPhase(from, to) ==
    /\ pc = from
    /\ pc' = to
    /\ IF is_debug("ALGORITHM")
         THEN /\ preamble' = Dec(debug_indent_)
              /\ debug_indent_' = Inc(Dec(debug_indent_))
         ELSE UNCHANGED <<debug_indent_, preamble>>
    /\ UNCHANGED debug_state_

\* "ALGORITHM COMPLETE".
Complete ==
    /\ pc = "running"
    /\ pc' = "idle"
    /\ IF is_debug("ALGORITHM")
         THEN preamble' = Dec(debug_indent_) /\ debug_indent_' = Dec(debug_indent_)
         ELSE UNCHANGED <<debug_indent_, preamble>>
    /\ UNCHANGED debug_state_

\* A call while the algorithm is in progress returns at once and is left out.
algorithm ==
    \/ Begin("idle", "running")
    \/ Begin("running", "phaseI")
    \/ Begin("phaseI", "eventI")
    \/ Begin("eventI", "exiting") \/ BeginSilently("eventI", "exiting")
    \/ Begin("exiting", "action")
    \/ End("action", "exiting")
    \/ End("exiting", "eventI")
    \/ End("eventI", "phaseI")
    \/ NextPhase("phaseI", "phaseII")
    \/ Begin("phaseII", "eventII")
    \/ Begin("eventII", "entering") \/ BeginSilently("eventII", "entering")
    \/ End("entering", "eventII")
    \/ End("eventII", "phaseII")
    \/ NextPhase("phaseII", "phaseIII")
    \/ End("phaseIII", "running")
    \/ Complete

-----------------------------------------------------------------------------
dout == preamble' = debug_indent_ /\ UNCHANGED <<pc, debug_state_, debug_indent_>>

\* Events are broadcast, and found to be in progress, while the machine is idle
\* and by every kind of user code.
UserCode == {"idle", "exiting", "action", "entering"}

ReportEvent == pc \in UserCode /\ is_debug("EVENTS") /\ dout

ReportDequeued == pc = "phaseIII" /\ is_debug("EVENTS") /\ dout

\* machine::enter() and exit() also enter and exit states.
ReportEnterExit ==
    /\ pc \in {"idle", "exiting", "entering"}
    /\ is_debug("ENTER_EXIT")
    /\ dout

\* By the program, or by an action.
dump_state == pc \in UserCode /\ dout

\* By the program, or by an action: nothing forbids it.
debug(debug_state) ==
    /\ pc = "idle" \/ (FromActions /\ pc \in UserCode)
    /\ debug_state_' = debug_state
    /\ UNCHANGED <<pc, debug_indent_, preamble>>

Next ==
    \/ algorithm
    \/ ReportEvent \/ ReportDequeued \/ ReportEnterExit \/ dump_state
    \/ \E debug_state \in SUBSET Flags : debug(debug_state)

Spec == Init /\ [][Next]_vars

-----------------------------------------------------------------------------
(***************************************************************************)
(* Properties                                                               *)
(***************************************************************************)
\* If debug() is called between broadcasts only: the places of algorithm() that
\* indent and those that undo it match on every path through its loops, so that
\* the indentation is the nesting and is back at zero when the algorithm is
\* done, or is zero throughout.
IndentIsNesting ==
    debug_indent_ = IF is_debug("ALGORITHM") THEN Nesting[pc] ELSE 0

\* No line is indented more than the loops are nested: dout() writes a space at
\* a time, so an indentation that wrapped around keeps it, and the mutex the
\* broadcast holds, for billions of spaces.
PreambleBounded == preamble =< 5
=============================================================================
