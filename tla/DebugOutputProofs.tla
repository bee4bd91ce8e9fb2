-------------------------- MODULE DebugOutputProofs --------------------------
(***************************************************************************)
(* The debugging indentation, for any width of unsigned that holds the      *)
(* deepest nesting, if debug() is called between broadcasts only.           *)
(***************************************************************************)
EXTENDS DebugOutput, TLAPS

\* What is printed is indented as deep as the loops were nested.
DebugInv == TypeOK /\ IndentIsNesting /\ PreambleBounded

LEMMA NestingValues ==
    /\ \A p \in Places : Nesting[p] \in 0 .. 5
    /\ Nesting["idle"] = 0 /\ Nesting["running"] = 1
    /\ Nesting["phaseI"] = 2 /\ Nesting["eventI"] = 3
    /\ Nesting["exiting"] = 4 /\ Nesting["action"] = 5
    /\ Nesting["phaseII"] = 2 /\ Nesting["eventII"] = 3
    /\ Nesting["entering"] = 4 /\ Nesting["phaseIII"] = 2
BY DEF Nesting, Places

LEMMA DebugInit == Init => DebugInv
BY NestingValues, DebugAssumption
DEF Init, DebugInv, TypeOK, IndentIsNesting, PreambleBounded, is_debug, Nesting, Places, Flags

\* Going one level in.
LEMMA BeginPreserves ==
    ASSUME DebugInv, NEW from \in Places, NEW to \in Places,
           Nesting[to] = Nesting[from] + 1,
           Begin(from, to) \/ BeginSilently(from, to)
    PROVE  DebugInv'
<1>1. Nesting[from] \in 0 .. 5 /\ Nesting[to] \in 0 .. 5
  BY NestingValues
<1> QED
  BY <1>1, DebugAssumption
  DEF DebugInv, TypeOK, IndentIsNesting, PreambleBounded, Begin, BeginSilently, is_debug, Inc

\* Going one level out.
LEMMA EndPreserves ==
    ASSUME DebugInv, NEW from \in Places, NEW to \in Places,
           Nesting[to] = Nesting[from] - 1,
           End(from, to)
    PROVE  DebugInv'
<1>1. Nesting[from] \in 0 .. 5 /\ Nesting[to] \in 0 .. 5
  BY NestingValues
<1> QED
  BY <1>1, DebugAssumption
  DEF DebugInv, TypeOK, IndentIsNesting, PreambleBounded, End, is_debug, Dec

LEMMA NextPhasePreserves ==
    ASSUME DebugInv, NEW from \in Places, NEW to \in Places,
           Nesting[to] = 2, Nesting[from] = 2,
           NextPhase(from, to)
    PROVE  DebugInv'
<1>1. CASE is_debug("ALGORITHM")
  <2>1. debug_indent_ = 2
    BY <1>1 DEF DebugInv, IndentIsNesting, NextPhase
  <2>2. Dec(debug_indent_) = 1 /\ Inc(1) = 2
    BY <2>1, DebugAssumption DEF Dec, Inc
  <2>3. debug_indent_' = 2 /\ preamble' = 1
    BY <1>1, <2>2 DEF NextPhase
  <2> QED
    BY <1>1, <2>3, DebugAssumption
    DEF DebugInv, TypeOK, IndentIsNesting, PreambleBounded, NextPhase, is_debug
<1>2. CASE ~is_debug("ALGORITHM")
  BY <1>2 DEF DebugInv, TypeOK, IndentIsNesting, PreambleBounded, NextPhase, is_debug
<1> QED
  BY <1>1, <1>2

LEMMA AlgorithmPreserves ==
    ASSUME DebugInv, algorithm
    PROVE  DebugInv'
<1>0. {"idle", "running", "phaseI", "eventI", "exiting", "action", "phaseII",
       "eventII", "entering", "phaseIII"} \subseteq Places
  BY DEF Places, Nesting
<1>1. CASE Begin("idle", "running")
  BY <1>0, <1>1, NestingValues, BeginPreserves
<1>2. CASE Begin("running", "phaseI")
  BY <1>0, <1>2, NestingValues, BeginPreserves
<1>3. CASE Begin("phaseI", "eventI")
  BY <1>0, <1>3, NestingValues, BeginPreserves
<1>4. CASE Begin("eventI", "exiting") \/ BeginSilently("eventI", "exiting")
  BY <1>0, <1>4, NestingValues, BeginPreserves
<1>5. CASE Begin("exiting", "action")
  BY <1>0, <1>5, NestingValues, BeginPreserves
<1>6. CASE End("action", "exiting")
  BY <1>0, <1>6, NestingValues, EndPreserves
<1>7. CASE End("exiting", "eventI")
  BY <1>0, <1>7, NestingValues, EndPreserves
<1>8. CASE End("eventI", "phaseI")
  BY <1>0, <1>8, NestingValues, EndPreserves
<1>9. CASE NextPhase("phaseI", "phaseII")
  BY <1>0, <1>9, NestingValues, NextPhasePreserves
<1>10. CASE Begin("phaseII", "eventII")
  BY <1>0, <1>10, NestingValues, BeginPreserves
<1>11. CASE Begin("eventII", "entering") \/ BeginSilently("eventII", "entering")
  BY <1>0, <1>11, NestingValues, BeginPreserves
<1>12. CASE End("entering", "eventII")
  BY <1>0, <1>12, NestingValues, EndPreserves
<1>13. CASE End("eventII", "phaseII")
  BY <1>0, <1>13, NestingValues, EndPreserves
<1>14. CASE NextPhase("phaseII", "phaseIII")
  BY <1>0, <1>14, NestingValues, NextPhasePreserves
<1>15. CASE End("phaseIII", "running")
  BY <1>0, <1>15, NestingValues, EndPreserves
<1>16. CASE Complete
  BY <1>0, <1>16, NestingValues, DebugAssumption
  DEF DebugInv, TypeOK, IndentIsNesting, PreambleBounded, Complete, is_debug, Dec
<1> QED
  BY <1>1, <1>2, <1>3, <1>4, <1>5, <1>6, <1>7, <1>8, <1>9, <1>10, <1>11,
     <1>12, <1>13, <1>14, <1>15, <1>16 DEF algorithm

\* The other steps only print, or set the flags while the machine is idle.
LEMMA OthersPreserve ==
    ASSUME DebugInv, ~FromActions,
           \/ ReportEvent \/ ReportDequeued \/ ReportEnterExit \/ dump_state
           \/ \E debug_state \in SUBSET Flags : debug(debug_state)
    PROVE  DebugInv'
<1>1. Nesting[pc] \in 0 .. 5
  BY NestingValues DEF DebugInv, TypeOK
<1>2. CASE ReportEvent \/ ReportDequeued \/ ReportEnterExit \/ dump_state
  <2>1. dout
    BY <1>2 DEF ReportEvent, ReportDequeued, ReportEnterExit, dump_state
  <2> QED
    BY <2>1, <1>1, DebugAssumption
    DEF dout, DebugInv, TypeOK, IndentIsNesting, PreambleBounded, is_debug
<1>3. CASE \E debug_state \in SUBSET Flags : debug(debug_state)
  <2>1. pc = "idle" /\ debug_state_' \in SUBSET Flags
    BY <1>3 DEF debug
  <2>2. UNCHANGED <<pc, debug_indent_, preamble>>
    BY <1>3 DEF debug
  <2>3. debug_indent_ = 0
    BY <2>1, NestingValues DEF DebugInv, IndentIsNesting
  <2> QED
    BY <2>1, <2>2, <2>3, NestingValues, DebugAssumption
    DEF DebugInv, TypeOK, IndentIsNesting, PreambleBounded, is_debug
<1> QED
  BY <1>2, <1>3

\* If debug() is called between broadcasts only, the places of algorithm() that
\* indent match those that undo it on every path through its loops, for any
\* machine, and no line is indented deeper than the loops are nested.
THEOREM IndentFollowsNesting ==
    ASSUME ~FromActions
    PROVE  Spec => [](IndentIsNesting /\ PreambleBounded)
<1>1. DebugInv /\ [Next]_vars => DebugInv'
  <2> SUFFICES ASSUME DebugInv, [Next]_vars PROVE DebugInv'
    OBVIOUS
  <2>1. CASE UNCHANGED vars
    BY <2>1 DEF vars, DebugInv, TypeOK, IndentIsNesting, PreambleBounded, is_debug
  <2>2. CASE Next
    BY <2>2, AlgorithmPreserves, OthersPreserve DEF Next
  <2> QED
    BY <2>1, <2>2
<1>2. DebugInv => IndentIsNesting /\ PreambleBounded
  BY DEF DebugInv
<1> QED
  BY DebugInit, <1>1, <1>2, PTL DEF Spec
=============================================================================
