----------------------------- MODULE MCMicrostep -----------------------------
(***************************************************************************)
(* The machine of test/c++/tests/microstep2.chsmc: a set of two clusters,  *)
(* where the states of one react to the other's being entered and exited.  *)
(* Actions broadcast alpha, beta and delta from within a micro-step; no    *)
(* transition is on delta.  gamma leaves the set.                          *)
(***************************************************************************)
EXTENDS MCTables

MCChildren == [root |-> <<"s", "o">>, s |-> <<"y", "x">>, o |-> <<>>,
               x |-> <<"a", "b">>, y |-> <<"c", "d">>,
               a |-> <<>>, b |-> <<>>, c |-> <<>>, d |-> <<>>]
MCStates   == DOMAIN MCChildren
MCParent   == ParentTable(MCChildren)
MCKind     == Table(MCStates, [root |-> "cluster", s |-> "set", x |-> "cluster",
                               y |-> "cluster"], "state")
MCHistory  == {"x"}

MCEvents     == {"alpha", "beta", "gamma", "delta", "exit_a", "enter_b"}
MCBase       == Table(MCEvents, None, NIL)
MCEnterEvent == Table(MCStates, [b |-> "enter_b"], NIL)
MCExitEvent  == Table(MCStates, [a |-> "exit_a"], NIL)

MCTrs == [t1 |-> External("a", "b"), t2 |-> External("b", "a"),
          t3 |-> External("c", "d"), t4 |-> External("d", "c"),
          t5 |-> External("s", "o"), t6 |-> External("o", "s")]
MCTransitions    == DOMAIN MCTrs
MCTransitionList == [alpha |-> <<"t2">>, beta |-> <<"t1">>, exit_a |-> <<"t3">>,
                     enter_b |-> <<"t4">>, gamma |-> <<"t5", "t6">>,
                     delta |-> <<>>]
MCFrom           == FromTable(MCTrs)
MCTo             == ToTable(MCTrs)
MCTargetFn       == FnTable(MCTrs)

MCEnterEmits  == Table(MCStates, [d |-> {"alpha", "delta"}, c |-> {"beta"}], {})
MCExitEmits   == Table(MCStates, None, {})
MCActionEmits == Table(MCTransitions, [t3 |-> {"alpha"}], {})

=============================================================================
