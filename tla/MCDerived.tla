------------------------------ MODULE MCDerived ------------------------------
(***************************************************************************)
(* Derived events, as in events1..5.chsmc and precondition.chsmc, with the *)
(* dominance of dominance1.chsmc and the internal transitions of           *)
(* internal.chsmc: beta is derived from alpha, both have parameters, beta  *)
(* has a precondition, actions on alpha broadcast beta and delta while     *)
(* alpha is still in progress, and entering b broadcasts alpha, beta or    *)
(* both, which a later micro-step processes together.                      *)
(***************************************************************************)
EXTENDS MCTables

MCChildren == [root |-> <<"p", "r">>, p |-> <<"a", "b">>,
               r |-> <<>>, a |-> <<>>, b |-> <<>>]
MCStates   == DOMAIN MCChildren
MCParent   == ParentTable(MCChildren)
MCKind     == Table(MCStates, [root |-> "cluster", p |-> "cluster"], "state")

MCEvents     == {"alpha", "beta", "delta"}
MCBase       == Table(MCEvents, [beta |-> "alpha"], NIL)
MCNoEvent    == Table(MCStates, None, NIL)

MCTrs == [t1 |-> External("p", "r"), t2 |-> External("a", "b"),
          t3 |-> External("b", "a"), t4 |-> Internal("p"),
          t5 |-> Computed("r", {"b", NIL}), t6 |-> External("p", "r"),
          t7 |-> External("b", "r"), t8 |-> Internal("r")]
MCTransitions    == DOMAIN MCTrs
MCTransitionList == [alpha |-> <<"t4", "t6", "t2", "t3", "t7", "t8">>, beta |-> <<"t1">>,
                     delta |-> <<"t5">>]
MCFrom     == FromTable(MCTrs)
MCTo       == ToTable(MCTrs)
MCTargetFn == FnTable(MCTrs)

MCEmitsNothing == Table(MCStates, None, {})
MCEnterEmits   == Table(MCStates, [b |-> {"alpha", "beta"}], {})
MCActionEmits  == Table(MCTransitions, [t2 |-> {"beta"}, t4 |-> {"beta", "delta"},
                                        t8 |-> {"beta", "delta"}], {})

=============================================================================
