------------------------------ MODULE MCHazards ------------------------------
(***************************************************************************)
(* One small machine per disagreement between the run-time library and     *)
(* what its manual or comments say.  They share a tree: a state o, a set s *)
(* of two clusters x and y, and a cluster p; each configuration chooses    *)
(* the transitions and the broadcasts of its machine.                      *)
(***************************************************************************)
EXTENDS MCTables

MCChildren == [root |-> <<"s", "o", "p">>, s |-> <<"x", "y">>, x |-> <<"a", "b">>,
               y |-> <<"c", "d">>, p |-> <<"q">>, o |-> <<>>, q |-> <<>>,
               a |-> <<>>, b |-> <<>>, c |-> <<>>, d |-> <<>>]
MCStates   == DOMAIN MCChildren
MCParent   == ParentTable(MCChildren)
MCKind     == Table(MCStates, [root |-> "cluster", s |-> "set", x |-> "cluster",
                               y |-> "cluster", p |-> "cluster"], "state")

MCEvents    == {"alpha", "beta", "gamma", "exit_a"}
MCBase      == Table(MCEvents, [beta |-> "alpha"], NIL)
MCNoEvent   == Table(MCStates, None, NIL)
MCExitEvent == Table(MCStates, [a |-> "exit_a"], NIL)

MCTrs == [so |-> External("s", "o"), ob |-> External("o", "b"), sq |-> External("s", "q"),
          ab |-> External("a", "b"), aa |-> External("a", "a"), cd |-> External("c", "d"),
          anil |-> Computed("a", {NIL})]
MCTransitions == DOMAIN MCTrs
MCFrom        == FromTable(MCTrs)
MCTo          == ToTable(MCTrs)
MCTargetFn    == FnTable(MCTrs)

Lists(t) == Table(MCEvents, t, <<>>)

MCStateEmitsNothing == Table(MCStates, None, {})
MCNoAction          == Table(MCTransitions, None, {})

\* o -> s.x.b: a state below a set is entered directly.
DeepEntry == Lists([alpha |-> <<"so">>, gamma |-> <<"ob">>])

\* alpha -> [ null ] in s.x.a and alpha -> d in s.y.c.
NullTarget == Lists([alpha |-> <<"anil", "cd">>])

\* gamma leaves the set in the micro-step in which exit(a) moves inside it.
LeaveSet        == Lists([alpha |-> <<"ab">>, exit_a |-> <<"cd">>, gamma |-> <<"sq">>])
LeaveSetActions == Table(MCTransitions, [ab |-> {"gamma"}], {})

\* The exit action of a broadcasts gamma, on which the set is left.
ExitBroadcast      == Lists([gamma |-> <<"so">>])
ExitBroadcastEmits == Table(MCStates, [a |-> {"gamma"}], {})

\* A condition on alpha reads its parameters; beta is derived from alpha.
BaseParams == Lists([alpha |-> <<"ab">>])

\* alpha leaves the set, beta (derived from alpha) moves inside it.
DerivedDominance == Lists([alpha |-> <<"so">>, beta |-> <<"ab">>])

\* alpha reenters a, whose enter action broadcasts beta, derived from alpha.
Reenter      == Lists([alpha |-> <<"aa">>])
ReenterEmits == Table(MCStates, [a |-> {"beta"}], {})

\* gamma reenters a, whose enter action broadcasts alpha and then beta, derived from alpha;
\* beta moves in y.
SharedParams      == Lists([gamma |-> <<"aa">>, alpha |-> <<"ab">>, beta |-> <<"cd">>])
SharedParamsEmits == Table(MCStates, [a |-> {"alpha", "beta"}], {})

\* chsm smallest is { }
SmallestChildren == [root |-> <<>>]
SmallestParent   == [root |-> NIL]
SmallestKind     == [root |-> "cluster"]
SmallestEmits    == [root |-> {}]
=============================================================================
