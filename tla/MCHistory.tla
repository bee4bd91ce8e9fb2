------------------------------ MODULE MCHistory ------------------------------
(***************************************************************************)
(* The machine of history1.chsmc: a cluster with deep history that is      *)
(* entered by default (gamma), directly at an inner state (alpha), left    *)
(* (beta), and cleared; inside it, delta computes its target and may get   *)
(* none (target1.chsmc, target2.chsmc).                                    *)
(***************************************************************************)
EXTENDS MCTables

VARIABLE lastActive     \* history: the child of each cluster entered last

MCChildren == [root |-> <<"a", "c">>, c |-> <<"i", "j">>, j |-> <<"x", "y">>,
               a |-> <<>>, i |-> <<>>, x |-> <<>>, y |-> <<>>]
MCStates   == DOMAIN MCChildren
MCParent   == ParentTable(MCChildren)
MCKind     == Table(MCStates, [root |-> "cluster", c |-> "cluster", j |-> "cluster"], "state")
MCHistory_ == {"c", "j"}

MCEvents  == {"alpha", "beta", "gamma", "delta"}
MCBase    == Table(MCEvents, None, NIL)
MCNoEvent == Table(MCStates, None, NIL)

MCTrs == [t1 |-> External("a", "y"), t2 |-> External("c", "a"), t3 |-> External("a", "c"),
          t4 |-> Computed("i", {"j", "y", NIL}), t5 |-> Computed("j", {"i", "j", NIL})]
MCTransitions    == DOMAIN MCTrs
MCTransitionList == [alpha |-> <<"t1">>, beta |-> <<"t2">>, gamma |-> <<"t3">>,
                     delta |-> <<"t4", "t5">>]
MCFrom     == FromTable(MCTrs)
MCTo       == ToTable(MCTrs)
MCTargetFn == FnTable(MCTrs)

MCEmitsNothing == Table(MCStates, None, {})
MCNoAction     == Table(MCTransitions, None, {})

-----------------------------------------------------------------------------
\* The children that a step makes active.
Entered(s) == {c \in States : Parent[c] = s /\ ~ Active(c) /\ Active(c)'}

\* A step that clears the history of a cluster: no call is in progress.
Cleared(s) == UNCHANGED stack /\ last_child_'[s] # last_child_[s]

HInit == Init /\ lastActive = [s \in States |-> NIL]

HNext ==
    /\ Next
    /\ lastActive' = [s \in States |->
           IF Entered(s) # {} THEN CHOOSE c \in Entered(s) : TRUE
           ELSE IF Cleared(s) THEN last_child_'[s] ELSE lastActive[s]]

HSpec == HInit /\ [][HNext]_<<vars, lastActive>>

\* chsm.h on clusters: "if a cluster does have a history and it has been visited
\* before, then the child-state entered after it itself is entered is the one
\* that was last active"; without a history it is the default one.
HistoryRestored ==
    \A t \in Threads : At(t, "cluster_enter") /\ ret[t] /\ Top(t).c = NIL =>
        LET s == Top(t).s
        IN  ChildToEnter(s, NIL) =
                IF s \in History /\ lastActive[s] # NIL THEN lastActive[s]
                ELSE Head(Children[s])

=============================================================================
