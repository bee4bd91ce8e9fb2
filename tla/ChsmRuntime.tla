----------------------------- MODULE ChsmRuntime -----------------------------
(***************************************************************************)
(* The C++ run-time library of CHSM (libchsm): states, clusters and sets   *)
(* that are entered and exited, events that are broadcast under the        *)
(* machine's recursive mutex, and the micro-step algorithm.                *)
(*                                                                         *)
(* The functions of the library call each other recursively and call user  *)
(* code that broadcasts again, so every thread has a stack of frames; the  *)
(* head of the stack is the running frame and its "pc" names the piece of  *)
(* code it runs next.  One action is the code of a function up to its next *)
(* call, or one shared access where other threads can interleave.          *)
(*                                                                         *)
(* A step that would dereference a null pointer is not enabled: the thread *)
(* stays in front of it, and NoNullDereference says that never happens.    *)
(***************************************************************************)
EXTENDS ChsmTables

CONSTANTS
    Threads,        \* threads that broadcast events
    Owners,         \* threads that also enter, exit and clear the machine
    Serialised      \* do clients keep those calls apart from all others?

ASSUME ThreadAssumption ==
    NIL \notin Threads /\ Owners \subseteq Threads /\ Serialised \in BOOLEAN

VARIABLES
    state_,         \* state::state_
    active_child_,  \* cluster::active_child_
    last_child_,    \* cluster::last_child_
    taken_,         \* machine::taken_: the event a transition is marked by
    target_,        \* machine::target_
    event_queue_,   \* machine::event_queue_
    in_progress_,   \* machine::in_progress_
    in_progress,    \* event::in_progress_, a counter per event
    param_block_,   \* event::param_block_: the event whose buffer it points to
    owner,          \* machine::mutex_, a recursive mutex: who holds it ...
    depth,          \* ... and how many times
    stack,          \* the call stack of every thread
    ret             \* what the last library call of a thread returned

treeVars  == <<state_, active_child_, last_child_>>
markVars  == <<taken_, target_>>
queueVars == <<event_queue_, in_progress_, in_progress, param_block_>>
lockVars  == <<owner, depth>>
callVars  == <<stack, ret>>
vars      == <<treeVars, markVars, queueVars, lockVars, callVars>>

INACTIVE == "STATE_INACTIVE"
ACTIVE   == "STATE_ACTIVE"

\* Mutant: a disabled state is not told from an active one.
NeverDisabled == "STATE_ACTIVE"

DISABLED == "STATE_ACTIVE_DISABLED"

\* state::active(): plain active or active but disabled.
Active(s) == state_[s] # INACTIVE

-----------------------------------------------------------------------------
(* Frames.                                                                 *)

PCs == { "state_enter", "parent_entered", "switch_active_child", "activate",
         "cluster_enter", "set_enter", "set_enter_children", "return_true",
         "state_exit", "exit_parent", "cluster_exit", "set_exit",
         "set_exit_children", "user", "lock", "broadcast", "precondition",
         "find_transition", "unlock", "algorithm", "micro_step",
         "phase1", "exit_from", "action", "phase2", "enter_to", "unmark",
         "phase3" }

Frame == [ pc    : PCs,
           s     : StateOrNil,      \* the state whose method runs
           c     : StateOrNil,      \* from_child of enter(), to of exit()
           e     : EventOrNil,      \* the event broadcast or processed
           list  : EventOrNil,      \* const_iterator: whose transitions_
           i     : Nat,             \* ... at which index; or a child's index
           found : BOOLEAN,         \* find_transition()'s result so far
           q     : Nat,             \* algorithm(): index into event_queue_
           n     : Nat,             \* algorithm(): events_in_step
           emits : SUBSET Events ]  \* what a block of user code broadcasts

F0 == [ pc |-> "return_true", s |-> NIL, c |-> NIL, e |-> NIL, list |-> NIL,
        i |-> 0, found |-> FALSE, q |-> 0, n |-> 0, emits |-> {} ]

StateFrame(pc, s, c) == [F0 EXCEPT !.pc = pc, !.s = s, !.c = c]

EventFrame(pc, e) == [F0 EXCEPT !.pc = pc, !.e = e]

\* A block of user code that may still broadcast MaxEmits events.
UserFrame(events) == [F0 EXCEPT !.pc = "user", !.i = MaxEmits, !.emits = events]

\* What calling the virtual enter() of a state pushes.  cluster::enter() and
\* set::enter() first call state::enter() and continue with its result.
EnterCall(s, from_child) ==
    <<StateFrame("state_enter", s, NIL)>> \o
    ( CASE IsCluster(s) -> <<StateFrame("cluster_enter", s, from_child)>>
        [] IsSet(s)     -> <<StateFrame("set_enter", s, NIL)>>
        [] OTHER        -> <<>> )

\* What calling the virtual exit() of a state pushes.
ExitCall(s, to) ==
    << CASE IsCluster(s) -> StateFrame("cluster_exit", s, to)
         [] IsSet(s)     -> StateFrame("set_exit", s, to)
         [] OTHER        -> StateFrame("state_exit", s, to) >>

\* What broadcasting an enter(s) or exit(s) event pushes: nothing if no
\* transition is on it.
LockBroadcast(e) == IF e = NIL THEN <<>> ELSE <<EventFrame("lock", e)>>

Top(t) == Head(stack[t])

At(t, pc) == stack[t] # <<>> /\ Top(t).pc = pc

\* Replace the running frame by a sequence of frames.
Become(t, frames) ==
    stack' = [stack EXCEPT ![t] = frames \o Tail(stack[t])]

\* Continue the running frame elsewhere.
Goto(t, frame) == Become(t, <<frame>>) /\ UNCHANGED ret

\* Call, and continue with the given frame after the return.
CallThen(t, frames, frame) == Become(t, Append(frames, frame)) /\ UNCHANGED ret

ReturnVoid(t) == Become(t, <<>>) /\ UNCHANGED ret

Return(t, result) == Become(t, <<>>) /\ ret' = [ret EXCEPT ![t] = result]

-----------------------------------------------------------------------------
Init ==
    /\ state_ = [s \in States |-> INACTIVE]
    /\ active_child_ = [s \in States |-> NIL]
    /\ last_child_ = [s \in States |-> NIL]
    /\ taken_ = [tr \in Transitions |-> NIL]
    /\ target_ = [tr \in Transitions |-> NIL]
    /\ event_queue_ = <<>>
    /\ in_progress_ = FALSE
    /\ in_progress = [e \in Events |-> 0]
    /\ param_block_ = [e \in Events |-> NIL]
    /\ owner = NIL
    /\ depth = 0
    /\ stack = [t \in Threads |-> <<>>]
    /\ ret = [t \in Threads |-> FALSE]

-----------------------------------------------------------------------------
(* What a client may call from an idle thread.  Only broadcasts take the   *)
(* lock; entering, exiting and clearing a machine do not, so a client that *)
(* keeps to what the manual promises (Serialised) makes those calls while  *)
(* no other call is in progress.                                           *)

Idle(t) == stack[t] = <<>>

Broadcasting(t) == stack[t] # <<>> /\ stack[t][Len(stack[t])].pc \in {"lock", "unlock"}

Call(t, frames) ==
    /\ Idle(t)
    /\ stack' = [stack EXCEPT ![t] = frames]
    /\ UNCHANGED <<treeVars, markVars, queueVars, lockVars, ret>>

MayOwn(t) == t \in Owners /\ (Serialised => \A u \in Threads : Idle(u))

\* event::operator()() on a user event.
UserEvents == Events \ ({EnterEvent[s] : s \in States} \cup {ExitEvent[s] : s \in States})

CallEvent(t, e) ==
    /\ e \in UserEvents
    /\ Serialised => \A u \in Threads : Idle(u) \/ Broadcasting(u)
    /\ Call(t, <<EventFrame("lock", e)>>)

\* machine::enter() and machine::exit(): the root cluster, without the lock.
CallEnter(t) == MayOwn(t) /\ Call(t, EnterCall(Root, NIL))

CallExit(t) == MayOwn(t) /\ Call(t, ExitCall(Root, NIL))

\* cluster::clear() makes the default child the last one again.
HasDefault(s) == IsCluster(s) /\ Children[s] # <<>>

CallClear(t, s) ==
    /\ Idle(t) /\ MayOwn(t) /\ HasDefault(s)
    /\ last_child_' = [last_child_ EXCEPT ![s] = Head(Children[s])]
    /\ UNCHANGED <<state_, active_child_, markVars, queueVars, lockVars, callVars>>

\* deep_clear() does so for a state and every cluster below it.
CallDeepClear(t, s) ==
    /\ Idle(t) /\ MayOwn(t)
    /\ last_child_' = [d \in States |-> IF HasDefault(d) /\ s \in Ancestors(d) \cup {d}
                                        THEN Head(Children[d]) ELSE last_child_[d]]
    /\ UNCHANGED <<state_, active_child_, markVars, queueVars, lockVars, callVars>>

-----------------------------------------------------------------------------
(* User code: an enter, exit or transition action.  It broadcasts some of  *)
(* its events and returns; an exception it throws is ignored by its caller *)
(* and so ends it like a return.                                           *)

UserBroadcast(t) ==
    /\ At(t, "user") /\ Top(t).i > 0
    /\ \E e \in Top(t).emits :
         CallThen(t, <<EventFrame("lock", e)>>, [Top(t) EXCEPT !.i = @ - 1])
    /\ UNCHANGED <<treeVars, markVars, queueVars, lockVars>>

UserReturn(t) ==
    /\ At(t, "user")
    /\ Return(t, TRUE)
    /\ UNCHANGED <<treeVars, markVars, queueVars, lockVars>>

-----------------------------------------------------------------------------
(* state::enter(), cluster::enter(), set::enter()                          *)

StateEnter(t) ==
    /\ At(t, "state_enter")
    /\ LET s == Top(t).s
           p == Parent[s]
       IN  IF Active(s) THEN Return(t, FALSE)
           ELSE IF p = NIL THEN Goto(t, StateFrame("activate", s, NIL))
           ELSE IF ~ Active(p)
                THEN CallThen(t, EnterCall(p, s), StateFrame("parent_entered", s, NIL))
           ELSE Goto(t, StateFrame("switch_active_child", s, NIL))
    /\ UNCHANGED <<treeVars, markVars, queueVars, lockVars>>

\* Back from the parent's enter(), whose result is ignored: a set has entered
\* this state too.
ParentEntered(t) ==
    /\ At(t, "parent_entered")
    /\ LET s == Top(t).s
       IN  IF Active(s) THEN Return(t, FALSE)
           ELSE Goto(t, StateFrame("activate", s, NIL))
    /\ UNCHANGED <<treeVars, markVars, queueVars, lockVars>>

\* Mutant: a child is switched to although another one is active.
SwitchWithoutPermission(t) ==
    /\ At(t, "switch_active_child")
    /\ LET s == Top(t).s
           p == Parent[s]
       IN  IF ~ IsCluster(p)
           THEN /\ Goto(t, StateFrame("activate", s, NIL))
                /\ UNCHANGED treeVars
           ELSE /\ active_child_[p] # NIL
                /\ active_child_' = [active_child_ EXCEPT ![p] = s]
                /\ last_child_' = [last_child_ EXCEPT ![p] = s]
                /\ Goto(t, StateFrame("activate", s, NIL))
                /\ UNCHANGED state_
    /\ UNCHANGED <<markVars, queueVars, lockVars>>

\* parent::switch_active_child_to() grants; cluster's version refuses while its
\* active child is active.
SwitchActiveChildTo(t) ==
    /\ At(t, "switch_active_child")
    /\ LET s == Top(t).s
           p == Parent[s]
       IN  IF ~ IsCluster(p)
           THEN /\ Goto(t, StateFrame("activate", s, NIL))
                /\ UNCHANGED treeVars
           ELSE /\ active_child_[p] # NIL
                /\ IF Active(active_child_[p])
                   THEN Return(t, FALSE) /\ UNCHANGED treeVars
                   ELSE /\ active_child_' = [active_child_ EXCEPT ![p] = s]
                        /\ last_child_' = [last_child_ EXCEPT ![p] = s]
                        /\ Goto(t, StateFrame("activate", s, NIL))
                        /\ UNCHANGED state_
    /\ UNCHANGED <<markVars, queueVars, lockVars>>

\* The rest of state::enter(): broadcast enter(s), then run the enter action.
Activate(t) ==
    /\ At(t, "activate")
    /\ LET s == Top(t).s
       IN  /\ state_' = [state_ EXCEPT ![s] = ACTIVE]
           /\ CallThen(t, LockBroadcast(EnterEvent[s]), UserFrame(EnterEmits[s]))
    /\ UNCHANGED <<active_child_, last_child_, markVars, queueVars, lockVars>>

\* Mutant: always the default child.
ChildToEnterDefault(s, from_child) == Head(Children[s])

\* The child cluster::enter() makes active: the one being entered directly, the
\* last active one, or the default (first) one.
ChildToEnter(s, from_child) ==
    IF from_child # NIL THEN from_child
    ELSE IF last_child_[s] = NIL \/ s \notin History THEN Head(Children[s])
    ELSE last_child_[s]

ClusterEnter(t) ==
    /\ At(t, "cluster_enter")
    /\ LET s == Top(t).s
           child == ChildToEnter(s, Top(t).c)
       IN  IF ~ ret[t] \/ Children[s] = <<>>
           THEN Return(t, ret[t]) /\ UNCHANGED treeVars
           ELSE /\ active_child_' = [active_child_ EXCEPT ![s] = child]
                /\ last_child_' = [last_child_ EXCEPT ![s] = child]
                /\ UNCHANGED state_
                /\ IF Top(t).c # NIL
                   THEN Return(t, TRUE)
                   ELSE CallThen(t, EnterCall(child, NIL), F0)
    /\ UNCHANGED <<markVars, queueVars, lockVars>>

SetEnter(t) ==
    /\ At(t, "set_enter")
    /\ IF ~ ret[t] THEN Return(t, FALSE)
       ELSE Goto(t, [Top(t) EXCEPT !.pc = "set_enter_children", !.i = 1])
    /\ UNCHANGED <<treeVars, markVars, queueVars, lockVars>>

SetEnterChildren(t) ==
    /\ At(t, "set_enter_children")
    /\ LET f == Top(t)
       IN  IF f.i > Len(Children[f.s]) THEN Return(t, TRUE)
           ELSE CallThen(t, EnterCall(Children[f.s][f.i], NIL), [f EXCEPT !.i = @ + 1])
    /\ UNCHANGED <<treeVars, markVars, queueVars, lockVars>>

ReturnTrue(t) ==
    /\ At(t, "return_true")
    /\ Return(t, TRUE)
    /\ UNCHANGED <<treeVars, markVars, queueVars, lockVars>>

-----------------------------------------------------------------------------
(* state::exit(), cluster::exit(), set::exit()                             *)

\* The first part of state::exit(): broadcast exit(s), run the exit action.
StateExit(t) ==
    /\ At(t, "state_exit")
    /\ LET s == Top(t).s
       IN  IF ~ Active(s)
           THEN Return(t, FALSE) /\ UNCHANGED state_
           ELSE /\ state_' = [state_ EXCEPT ![s] = INACTIVE]
                /\ CallThen(t, Append(LockBroadcast(ExitEvent[s]), UserFrame(ExitEmits[s])),
                               [Top(t) EXCEPT !.pc = "exit_parent"])
    /\ UNCHANGED <<active_child_, last_child_, markVars, queueVars, lockVars>>

\* The rest of it: force the parent to exit unless it is an ancestor of `to'.
ExitParent(t) ==
    /\ At(t, "exit_parent")
    /\ LET f == Top(t)
           p == Parent[f.s]
       IN  IF f.c # NIL /\ p # NIL /\ p \notin Ancestors(f.c)
           THEN CallThen(t, ExitCall(p, f.c), F0)
           ELSE Return(t, TRUE)
    /\ UNCHANGED <<treeVars, markVars, queueVars, lockVars>>

\* Mutant: the active child is not exited.
ClusterExitForgetsChild(t) ==
    /\ At(t, "cluster_exit")
    /\ LET f == Top(t)
       IN  IF ~ Active(f.s) THEN Return(t, FALSE)
           ELSE /\ active_child_[f.s] # NIL
                /\ Goto(t, StateFrame("state_exit", f.s, f.c))
    /\ UNCHANGED <<treeVars, markVars, queueVars, lockVars>>

\* cluster::exit() exits the active child first; the pointer is not checked.
ClusterExit(t) ==
    /\ At(t, "cluster_exit")
    /\ LET f == Top(t)
       IN  IF ~ Active(f.s) THEN Return(t, FALSE)
           ELSE /\ active_child_[f.s] # NIL
                /\ CallThen(t, ExitCall(active_child_[f.s], NIL),
                               StateFrame("state_exit", f.s, f.c))
    /\ UNCHANGED <<treeVars, markVars, queueVars, lockVars>>

SetExit(t) ==
    /\ At(t, "set_exit")
    /\ IF ~ Active(Top(t).s) THEN Return(t, FALSE)
       ELSE Goto(t, [Top(t) EXCEPT !.pc = "set_exit_children", !.i = 1])
    /\ UNCHANGED <<treeVars, markVars, queueVars, lockVars>>

SetExitChildren(t) ==
    /\ At(t, "set_exit_children")
    /\ LET f == Top(t)
       IN  IF f.i > Len(Children[f.s]) THEN Goto(t, StateFrame("state_exit", f.s, f.c))
           ELSE CallThen(t, ExitCall(Children[f.s][f.i], NIL), [f EXCEPT !.i = @ + 1])
    /\ UNCHANGED <<treeVars, markVars, queueVars, lockVars>>

-----------------------------------------------------------------------------
(* event::operator()(), event::lock_broadcast() and event::broadcast()     *)

\* Mutant: locking again does not count.
LockUncounted(t) ==
    /\ At(t, "lock")
    /\ owner \in {NIL, t}
    /\ owner' = t
    /\ depth' = 1
    /\ CallThen(t, <<EventFrame("broadcast", Top(t).e)>>, EventFrame("unlock", NIL))
    /\ UNCHANGED <<treeVars, markVars, queueVars>>

\* machine_lock's constructor: the mutex is recursive.
Lock(t) ==
    /\ At(t, "lock")
    /\ owner \in {NIL, t}
    /\ owner' = t
    /\ depth' = depth + 1
    /\ CallThen(t, <<EventFrame("broadcast", Top(t).e)>>, EventFrame("unlock", NIL))
    /\ UNCHANGED <<treeVars, markVars, queueVars>>

\* machine_lock's destructor.
Unlock(t) ==
    /\ At(t, "unlock")
    /\ depth' = depth - 1
    /\ owner' = IF depth = 1 THEN NIL ELSE owner
    /\ ReturnVoid(t)
    /\ UNCHANGED <<treeVars, markVars, queueVars>>

\* The counters after event e and its base events are marked as in progress.
Marked(e) == [b \in Events |-> in_progress[b] + (IF b \in Chain(e) THEN 1 ELSE 0)]

\* The counters after event::broadcasted().
Unmarked(e) ==
    IF in_progress[e] = 0 THEN in_progress
    ELSE [b \in Events |-> IF b \in Chain(e) /\ in_progress[b] > 0
                           THEN in_progress[b] - 1 ELSE in_progress[b]]

\* An event already in progress is dropped; a parameterised one before its
\* parameter block is overwritten.
BroadcastDropped(t) ==
    /\ At(t, "broadcast") /\ in_progress[Top(t).e] > 0
    /\ ReturnVoid(t)
    /\ UNCHANGED <<treeVars, markVars, queueVars, lockVars>>

Broadcast(t) ==
    /\ At(t, "broadcast") /\ in_progress[Top(t).e] = 0
    /\ LET e == Top(t).e
       IN  /\ in_progress' = Marked(e)
           /\ param_block_' = [param_block_ EXCEPT ![e] = ParamBlock(e)]
           /\ Goto(t, EventFrame("precondition", e))
    /\ UNCHANGED <<treeVars, markVars, event_queue_, in_progress_, lockVars>>

\* The event is not to be queued: it is no longer in progress.
Cancel(t) ==
    /\ in_progress' = Unmarked(Top(t).e)
    /\ ReturnVoid(t)
    /\ UNCHANGED <<treeVars, markVars, event_queue_, in_progress_, param_block_, lockVars>>

\* A precondition that is false or throws cancels the broadcast.
PreconditionFalse(t) ==
    /\ At(t, "precondition") /\ Top(t).e \in Preconditioned
    /\ Cancel(t)

PreconditionTrue(t) ==
    /\ At(t, "precondition")
    /\ Goto(t, [Top(t) EXCEPT !.pc = "find_transition", !.list = Top(t).e, !.i = 1])
    /\ UNCHANGED <<treeVars, markVars, queueVars, lockVars>>

-----------------------------------------------------------------------------
(* event::const_iterator: the transitions of an event, then of its base    *)
(* event and so on.                                                        *)

InList(f) == f.i <= Len(TransitionList[f.list])

\* Mutant: transitions are iterated from the last to the first.
CurTransitionReversed(f) ==
    TransitionList[f.list][Len(TransitionList[f.list]) + 1 - f.i]

CurTransition(f) == TransitionList[f.list][f.i]

NextTransition(f) == [f EXCEPT !.i = @ + 1]

\* bump(): proceed to the transitions of the base event.
CanBump(f) == ~ InList(f) /\ Base[f.list] # NIL

AtEnd(f) == ~ InList(f) /\ Base[f.list] = NIL

Bump(t) ==
    /\ \E pc \in {"find_transition", "exit_from", "enter_to"} : At(t, pc)
    /\ CanBump(Top(t))
    /\ Goto(t, [Top(t) EXCEPT !.list = Base[@], !.i = 1])
    /\ UNCHANGED <<treeVars, markVars, queueVars, lockVars>>

-----------------------------------------------------------------------------
(* event::find_transition(), one transition at a time.                     *)

AtTransition(t, pc) == At(t, pc) /\ InList(Top(t))

\* A condition reads the parameters through the event its transition is on.
ParamsReadable(t, tr) == tr \in ReadsParams => param_block_[Top(t).list] # NIL

\* A transition whose "from" state is not plain active, or whose condition is
\* false or throws, is passed over.
FindSkip(t) ==
    /\ AtTransition(t, "find_transition")
    /\ LET tr == CurTransition(Top(t))
       IN  \/ state_[From[tr]] # ACTIVE
           \/ tr \in Conditional /\ ParamsReadable(t, tr)
    /\ Goto(t, NextTransition(Top(t)))
    /\ UNCHANGED <<treeVars, markVars, queueVars, lockVars>>

\* The condition, if any, is true: mark the transition unless it is marked.
MarkTaken(t, tr) ==
    /\ state_[From[tr]] = ACTIVE
    /\ ParamsReadable(t, tr)
    /\ taken_' = [taken_ EXCEPT ![tr] = IF @ = NIL THEN Top(t).e ELSE @]

FindInternal(t) ==
    /\ AtTransition(t, "find_transition")
    /\ LET tr == CurTransition(Top(t))
       IN  IsInternal(tr) /\ MarkTaken(t, tr)
    /\ Goto(t, [NextTransition(Top(t)) EXCEPT !.found = TRUE])
    /\ UNCHANGED <<treeVars, target_, queueVars, lockVars>>

\* The target function returned null or threw: skip this transition.
FindAborted(t) ==
    /\ AtTransition(t, "find_transition")
    /\ LET tr == CurTransition(Top(t))
       IN  NIL \in TargetFn[tr] /\ MarkTaken(t, tr)
    /\ Goto(t, NextTransition(Top(t)))
    /\ UNCHANGED <<treeVars, target_, queueVars, lockVars>>

\* A target was found (assert: a legal one).  Disable the "from" state.
FindExternal(t) ==
    /\ AtTransition(t, "find_transition")
    /\ LET tr == CurTransition(Top(t))
       IN  /\ ~ IsInternal(tr) /\ MarkTaken(t, tr)
           /\ \E to \in PossibleTargets(tr) \ {NIL} :
                /\ TargetFn[tr] # {} => IsLegal(From[tr], to)
                /\ target_' = [target_ EXCEPT ![tr] = to]
           /\ state_' = [state_ EXCEPT ![From[tr]] = DISABLED]
    /\ Goto(t, [NextTransition(Top(t)) EXCEPT !.found = TRUE])
    /\ UNCHANGED <<active_child_, last_child_, queueVars, lockVars>>

\* Back in broadcast(): queue the event and run the algorithm ...
FoundTransition(t) ==
    /\ At(t, "find_transition") /\ AtEnd(Top(t)) /\ Top(t).found
    /\ event_queue_' = Append(event_queue_, Top(t).e)
    /\ Goto(t, EventFrame("algorithm", NIL))
    /\ UNCHANGED <<treeVars, markVars, in_progress_, in_progress, param_block_, lockVars>>

\* ... or forget it.
FoundNone(t) ==
    /\ At(t, "find_transition") /\ AtEnd(Top(t)) /\ ~ Top(t).found
    /\ Cancel(t)

-----------------------------------------------------------------------------
(* machine::algorithm()                                                    *)

AlgorithmNested(t) ==
    /\ At(t, "algorithm") /\ in_progress_
    /\ ReturnVoid(t)
    /\ UNCHANGED <<treeVars, markVars, queueVars, lockVars>>

\* Mutant: a broadcast from an action runs the algorithm again.
AlgorithmReenter(t) ==
    /\ At(t, "algorithm")
    /\ in_progress_' = TRUE
    /\ Goto(t, EventFrame("micro_step", NIL))
    /\ UNCHANGED <<treeVars, markVars, event_queue_, in_progress, param_block_, lockVars>>

AlgorithmBegin(t) ==
    /\ At(t, "algorithm") /\ ~ in_progress_
    /\ in_progress_' = TRUE
    /\ Goto(t, EventFrame("micro_step", NIL))
    /\ UNCHANGED <<treeVars, markVars, event_queue_, in_progress, param_block_, lockVars>>

AlgorithmEnd(t) ==
    /\ At(t, "micro_step") /\ event_queue_ = <<>>
    /\ in_progress_' = FALSE
    /\ ReturnVoid(t)
    /\ UNCHANGED <<treeVars, markVars, event_queue_, in_progress, param_block_, lockVars>>

\* The events of a micro-step are those queued when it begins.
MicroStep(t) ==
    /\ At(t, "micro_step") /\ event_queue_ # <<>>
    /\ Goto(t, [F0 EXCEPT !.pc = "phase1", !.q = 1, !.n = Len(event_queue_)])
    /\ UNCHANGED <<treeVars, markVars, queueVars, lockVars>>

\* Iterate the transitions of the q-th event of the micro-step.
Iterate(f, pc) ==
    LET e == event_queue_[f.q]
    IN  [f EXCEPT !.pc = pc, !.e = e, !.list = e, !.i = 1]

\* Mutant: the base events keep their parameter blocks.
Phase1EventUnshared(t) ==
    /\ At(t, "phase1") /\ Top(t).q <= Top(t).n
    /\ Goto(t, Iterate(Top(t), "exit_from"))
    /\ UNCHANGED <<treeVars, markVars, queueVars, lockVars>>

\* Phase I: for every event, its base events share its parameter block ...
Phase1Event(t) ==
    /\ At(t, "phase1") /\ Top(t).q <= Top(t).n
    /\ LET e == event_queue_[Top(t).q]
       IN  param_block_' = [b \in Events |-> IF b \in Chain(e) THEN param_block_[e]
                                             ELSE param_block_[b]]
    /\ Goto(t, Iterate(Top(t), "exit_from"))
    /\ UNCHANGED <<treeVars, markVars, event_queue_, in_progress_, in_progress, lockVars>>

Phase1End(t) ==
    /\ At(t, "phase1") /\ Top(t).q > Top(t).n
    /\ Goto(t, [Top(t) EXCEPT !.pc = "phase2", !.q = 1])
    /\ UNCHANGED <<treeVars, markVars, queueVars, lockVars>>

\* ... and of the transitions marked by it, the "from" states are exited.
ExitSkip(t) ==
    /\ AtTransition(t, "exit_from")
    /\ taken_[CurTransition(Top(t))] # Top(t).e
    /\ Goto(t, NextTransition(Top(t)))
    /\ UNCHANGED <<treeVars, markVars, queueVars, lockVars>>

\* A previous (outer) transition dominated this one: unmark it.
ExitDominated(t) ==
    /\ AtTransition(t, "exit_from")
    /\ LET tr == CurTransition(Top(t))
       IN  /\ taken_[tr] = Top(t).e /\ ~ Active(From[tr])
           /\ taken_' = [taken_ EXCEPT ![tr] = NIL]
    /\ Goto(t, NextTransition(Top(t)))
    /\ UNCHANGED <<treeVars, target_, queueVars, lockVars>>

\* An internal transition only performs its action.
InternalAction(t) ==
    /\ AtTransition(t, "exit_from")
    /\ LET tr == CurTransition(Top(t))
       IN  /\ taken_[tr] = Top(t).e /\ Active(From[tr]) /\ IsInternal(tr)
           /\ CallThen(t, <<UserFrame(ActionEmits[tr])>>, NextTransition(Top(t)))
    /\ UNCHANGED <<treeVars, markVars, queueVars, lockVars>>

ExitFrom(t) ==
    /\ AtTransition(t, "exit_from")
    /\ LET tr == CurTransition(Top(t))
       IN  /\ taken_[tr] = Top(t).e /\ Active(From[tr]) /\ ~ IsInternal(tr)
           /\ CallThen(t, ExitCall(From[tr], target_[tr]), [Top(t) EXCEPT !.pc = "action"])
    /\ UNCHANGED <<treeVars, markVars, queueVars, lockVars>>

\* If the state actually exited, perform the transition's action.
Action(t) ==
    /\ At(t, "action")
    /\ LET next == [NextTransition(Top(t)) EXCEPT !.pc = "exit_from"]
       IN  IF ret[t]
           THEN CallThen(t, <<UserFrame(ActionEmits[CurTransition(Top(t))])>>, next)
           ELSE Goto(t, next)
    /\ UNCHANGED <<treeVars, markVars, queueVars, lockVars>>

\* The next event of the phase.
NextEvent(t, pc, phase) ==
    /\ At(t, pc) /\ AtEnd(Top(t))
    /\ Goto(t, [Top(t) EXCEPT !.pc = phase, !.q = @ + 1])
    /\ UNCHANGED <<treeVars, markVars, queueVars, lockVars>>

NextPhase1Event(t) == NextEvent(t, "exit_from", "phase1")

NextPhase2Event(t) == NextEvent(t, "enter_to", "phase2")

\* Phase II: the "to" states of the transitions still marked are entered.
Phase2Event(t) ==
    /\ At(t, "phase2") /\ Top(t).q <= Top(t).n
    /\ Goto(t, Iterate(Top(t), "enter_to"))
    /\ UNCHANGED <<treeVars, markVars, queueVars, lockVars>>

\* Mutant: events queued during the micro-step are dequeued with it.
Phase2EndRecounts(t) ==
    /\ At(t, "phase2") /\ Top(t).q > Top(t).n
    /\ Goto(t, [Top(t) EXCEPT !.pc = "phase3", !.n = Len(event_queue_)])
    /\ UNCHANGED <<treeVars, markVars, queueVars, lockVars>>

Phase2End(t) ==
    /\ At(t, "phase2") /\ Top(t).q > Top(t).n
    /\ Goto(t, [Top(t) EXCEPT !.pc = "phase3"])
    /\ UNCHANGED <<treeVars, markVars, queueVars, lockVars>>

EnterSkip(t) ==
    /\ AtTransition(t, "enter_to")
    /\ taken_[CurTransition(Top(t))] # Top(t).e
    /\ Goto(t, NextTransition(Top(t)))
    /\ UNCHANGED <<treeVars, markVars, queueVars, lockVars>>

EnterTo(t) ==
    /\ AtTransition(t, "enter_to")
    /\ LET tr == CurTransition(Top(t))
           unmark == [Top(t) EXCEPT !.pc = "unmark"]
       IN  /\ taken_[tr] = Top(t).e
           /\ IF IsInternal(tr) THEN Goto(t, unmark)
              ELSE target_[tr] # NIL /\ CallThen(t, EnterCall(target_[tr], NIL), unmark)
    /\ UNCHANGED <<treeVars, markVars, queueVars, lockVars>>

\* Mutant: the transition stays marked.
UnmarkForgets(t) ==
    /\ At(t, "unmark")
    /\ taken_' = taken_
    /\ Goto(t, [NextTransition(Top(t)) EXCEPT !.pc = "enter_to"])
    /\ UNCHANGED <<treeVars, target_, queueVars, lockVars>>

Unmark(t) ==
    /\ At(t, "unmark")
    /\ taken_' = [taken_ EXCEPT ![CurTransition(Top(t))] = NIL]
    /\ Goto(t, [NextTransition(Top(t)) EXCEPT !.pc = "enter_to"])
    /\ UNCHANGED <<treeVars, target_, queueVars, lockVars>>

\* Mutant: the event stays in the queue.
Phase3WithoutPop(t) ==
    /\ At(t, "phase3") /\ Top(t).n > 0
    /\ in_progress' = Unmarked(Head(event_queue_))
    /\ event_queue_' = event_queue_
    /\ Goto(t, [Top(t) EXCEPT !.n = @ - 1])
    /\ UNCHANGED <<treeVars, markVars, in_progress_, param_block_, lockVars>>

\* Phase III: dequeue the events of the micro-step.
Phase3Dequeue(t) ==
    /\ At(t, "phase3") /\ Top(t).n > 0
    /\ in_progress' = Unmarked(Head(event_queue_))
    /\ event_queue_' = Tail(event_queue_)
    /\ Goto(t, [Top(t) EXCEPT !.n = @ - 1])
    /\ UNCHANGED <<treeVars, markVars, in_progress_, param_block_, lockVars>>

Phase3End(t) ==
    /\ At(t, "phase3") /\ Top(t).n = 0
    /\ Goto(t, EventFrame("micro_step", NIL))
    /\ UNCHANGED <<treeVars, markVars, queueVars, lockVars>>

-----------------------------------------------------------------------------
Client(t) ==
    \/ \E e \in Events : CallEvent(t, e)
    \/ CallEnter(t)
    \/ CallExit(t)
    \/ \E s \in States : CallClear(t, s) \/ CallDeepClear(t, s)

UserCode(t) == UserBroadcast(t) \/ UserReturn(t)

EnterStep(t) ==
    \/ StateEnter(t) \/ ParentEntered(t) \/ SwitchActiveChildTo(t) \/ Activate(t)
    \/ ClusterEnter(t) \/ SetEnter(t) \/ SetEnterChildren(t) \/ ReturnTrue(t)

ExitStep(t) ==
    \/ StateExit(t) \/ ExitParent(t) \/ ClusterExit(t) \/ SetExit(t) \/ SetExitChildren(t)

BroadcastStep(t) ==
    \/ Lock(t) \/ Unlock(t) \/ BroadcastDropped(t) \/ Broadcast(t)
    \/ PreconditionFalse(t) \/ PreconditionTrue(t) \/ Bump(t)
    \/ FindSkip(t) \/ FindInternal(t) \/ FindAborted(t) \/ FindExternal(t)
    \/ FoundTransition(t) \/ FoundNone(t)

AlgorithmStep(t) ==
    \/ AlgorithmNested(t) \/ AlgorithmBegin(t) \/ AlgorithmEnd(t) \/ MicroStep(t)
    \/ Phase1Event(t) \/ Phase1End(t) \/ ExitSkip(t) \/ ExitDominated(t)
    \/ InternalAction(t) \/ ExitFrom(t) \/ Action(t) \/ NextPhase1Event(t)
    \/ Phase2Event(t) \/ Phase2End(t) \/ EnterSkip(t) \/ EnterTo(t) \/ Unmark(t)
    \/ NextPhase2Event(t) \/ Phase3Dequeue(t) \/ Phase3End(t)

\* What a thread does inside the library and the user code it calls.
Run(t) == UserCode(t) \/ EnterStep(t) \/ ExitStep(t) \/ BroadcastStep(t) \/ AlgorithmStep(t)

Next == \E t \in Threads : Client(t) \/ Run(t)

Spec == Init /\ [][Next]_vars

\* A thread inside the library keeps running; a client need not call again.
FairSpec == Spec /\ \A t \in Threads : WF_vars(Run(t))

-----------------------------------------------------------------------------
(* Properties.                                                             *)

\* Every variable has the type its declaration gives it.
TypeOK ==
    /\ state_ \in [States -> {INACTIVE, ACTIVE, DISABLED}]
    /\ active_child_ \in [States -> StateOrNil]
    /\ last_child_ \in [States -> StateOrNil]
    /\ taken_ \in [Transitions -> EventOrNil]
    /\ target_ \in [Transitions -> StateOrNil]
    /\ event_queue_ \in Seq(Events)
    /\ in_progress_ \in BOOLEAN
    /\ in_progress \in [Events -> Nat]
    /\ param_block_ \in [Events -> EventOrNil]
    /\ owner \in Threads \cup {NIL}
    /\ depth \in Nat
    /\ stack \in [Threads -> Seq(Frame)]
    /\ ret \in [Threads -> BOOLEAN]

\* Inside a call of the library, the frame at a given program counter.
HasFrame(t, pcs) == \E i \in 1 .. Len(stack[t]) : stack[t][i].pc \in pcs

ActiveChildren(s) == {c \in States : Parent[c] = s /\ Active(c)}

\* chsm.h on clusters and sets: while no call is in progress, an active state
\* has an active parent, an active cluster exactly one active child (the one it
\* will exit) and an active set all of its children.
ConfigurationConsistent ==
    (\A t \in Threads : Idle(t)) =>
        \A s \in States :
            /\ Active(s) => s = Root \/ Active(Parent[s])
            /\ Active(s) /\ IsCluster(s) => ActiveChildren(s) = {active_child_[s]}
            /\ Active(s) /\ IsSet(s) => \A c \in States : Parent[c] = s => Active(c)

\* A cluster never has two active children, not even in the middle of a
\* micro-step: switch_active_child_to() refuses.
ClusterExclusive ==
    \A s \in States : IsCluster(s) => Cardinality(ActiveChildren(s)) <= 1

\* Phase II enters no null target.
TargetsNotNull ==
    \A t \in Threads : AtTransition(t, "enter_to") =>
        LET tr == CurTransition(Top(t))
        IN  ~ IsInternal(tr) /\ taken_[tr] = Top(t).e => target_[tr] # NIL

\* No step of the library dereferences a null active_child_, target_ or
\* param_block_.
NoNullDereference ==
    /\ TargetsNotNull
    /\ \A t \in Threads : ~ Idle(t) =>
          LET f == Top(t)
          IN  /\ f.pc = "cluster_exit" /\ Active(f.s) => active_child_[f.s] # NIL
              /\ f.pc = "switch_active_child" /\ IsCluster(Parent[f.s])
                   => active_child_[Parent[f.s]] # NIL
              /\ AtTransition(t, "find_transition")
                   /\ state_[From[CurTransition(f)]] = ACTIVE => ParamsReadable(t, CurTransition(f))

\* While nobody holds the mutex nothing is pending: the queue is empty and no event and no
\* algorithm is in progress ...
NothingPending ==
    owner = NIL => event_queue_ = <<>> /\ ~ in_progress_ /\ \A e \in Events : in_progress[e] = 0

\* ... and no transition is marked.
NothingMarked == owner = NIL => \A tr \in Transitions : taken_[tr] = NIL

\* When the outermost broadcast releases the mutex, nothing is left behind; nor is a state
\* disabled, which lasts for the micro-step in which the state makes its one transition.
NoMarkLeftBehind ==
    /\ NothingPending
    /\ NothingMarked
    /\ owner = NIL => \A s \in States : state_[s] # DISABLED

LockedPCs == {"broadcast", "precondition", "find_transition", "unlock", "algorithm",
              "micro_step", "phase1", "exit_from", "action", "phase2", "enter_to",
              "unmark", "phase3"}

AlgorithmPCs == {"micro_step", "phase1", "exit_from", "action", "phase2", "enter_to",
                 "unmark", "phase3"}

StepPCs == AlgorithmPCs \ {"micro_step"}

\* "Multiple threads can broadcast events to the same machine concurrently":
\* only the holder of the mutex is inside a broadcast, and it holds the mutex as
\* often as it has yet to release it.
BroadcastsExclude ==
    \A t \in Threads :
        /\ HasFrame(t, LockedPCs) => owner = t
        /\ owner = t =>
             depth = Cardinality({i \in 1 .. Len(stack[t]) : stack[t][i].pc = "unlock"})

\* The micro-step algorithm is never re-entered by a broadcast made from the
\* actions it performs.
AlgorithmNotReentered ==
    \A t \in Threads :
        Cardinality({i \in 1 .. Len(stack[t]) : stack[t][i].pc \in AlgorithmPCs}) <= 1

\* The code that uses the state, the event or the iterator of its frame.
StatePCs == { "state_enter", "parent_entered", "switch_active_child", "activate",
              "cluster_enter", "set_enter", "set_enter_children", "state_exit",
              "exit_parent", "cluster_exit", "set_exit", "set_exit_children" }

EventPCs == { "lock", "broadcast", "precondition", "find_transition" }

IteratorPCs == { "find_transition", "exit_from", "action", "enter_to", "unmark" }

\* The local variables that a frame uses have a value.
FrameTyped(f) ==
    /\ f.pc \in StatePCs => f.s \in States
    /\ f.pc \in EventPCs => f.e \in Events
    /\ f.pc \in IteratorPCs => f.list \in Events /\ f.i > 0
    /\ f.pc \in {"action", "unmark"} => InList(f)
    /\ f.pc \in {"set_enter_children", "set_exit_children"} => f.i > 0
    /\ f.pc \in StepPCs => f.q > 0

FramesTyped == \A t \in Threads : \A i \in 1 .. Len(stack[t]) : FrameTyped(stack[t][i])

\* Every frame that relies on the mutex has the frame that releases it below.
ReleasedBelow ==
    \A t \in Threads : \A i \in 1 .. Len(stack[t]) :
        stack[t][i].pc \in LockedPCs \ {"unlock"} =>
            i + 1 \in 1 .. Len(stack[t]) /\ stack[t][i + 1].pc = "unlock"

\* Of all threads, at most one frame is in algorithm(), and then in_progress_.
OneAlgorithm ==
    \A t \in Threads : \A i \in 1 .. Len(stack[t]) : stack[t][i].pc \in AlgorithmPCs =>
        /\ in_progress_
        /\ \A j \in 1 .. Len(stack[t]) : stack[t][j].pc \in AlgorithmPCs => i = j

\* The events of a micro-step are in the queue.
StepWithinQueue ==
    \A t \in Threads : \A i \in 1 .. Len(stack[t]) :
        stack[t][i].pc \in StepPCs => stack[t][i].n <= Len(event_queue_)

\* What the call stacks, the mutex and the queue have to do with each other.
StackInv ==
    /\ FramesTyped
    /\ BroadcastsExclude
    /\ owner = NIL => depth = 0
    /\ ReleasedBelow
    /\ OneAlgorithm
    /\ StepWithinQueue

\* The inductive invariant behind TypeOK, BroadcastsExclude and
\* AlgorithmNotReentered: the library is type-correct because the mutex protects
\* the queue from all but the one frame that iterates it.
RuntimeInv == TypeOK /\ StackInv

\* A transition is not performed while one of the same event from an enclosing
\* state has yet to be: the parent's dominates.
ParentDominates ==
    \A t \in Threads : AtTransition(t, "exit_from") =>
        LET tr == CurTransition(Top(t))
            e == Top(t).e
        IN  taken_[tr] = e /\ Active(From[tr]) /\ ~ IsInternal(tr) =>
              \A outer \in Transitions :
                  taken_[outer] = e /\ ~ IsInternal(outer) =>
                      From[outer] \notin Ancestors(From[tr])

\* Exit actions and the actions of transitions (Phase I) see the parameters that the
\* event was broadcast with, on whichever of its base events a transition is.
ActionParams ==
    \A t \in Threads : \A i \in 1 .. Len(stack[t]) :
        LET f == stack[t][i]
        IN  f.pc \in {"exit_from", "action"} =>
              \A e \in {f.e, f.list} \ {NIL} : param_block_[e] = ParamBlock(f.e)

\* Of the transitions from one state, an event takes at most one external one.
AtMostOneTransition ==
    \A tr, other \in Transitions :
        /\ tr # other /\ From[tr] = From[other]
        /\ ~ IsInternal(tr) /\ ~ IsInternal(other)
        /\ taken_[tr] # NIL
        => taken_[tr] # taken_[other]

\* States are entered outside in and exited inside out.
OutsideIn ==
    [][ \A s \in States \ {Root} :
          /\ ~ Active(s) /\ Active(s)' => Active(Parent[s])
          /\ Active(Parent[s]) /\ ~ Active(Parent[s])' => ~ Active(s)' ]_state_

\* An event leaves the queue only when no transition is marked by it any more:
\* every transition found for it has been performed or dominated.
ProcessedBeforeDequeued ==
    [][ Len(event_queue_') < Len(event_queue_) =>
          \A tr \in Transitions : taken_[tr] # Head(event_queue_) ]_event_queue_

\* Every call of the library returns, and so gives back the mutex, if user code broadcasts
\* finitely often.
CallsReturn == \A t \in Threads : ~ Idle(t) ~> Idle(t)

=============================================================================
