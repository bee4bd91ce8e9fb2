------------------------------- MODULE Parser -------------------------------
(***************************************************************************)
(* The semantic actions of the grammar (parser.ypp) and the checks that    *)
(* follow it (chsm_compiler.cpp), run on every small machine description.  *)
(*                                                                         *)
(* The description is the environment: "at" is where in the grammar Bison  *)
(* is, and which construct comes next is chosen freely.  An action is the  *)
(* code of the productions that one construct reduces.  The parser keeps   *)
(* what it needs on a semantic stack of untyped words (semantic.cpp); an   *)
(* item carries the tag that the debugging build gives it, and reading an  *)
(* item as what it is not, or dereferencing the null pointer INFO() yields *)
(* for the wrong type, ends in at = "undefined".                           *)
(***************************************************************************)
EXTENDS Symbols, Integers, FiniteSets, SequencesExt

CONSTANTS
    Machine,          \* the identifier of the chsm itself
    Spelling,         \* the characters of an identifier
    Texts             \* kinds of machine descriptions: records with the fields
                      \*   idents         identifiers of states,
                      \*   events         identifiers of events,
                      \*   histories      subset of {"none", "history", "deep"},
                      \*   parents        subset of {"CLUSTER", "SET"},
                      \*   preconditions  subset of {"none", "expr", "func"},
                      \*   refs           references to states: [dots, id, substates],
                      \*   mistakes       subset of {"semantic", "syntax"},
                      \* and the bounds
                      \*   descriptions   of states and events,
                      \*   children       of one parent,
                      \*   transitions    as the text counts them,
                      \*   blocks         of user code,
                      \*   perTransition  events

VARIABLES
    at,               \* position in the grammar
    desc,             \* what is being described: its type, how many children it listed,
                      \*   whether a block of user code was just read
    table,            \* sym_table_
    scope,            \* synfo::current_scope_
    sy_parent,
    sy_outer_deep_,
    stack,            \* sem_stack
    states_, events_, transitions_,     \* chsm_info
    ids,              \* chsm_info::id_
    next_no_,         \* serial_number<state_info>
    errors,           \* source_->errors_ > 0
    warnings,         \* symbols a warning was given about
    user_code,        \* the functions whose bodies were written to user_code_
    emitted,          \* code was generated
    written,          \* history variable: what the text says
    budget            \* what the text may still contain: its kind, the bounds counted down

vars == <<at, desc, table, scope, sy_parent, sy_outer_deep_, stack, states_, events_,
          transitions_, ids, next_no_, errors, warnings, user_code, emitted, written, budget>>

\* enter and exit are key words; they begin the names of the events of states.
Identifiers == DOMAIN Spelling \ {"enter", "exit"}

References == [dots : Nat, id : Identifiers, substates : Seq(Identifiers)]

TextTypes ==
    [idents : SUBSET Identifiers, events : SUBSET Identifiers,
     histories : SUBSET {"none", "history", "deep"}, parents : SUBSET PARENT,
     preconditions : SUBSET {"none", "expr", "func"}, refs : SUBSET References,
     mistakes : SUBSET {"semantic", "syntax"}, descriptions : Nat, children : Nat,
     transitions : Nat, blocks : Nat, perTransition : Nat]

Names == Seq(DOMAIN Spelling) \ {<<>>}

GlobalInfos == [type : {"GLOBAL", "CHSM"}, scope : {SCOPE_GLOBAL}]

ChildInfos == [type : {"CHILD"}, scope : Nat, parent : Names, defined : BOOLEAN]

StateInfos ==
    [type : STATES, scope : {SCOPE_GLOBAL}, parent : Names \cup {NIL}, serial : Nat,
     history : BOOLEAN, children : Seq(Names), hasEnter : BOOLEAN, hasExit : BOOLEAN,
     enterAction : BOOLEAN, exitAction : BOOLEAN]

EventInfos ==
    [type : EVENT, scope : {SCOPE_GLOBAL}, kind : {"enter", "exit", "user"},
     state : Names \cup {NIL}, base : Names \cup {NIL}, tids : Seq(Nat), used : BOOLEAN,
     precondition : {"none", "expr", "func"}, params : Nat]

AllInfos == GlobalInfos \cup ChildInfos \cup StateInfos \cup EventInfos

\* Names tell what they are names of.  A machine called root is left out: the info of the root
\* hides its own, and the compiler would follow a null pointer at the first description.
ASSUME IdentAssumption ==
    /\ {"root", "enter", "exit"} \subseteq DOMAIN Spelling
    /\ Machine \in Identifiers \ {"root"}
    /\ NIL \notin Seq(DOMAIN Spelling) \cup AllInfos
    /\ Texts \subseteq TextTypes
    /\ \A t \in Texts : {"root", Machine} \cap t.events = {}
    /\ \A i, j \in DOMAIN Spelling : Spelling[i] = Spelling[j] => i = j

-----------------------------------------------------------------------------
(* The semantic stack: 100 words (semantic.cpp). *)

Num(i) == [tag |-> "int", val |-> i]
Ptr(p) == [tag |-> "ptr", val |-> p]

Push(items) == stack' = stack \o items

Peek(depth) == stack[Len(stack) - depth]

DroppedButOne(n) == SubSeq(stack, 1, Len(stack) - n + 1)

Dropped(n) == SubSeq(stack, 1, Len(stack) - n)

\* The CHSM macro is not null.
HasChsm == type_of(table, <<Machine>>, 0) = "CHSM"

LegalOrMistake == written'.legal \/ "semantic" \in budget.mistakes

\* A block of user code is read, or none.
Block(yes) ==
    /\ yes => budget.blocks > 0
    /\ budget' = IF yes THEN [budget EXCEPT !.blocks = @ - 1] ELSE budget

Undefined ==
    /\ at' = "undefined"
    /\ UNCHANGED <<desc, table, scope, sy_parent, sy_outer_deep_, stack, states_, events_,
                   transitions_, ids, next_no_, errors, warnings, user_code, emitted,
                   written, budget>>

-----------------------------------------------------------------------------
(* The machine and the bodies of parents. *)

Init ==
    /\ at = "chsm"
    /\ desc = [type |-> "NONE", children |-> 0, block |-> FALSE]
    /\ table = <<>>
    /\ scope = 0
    /\ sy_parent = NIL
    /\ sy_outer_deep_ = NIL
    /\ stack = <<>>
    /\ states_ = <<>> /\ events_ = <<>> /\ transitions_ = <<>>
    /\ ids = [condition |-> 0, target |-> 0, action |-> 0]
    /\ next_no_ = 0
    /\ errors = FALSE
    /\ warnings = {}
    /\ user_code = <<>>
    /\ emitted = FALSE
    /\ written = [refs |-> {}, declared |-> {}, described |-> {}, legal |-> TRUE,
                  deep |-> {}, history |-> {}, targets |-> TRUE]
    /\ budget \in Texts

DeepenInnermost(sy, h) == IF h = "deep" THEN sy ELSE sy_outer_deep_

\* deep_opt: only the outermost deep history is remembered.
Deepen(sy, h) == IF h = "deep" /\ sy_outer_deep_ = NIL THEN sy ELSE sy_outer_deep_

Wrote(sy, h, legal) ==
    written' = [written EXCEPT !.legal   = @ /\ legal,
                               !.history = IF h # "none" THEN @ \cup {sy} ELSE @,
                               !.deep    = IF h = "deep" THEN @ \cup {sy} ELSE @]

\* A description is legal in its place if it is the only one of a declared child or of a
\* state in the outermost scope.
Described(id) ==
    LET name == IF sy_parent = RootName THEN <<id>> ELSE Append(sy_parent, id)
    IN  written' = [written EXCEPT
            !.described = @ \cup {name},
            !.legal     = /\ @
                          /\ name \notin written.described \cup {RootName}
                          /\ sy_parent = RootName \/ name \in written.declared]

chsm_description(h, derived, params) ==
    /\ at = "chsm"
    /\ at' = "actions"
    /\ desc' = [desc EXCEPT !.type = "ROOT"]
    /\ errors' = (params /\ ~derived)
    /\ table' = insert_info(insert_info(Touch(table, RootName), <<Machine>>, chsm_info),
                            RootName, cluster_info(NIL, next_no_, h # "none"))
    /\ next_no_' = next_no_ + 1
    /\ sy_outer_deep_' = Deepen(RootName, h)
    /\ Wrote(RootName, h, params => derived) /\ LegalOrMistake
    /\ Push(<<Ptr(RootName)>>)
    /\ UNCHANGED <<scope, sy_parent, states_, events_, transitions_, ids, warnings,
                   user_code, emitted, budget>>

body_begin ==
    /\ at = "is"
    /\ at' = "description"
    /\ sy_parent' = Peek(0).val
    /\ stack' = Append(Dropped(1), Ptr(sy_parent))
    /\ scope' = scope + 1
    /\ UNCHANGED <<desc, table, sy_outer_deep_, states_, events_, transitions_, ids,
                   next_no_, errors, warnings, user_code, emitted, written, budget>>

\* check_child_states_defined()
UndefinedChildren ==
    {n \in DOMAIN table : /\ type_of(table, n, 0) = "CHILD"
                          /\ symbol_scope(table, n) = scope
                          /\ ~info(table, n, 0).defined}

body_end ==
    /\ at = "description"
    /\ at' = IF Peek(0).val = NIL THEN "end" ELSE "description"
    /\ warnings' = warnings \cup UndefinedChildren
    /\ table' = close_scope(table, scope)
    /\ scope' = IF scope <= 1 THEN scope ELSE scope - 1
    /\ sy_outer_deep_' = IF sy_parent = sy_outer_deep_ THEN NIL ELSE sy_outer_deep_
    /\ sy_parent' = Peek(0).val
    /\ stack' = Dropped(1)
    /\ desc' = [desc EXCEPT !.block = FALSE]
    /\ UNCHANGED <<states_, events_, transitions_, ids, next_no_, errors, user_code, emitted,
                   written, budget>>

-----------------------------------------------------------------------------
(* States, clusters and sets. *)

\* The symbol of the state, and the table, list of states and errors when it is declared.
state_declaration(id) ==
    LET top    == sy_parent = RootName
        name   == IF top THEN <<id>> ELSE Append(sy_parent, id)
        named  == Touch(table, <<id>>)
        child  == info(named, <<id>>, 0)
        ours   == /\ type_check(named, <<id>>, {"CHILD"}, "MUST_EXIST", 0).ok
                  /\ child.parent = sy_parent
        marked == Touch(IF ~top /\ ours
                        THEN Update(named, <<id>>, [child EXCEPT !.defined = TRUE])
                        ELSE named, name)
        real   == IF type_of(marked, name, 0) = "GLOBAL" THEN delete_info(marked, name)
                                                         ELSE marked
        new    == info(real, name, 0) = NIL
        parent == info(real, sy_parent, 0)
    IN  [name   |-> name,
         errors |-> errors \/ (~top /\ ~ours),
         states |-> IF new THEN Append(states_, name) ELSE states_,
         table  |-> IF new /\ type_of(real, sy_parent, 0) \in PARENT
                    THEN Update(real, sy_parent, [parent EXCEPT !.children = Append(@, name)])
                    ELSE real]

Describe ==
    /\ at = "description"
    /\ budget.descriptions > 0
    /\ budget' = [budget EXCEPT !.descriptions = @ - 1]

\* not_exists() reports the error; the state_info takes the next serial number.
Define(t, name, si) ==
    IF not_exists(t, name, ANY)
    THEN table' = insert_info(t, name, si) /\ next_no_' = next_no_ + 1
    ELSE table' = t /\ next_no_' = next_no_

state_description(id) ==
    /\ Describe /\ HasChsm
    /\ LET d == state_declaration(id)
       IN  /\ Define(d.table, d.name, state_info("STATE", sy_parent, next_no_, FALSE))
           /\ states_' = d.states
           /\ errors' = (d.errors \/ ~not_exists(d.table, d.name, ANY))
           /\ Push(<<Ptr(d.name)>>)
    /\ at' = "actions"
    /\ desc' = [type |-> "STATE", children |-> 0, block |-> FALSE]
    /\ Described(id) /\ LegalOrMistake
    /\ UNCHANGED <<scope, sy_parent, sy_outer_deep_, events_, transitions_, ids, warnings,
                   user_code, emitted>>

\* cluster_description and set_description up to the list of children.
parent_description(id, type) ==
    /\ Describe /\ HasChsm
    /\ LET d == state_declaration(id)
       IN  /\ table' = d.table
           /\ states_' = d.states
           /\ errors' = d.errors
           /\ Push(<<Ptr(NIL), Ptr(d.name)>>)      \* the derived class, the state
    /\ at' = "children"
    /\ desc' = [type |-> type, children |-> 0, block |-> FALSE]
    /\ Described(id) /\ LegalOrMistake
    /\ UNCHANGED <<scope, sy_parent, sy_outer_deep_, events_, transitions_, ids, next_no_,
                   warnings, user_code, emitted>>

child(id) ==
    /\ at = "children" /\ desc.children < budget.children
    /\ LET parent   == Peek(0).val
           named    == Touch(table, <<id>>)
           absent   == not_exists(named, <<id>>, EVENT)
           repeated == /\ absent
                       /\ type_of(named, <<id>>, 0) = "CHILD"
                       /\ info(named, <<id>>, 0).parent = parent
       IN  /\ errors' = (errors \/ ~absent \/ repeated)
           /\ table' = IF repeated THEN named
                       ELSE insert_info(named, <<id>>, child_info(scope, parent))
    /\ desc' = [desc EXCEPT !.children = @ + 1]
    /\ LET name == Append(Peek(0).val, id)
       IN  written' = [written EXCEPT !.declared = @ \cup {name},
                                      !.legal    = @ /\ name \notin written.declared]
    /\ LegalOrMistake
    /\ UNCHANGED <<at, scope, sy_parent, sy_outer_deep_, stack, states_, events_, transitions_,
                   ids, next_no_, warnings, user_code, emitted, budget>>

parent_declared(h) ==
    /\ at = "children" /\ desc.children > 0
    /\ h # "none" => desc.type = "CLUSTER"
    /\ LET sy   == Peek(0).val
           deep == Deepen(sy, h)
       IN  /\ sy_outer_deep_' = deep
           /\ Define(table, sy, IF desc.type = "CLUSTER"
                                THEN cluster_info(sy_parent, next_no_, h # "none" \/ deep # NIL)
                                ELSE set_info(sy_parent, next_no_))
           /\ errors' = (errors \/ ~not_exists(table, sy, ANY))
           /\ stack' = Append(Dropped(2), Ptr(sy))
           /\ Wrote(sy, h, TRUE)
    /\ at' = "actions"
    /\ UNCHANGED <<desc, scope, sy_parent, states_, events_, transitions_, ids, warnings,
                   user_code, emitted, budget>>

\* upon enter or upon exit, of the state on the stack.
enter_exit_action(kind) ==
    /\ at = "actions" /\ budget.blocks > 0
    /\ LET sy    == Peek(0).val
           si    == info(table, sy, 0)
           field == IF kind = "enter" THEN si.enterAction ELSE si.exitAction
       IN  IF type_of(table, sy, 0) \in STATES
           THEN /\ table' = Update(table, sy, IF kind = "enter"
                                              THEN [si EXCEPT !.enterAction = TRUE]
                                              ELSE [si EXCEPT !.exitAction = TRUE])
                /\ errors' = (errors \/ field)
                /\ user_code' = IF field THEN user_code ELSE Append(user_code, <<kind, sy>>)
                /\ at' = IF field THEN "transitions" ELSE at
                /\ desc' = [desc EXCEPT !.block = TRUE]
                /\ written' = [written EXCEPT !.legal = @ /\ ~field]
                /\ LegalOrMistake
                /\ Block(TRUE)
                /\ UNCHANGED <<scope, sy_parent, sy_outer_deep_, stack, states_, events_,
                               transitions_, ids, next_no_, warnings, emitted>>
           ELSE Undefined

spec_end ==
    /\ at \in {"actions", "transitions"}
    /\ IF desc.type = "STATE" THEN at' = "description" /\ stack' = Dropped(1)
                              ELSE at' = "is" /\ stack' = stack
    /\ desc' = [desc EXCEPT !.block = FALSE]
    /\ UNCHANGED <<table, scope, sy_parent, sy_outer_deep_, states_, events_, transitions_,
                   ids, next_no_, errors, warnings, user_code, emitted, written, budget>>

\* CHSM is null: its first use is a null dereference.
NullChsm ==
    /\ \/ at = "description" /\ budget.descriptions > 0
       \/ at \in {"event", "type", "action"}
    /\ ~HasChsm
    /\ Undefined

-----------------------------------------------------------------------------
(* Events. *)

\* The function that evaluates a precondition, which for %{ ... %} calls one with the code.
PreconditionCode(precondition, e) ==
    (IF precondition = "func" THEN << <<"function", e>> >> ELSE <<>>)
        \o << <<"precondition", e>> >>

\* derived_event_opt: only an event that was described before can be a base.
BaseExists(t, base) ==
    base = NIL \/ type_check(t, <<base>>, {"USER_EVENT"}, "MUST_EXIST", 0).ok

event_description(id, base, params, precondition) ==
    /\ at = "description" /\ HasChsm /\ budget.descriptions > 0
    /\ precondition # "none" => budget.blocks > 0
    /\ budget' = [budget EXCEPT !.descriptions = @ - 1,
                                !.blocks = IF precondition = "none" THEN @ ELSE @ - 1]
    /\ LET named   == Touch(IF base = NIL THEN table ELSE Touch(table, <<base>>), <<id>>)
           baseOK  == BaseExists(named, base)
           new     == not_exists(named, <<id>>, ANY)
           si      == [user_event_info(IF base = NIL THEN NIL ELSE <<base>>) EXCEPT
                          !.params = params, !.precondition = precondition]
           old     == info(named, <<id>>, 0)
       IN  IF ~new /\ old.type # "USER_EVENT" /\ (params > 0 \/ precondition # "none")
           THEN /\ at' = "undefined"              \* INFO( user_event, sy_event ) is null
                /\ errors' = TRUE
                /\ UNCHANGED <<desc, table, events_, user_code>>
           ELSE /\ table' = IF new THEN insert_info(named, <<id>>, si)
                            ELSE IF old.type = "USER_EVENT" /\ precondition # "none"
                            THEN Update(named, <<id>>, [old EXCEPT !.precondition = precondition])
                            ELSE named
                /\ events_' = IF new THEN Append(events_, <<id>>) ELSE events_
                /\ errors' = (errors \/ ~baseOK \/ ~new)
                /\ user_code' = IF precondition = "none" THEN user_code
                                ELSE user_code \o PreconditionCode(precondition, <<id>>)
                /\ desc' = [desc EXCEPT !.block = precondition # "none"]
                /\ at' = at
    /\ UNCHANGED <<scope, sy_parent, sy_outer_deep_, stack, states_, transitions_, ids,
                   next_no_, warnings, emitted, written>>

\* event_name, with the symbol table after the event was entered: a user event ...
user_event(id) ==
    LET named == Touch(table, <<id>>)
        check == type_check(named, <<id>>, {"USER_EVENT"}, "NO_INFO", 0)
    IN  [name  |-> <<id>>,
         table |-> IF check.ok THEN insert_info(named, <<id>>, user_event_info(NIL)) ELSE named,
         new   |-> check.ok,
         error |-> check.error]

-----------------------------------------------------------------------------
(* Names of states. *)

DotsBelowScope(ref) == IF ref.dots >= scope /\ scope > 0 THEN scope - 1 ELSE ref.dots

\* scope_resolver_opt.  (The alternative for `::' is never taken: see Lexer.)
Dots(ref) == IF ref.dots > scope THEN scope ELSE ref.dots

NotDeclared(t, name) == t

\* A name that nothing has defined yet gets a global_info, so that it survives close_scope().
ForwardReference(t, name) ==
    IF info(t, name, 0) = NIL THEN insert_info(t, name, global_info) ELSE t

\* The name that a reference means, and the table when the symbol has been entered.
state_name(ref) ==
    LET sy    == <<ref.id>>
        named == Touch(table, sy)
        type  == type_of(named, sy, Dots(ref))
        name  == (IF type = "CHILD" THEN Append(info(named, sy, 0).parent, ref.id) ELSE sy)
                     \o ref.substates
    IN  [name  |-> name,
         error |-> type \notin STATES \cup {"CHILD", "GLOBAL", "NONE"},
         warn  |-> IF ref.dots > scope THEN {sy} ELSE {},
         table |-> ForwardReference(named, name)]

\* ... or enter(s) or exit(s).
enex_event(kind, ref) ==
    LET s    == state_name(ref)
        name == <<kind>> \o s.name
        new  == info(s.table, name, 0) = NIL
    IN  [name  |-> name,
         table |-> IF new THEN insert_info(s.table, name, event_info(kind, s.name)) ELSE s.table,
         new   |-> new,
         error |-> s.error]

-----------------------------------------------------------------------------
(* Transitions. *)

NoEventYet == Num(0)

transition_begin ==
    /\ at \in {"actions", "transitions"}
    /\ desc.type # "ROOT"
    /\ budget.transitions > 0
    /\ budget' = [budget EXCEPT !.transitions = @ - 1]
    /\ at' = "event"
    /\ desc' = [desc EXCEPT !.block = FALSE]
    /\ Push(<<NoEventYet>>)
    /\ UNCHANGED <<table, scope, sy_parent, sy_outer_deep_, states_, events_, transitions_, ids,
                   next_no_, errors, warnings, user_code, emitted, written>>

\* The name of the function that is generated for a block of user code.
Numbered(kind, n) == <<kind, <<n>> >>

event_condition_spec(ev, condition) ==
    /\ at = "event" \/ (at = "type" /\ Peek(0).val < budget.perTransition)
    /\ ev.new \/ condition => HasChsm
    /\ LET n  == Peek(0).val
           id == IF condition THEN ids.condition + 1 ELSE 0
       IN  /\ stack' = Dropped(1) \o <<Ptr(ev.name), Num(id), Num(n + 1)>>
           /\ ids' = IF condition THEN [ids EXCEPT !.condition = id] ELSE ids
           /\ user_code' = IF condition THEN Append(user_code, Numbered("condition", id))
                                        ELSE user_code
    /\ table' = ev.table
    /\ events_' = IF ev.new THEN Append(events_, ev.name) ELSE events_
    /\ errors' = (errors \/ ev.error)
    /\ at' = "type"
    /\ desc' = [desc EXCEPT !.block = condition]
    /\ Block(condition)
    /\ UNCHANGED <<scope, sy_parent, sy_outer_deep_, states_, transitions_, next_no_, warnings,
                   emitted, written>>

event_error ==
    /\ at = "event" /\ "syntax" \in budget.mistakes
    /\ errors' = TRUE
    /\ at' = "type"
    /\ UNCHANGED <<desc, table, scope, sy_parent, sy_outer_deep_, stack, states_, events_,
                   transitions_, ids, next_no_, warnings, user_code, emitted, written, budget>>

\* The state whose transition is being read lies below the events.
From == Peek(2 * Peek(0).val + 1).val

\* The state, and that no function computes it.
TargetItems(name) == <<Ptr(name), Num(0)>>

target_state(ref) ==
    /\ at = "type"
    /\ LET s == state_name(ref)
       IN  /\ table' = s.table
           /\ errors' = (errors \/ s.error)
           /\ warnings' = warnings \cup s.warn
           /\ Push(TargetItems(s.name))
           /\ written' = [written EXCEPT !.refs = @ \cup
                             {[ref |-> ref, name |-> s.name, in |-> sy_parent, from |-> From]}]
    /\ at' = "action"
    /\ desc' = [desc EXCEPT !.block = FALSE]
    /\ UNCHANGED <<scope, sy_parent, sy_outer_deep_, states_, events_, transitions_, ids,
                   next_no_, user_code, emitted, budget>>

target_function ==
    /\ at = "type" /\ HasChsm
    /\ ids' = [ids EXCEPT !.target = @ + 1]
    /\ user_code' = Append(user_code, Numbered("target", ids.target + 1))
    /\ Push(<<Ptr(NIL), Num(ids.target + 1)>>)
    /\ at' = "action"
    /\ desc' = [desc EXCEPT !.block = TRUE]
    /\ Block(TRUE)
    /\ UNCHANGED <<table, scope, sy_parent, sy_outer_deep_, states_, events_, transitions_,
                   next_no_, errors, warnings, emitted, written>>

\* The alternative for a syntax error pushes nothing.
target_error ==
    /\ at = "type" /\ "syntax" \in budget.mistakes
    /\ errors' = TRUE
    /\ at' = "action"
    /\ desc' = [desc EXCEPT !.block = FALSE]
    /\ written' = [written EXCEPT !.targets = FALSE]
    /\ UNCHANGED <<table, scope, sy_parent, sy_outer_deep_, stack, states_, events_, transitions_,
                   ids, next_no_, warnings, user_code, emitted, budget>>

\* The items under the action are what the pops take them for.
TransitionTyped(s) ==
    LET n == Len(s)
    IN  /\ s[n - 1].tag = "int" /\ s[n - 2].tag = "ptr" /\ s[n - 3].tag = "int"
        /\ 4 + 2 * s[n - 3].val < n
        /\ s[n - 4 - 2 * s[n - 3].val].tag = "ptr"

AddIdsInFront(tids, new) == new \o tids

AddIds(tids, new) == tids \o new

\* The events of the transition, the last one first, with their conditions and the state.
NumEvents(s) == s[Len(s) - 3].val

EventOf(s, i) == s[Len(s) - 3 - 2 * i].val

ConditionOf(s, i) == s[Len(s) - 2 - 2 * i].val

FromOf(s) == s[Len(s) - 4 - 2 * NumEvents(s)].val

\* A transition for each event.
AddedTransitions(s) ==
    [i \in 1 .. NumEvents(s) |->
        [condition |-> ConditionOf(s, i), from |-> FromOf(s), to |-> s[Len(s) - 2].val,
         target |-> s[Len(s) - 1].val, action |-> s[Len(s)].val]]

Ascending(S) ==
    CHOOSE q \in [1 .. Cardinality(S) -> S] : \A i, j \in DOMAIN q : i < j => q[i] < q[j]

\* The ids of those on the event e.
AddedIds(s, e) ==
    Ascending({Len(transitions_) + i - 1 : i \in {i \in 1 .. NumEvents(s) : EventOf(s, i) = e}})

\* An event that more transitions use.
Using(si, new) == [si EXCEPT !.tids = AddIds(@, new), !.used = TRUE]

\* The table when each event has its ids.
WithTransitions(s) ==
    [n \in DOMAIN table |->
        IF type_of(table, n, 0) \in EVENT /\ \E i \in 1 .. NumEvents(s) : EventOf(s, i) = n
        THEN [table[n] EXCEPT ![1] = Using(@, AddedIds(s, n))]
        ELSE table[n]]

\* The end of a transition, of whose type "items" are yet to be pushed.
transition(items, action) ==
    LET id == IF action THEN ids.action + 1 ELSE 0
        s  == stack \o items \o <<Num(id)>>
    IN  /\ action => HasChsm
        /\ IF TransitionTyped(s) /\ (NumEvents(s) > 0 => HasChsm)
           THEN /\ transitions_' = transitions_ \o AddedTransitions(s)
                /\ table' = WithTransitions(s)
                /\ stack' = SubSeq(s, 1, Len(s) - 4 - 2 * NumEvents(s))
                /\ ids' = [ids EXCEPT !.action = IF action THEN id ELSE @]
                /\ user_code' = IF action THEN Append(user_code, Numbered("action", id))
                                          ELSE user_code
                /\ at' = "transitions"
                /\ desc' = [desc EXCEPT !.block = action]
                /\ Block(action)
                /\ UNCHANGED <<scope, sy_parent, sy_outer_deep_, states_, events_, next_no_,
                               errors, warnings, emitted, written>>
           ELSE Undefined

transition_external(action) == at = "action" /\ transition(<<>>, action)

transition_internal == at = "type" /\ transition(<<Ptr(NIL), Num(0)>>, TRUE)

\* A block of user code was just read.
InBlock == desc.block /\ at # "undefined"

\* $enter(s), $exit(s), $in(s) or ${s} in that block.
embedded_state_name(ref) ==
    /\ InBlock
    /\ LET s == state_name(ref)
       IN  /\ table' = s.table
           /\ errors' = (errors \/ s.error)
           /\ warnings' = warnings \cup s.warn
    /\ desc' = [desc EXCEPT !.block = FALSE]
    /\ UNCHANGED <<at, scope, sy_parent, sy_outer_deep_, stack, states_, events_, transitions_,
                   ids, next_no_, user_code, emitted, written, budget>>

\* $param(e, p)
embedded_event_name(id) ==
    /\ InBlock /\ HasChsm
    /\ LET ev == user_event(id)
       IN  /\ table' = ev.table
           /\ events_' = IF ev.new THEN Append(events_, ev.name) ELSE events_
           /\ errors' = (errors \/ ev.error)
    /\ desc' = [desc EXCEPT !.block = FALSE]
    /\ UNCHANGED <<at, scope, sy_parent, sy_outer_deep_, stack, states_, transitions_, ids,
                   next_no_, warnings, user_code, emitted, written, budget>>

-----------------------------------------------------------------------------
(* The checks at the end (chsm_compiler.cpp). *)

\* check_states_defined(): what is still only a forward reference.
UndefinedStates == {n \in DOMAIN table : type_of(table, n, 0) = "GLOBAL"}

\* check_events_used()
UnusedEvents ==
    {n \in ToSet(events_) : type_of(table, n, 0) = "USER_EVENT" /\ ~info(table, n, 0).used}

\* Characters are numbers (see Mangle).
Dot == -1

\* The characters of a name.
Chars(name) ==
    FoldLeft(LAMBDA acc, i : acc \o (IF acc = <<>> THEN <<>> ELSE <<Dot>>) \o Spelling[i],
             <<>>, name)

\* How many characters two names have in common at their beginning.
CommonPrefix(a, b) ==
    CHOOSE k \in 0 .. Len(a) :
        /\ k <= Len(b)
        /\ SubSeq(a, 1, k) = SubSeq(b, 1, k)
        /\ k < Len(a) /\ k < Len(b) => a[k + 1] # b[k + 1]

IntraSetOfPrefix(from, to) ==
    LET a == Chars(from)
        b == Chars(to)
        k == CommonPrefix(a, b)
    IN  /\ k < Len(a) /\ k < Len(b) /\ k > 0
        /\ a[k] = Dot
        /\ \E n \in DOMAIN table : Chars(n) = SubSeq(a, 1, k) /\ type_of(table, n, 0) = "SET"

\* check_transitions(): whether a transition between two states is reported.
IntraSet(from, to) ==
    LET a == Chars(from)
        b == Chars(to)
        k == CommonPrefix(a, b)
    IN  /\ k < Len(a) /\ k < Len(b) /\ k > 0
        /\ a[k] = Dot
        /\ \E n \in DOMAIN table : Chars(n) = SubSeq(a, 1, k - 1) /\ type_of(table, n, 0) = "SET"

check_transitions ==
    \E i \in DOMAIN transitions_ :
        LET tr == transitions_[i]
        IN  tr.to # NIL /\ (info(table, tr.to, 0) = NIL \/ IntraSet(tr.from, tr.to))

\* Whether the enter or the exit event of a state is among the events.
EventFor(n, kind) ==
    \E e \in ToSet(events_) : info(table, e, 0).state = n /\ info(table, e, 0).kind = kind

backpatch_enter_exit_events ==
    [n \in DOMAIN table |->
        IF type_of(table, n, 0) \in STATES
        THEN <<[table[n][1] EXCEPT !.hasEnter = @ \/ EventFor(n, "enter"),
                                   !.hasExit  = @ \/ EventFor(n, "exit")]>> \o Tail(table[n])
        ELSE table[n]]

chsm ==
    /\ at = "end"
    /\ at' = "done"
    /\ LET bad == UndefinedStates # {} \/ (HasChsm /\ check_transitions)
       IN  /\ errors' = (errors \/ bad)
           /\ emitted' = ~(errors \/ bad)
           /\ table' = IF errors \/ bad THEN table ELSE backpatch_enter_exit_events
    /\ warnings' = IF HasChsm THEN warnings \cup UnusedEvents ELSE warnings
    /\ UNCHANGED <<desc, scope, sy_parent, sy_outer_deep_, stack, states_, events_, transitions_,
                   ids, next_no_, user_code, written, budget>>

-----------------------------------------------------------------------------
Bases == budget.events \cup {NIL}

Finished == at \in {"done", "undefined"} /\ UNCHANGED vars

Next ==
    \/ \E h \in budget.histories, d, p \in BOOLEAN : chsm_description(h, d, p)
    \/ body_begin \/ body_end
    \/ \E i \in budget.idents : state_description(i) \/ child(i)
    \/ \E i \in budget.idents, t \in budget.parents : parent_description(i, t)
    \/ \E h \in budget.histories : parent_declared(h)
    \/ \E k \in {"enter", "exit"} : enter_exit_action(k)
    \/ spec_end
    \/ NullChsm
    \/ \E e \in budget.events, b \in Bases, p \in {0, 1}, c \in budget.preconditions :
           event_description(e, b, p, c)
    \/ transition_begin
    \/ \E e \in budget.events, c \in BOOLEAN : event_condition_spec(user_event(e), c)
    \/ \E k \in {"enter", "exit"}, r \in budget.refs : event_condition_spec(enex_event(k, r), FALSE)
    \/ event_error
    \/ \E r \in budget.refs : target_state(r) \/ embedded_state_name(r)
    \/ \E e \in budget.events : embedded_event_name(e)
    \/ target_function \/ target_error
    \/ \E a \in BOOLEAN : transition_external(a)
    \/ transition_internal
    \/ chsm
    \/ Finished

Spec == Init /\ [][Next]_vars

-----------------------------------------------------------------------------
(* Properties. *)

Items == [tag : {"int"}, val : Nat] \cup [tag : {"ptr"}, val : Names \cup {NIL}]

Transitions ==
    [condition : Nat, from : Names, to : Names \cup {NIL}, target : Nat, action : Nat]

Writings ==
    [refs : SUBSET [ref : References, name : Names, in : Names, from : Names],
     declared : SUBSET Names, described : SUBSET Names, legal : BOOLEAN, deep : SUBSET Names,
     history : SUBSET Names, targets : BOOLEAN]

\* Every variable has its type.
TypeOK ==
    /\ at \in {"chsm", "is", "description", "children", "actions", "transitions", "event",
               "type", "action", "end", "done", "undefined"}
    /\ desc \in [type : {"NONE", "ROOT"} \cup STATES, children : Nat, block : BOOLEAN]
    /\ DOMAIN table \subseteq Names
    /\ table \in [DOMAIN table -> Seq(AllInfos)]
    /\ scope \in Nat /\ next_no_ \in Nat
    /\ sy_parent \in Names \cup {NIL} /\ sy_outer_deep_ \in Names \cup {NIL}
    /\ stack \in Seq(Items)
    /\ states_ \in Seq(Names) /\ events_ \in Seq(Names)
    /\ transitions_ \in Seq(Transitions)
    /\ ids \in [condition : Nat, target : Nat, action : Nat]
    /\ errors \in BOOLEAN /\ emitted \in BOOLEAN
    /\ written \in Writings
    /\ budget \in TextTypes

\* The parents whose bodies are open, outermost first: they are saved on the stack, but for
\* the current one.
OpenParents == [k \in 1 .. scope |-> IF k < scope THEN stack[k + 1].val ELSE sy_parent]

Inside == at \notin {"chsm", "end", "done", "undefined"}

InHeader == Inside /\ at # "description" /\ desc.type \in PARENT

\* The parent whose declaration is being read lies above the saved ones.
Header == stack[scope + (IF at = "children" THEN 2 ELSE 1)].val

\* Whose children the child_infos of each open scope are.
ScopeParents ==
    [k \in 2 .. (IF InHeader THEN scope + 1 ELSE scope) |->
        IF k <= scope THEN OpenParents[k] ELSE Header]

\* An info is in the outermost scope, or a child_info of an open scope and its parent.
InScope(si, parents) ==
    IF si.type # "CHILD" THEN si.scope = SCOPE_GLOBAL
    ELSE si.scope \in DOMAIN parents /\ si.parent = parents[si.scope]

Nested(t, parents) ==
    \A n \in DOMAIN t :
        /\ \A i, j \in DOMAIN t[n] : i < j => t[n][i].scope >= t[n][j].scope
        /\ \A i \in DOMAIN t[n] : InScope(t[n][i], parents)

\* Everything has its type; the infos of a symbol are ordered from the innermost scope
\* outwards; no info outlives its scope; and the child_infos of a scope belong to the parent
\* whose body (or whose header, before its body is opened) is that scope
\* (symbol::insert_info, close_scope, child_info).
ScopesNested == TypeOK /\ (at # "undefined" => Nested(table, ScopeParents))

\* While no error was reported, no symbol that the compiler still points to is erased when a
\* scope is closed: not one on the semantic stack, in the lists of states and events, or in a
\* transition (symbol_table::close_scope).
SymbolsAlive ==
    LET held == ToSet(states_) \cup ToSet(events_) \cup {sy_parent, sy_outer_deep_}
                  \cup {stack[i].val : i \in {j \in DOMAIN stack : stack[j].tag = "ptr"}}
                  \cup UNION {{t.from, t.to} : t \in ToSet(transitions_)}
    IN  ~errors => held \ {NIL} \subseteq DOMAIN table

\* The compiler dereferences no null pointer while it has not reported an error: a symbol
\* that passed the checks has the info that is then asked for.  The one exception is the
\* machine itself, whose info is hidden by a child of its name.
NoSilentCrash == at = "undefined" => errors \/ ~HasChsm

\* Every pointer the compiler follows leads to a symbol that is alive and has the info asked
\* for, unless an error was reported.
PointersValid == SymbolsAlive /\ NoSilentCrash

\* How deep the semantic stack is follows from the place in the grammar and the nesting: the
\* pops of every production match the pushes of its parts, so that the 100 words are enough
\* for every description whose nesting and events per transition stay below that.  The one
\* exception is a transition whose target is a syntax error.
StackBalanced ==
    LET above(n) == Len(stack) = scope + n
    IN  written.targets =>
        CASE at = "description" -> above(0)
          [] at \in {"is", "actions", "transitions"} -> above(1)
          [] at \in {"children", "event"} -> above(2)
          [] at = "type" -> above(2 + 2 * Peek(0).val)
          [] at = "action" -> Peek(2).tag = "int" /\ above(4 + 2 * Peek(2).val)
          [] at \in {"end", "done"} -> stack = <<>>
          [] OTHER -> TRUE

\* A description whose states are declared by their parents and described once each, and
\* which refers to no other states, is accepted: hiding an outer state by a child, several
\* levels deep, is no error (not_exists, type_check, insert_info).  The one exception is a
\* parent in the outermost scope that has a child of its own name.
LegalDescriptionsCompile ==
    /\ written.legal /\ budget.refs = {} /\ events_ = <<>>
    /\ \A d \in written.declared : Len(d) = 2 => d[1] # d[2]
    => ~errors

\* Proper ancestors of a state, by its name.
Above(n) == {RootName} \cup {SubSeq(n, 1, k) : k \in 1 .. Len(n) - 1}

\* When code is generated, a cluster has a history exactly if its description says so or it
\* lies inside a cluster with a deep history, however the deep ones are nested
\* (sy_outer_deep_).
DeepHistory ==
    emitted =>
        \A n \in ToSet(states_) :
            info(table, n, 0).type = "CLUSTER" =>
                (info(table, n, 0).history <=>
                    n \in written.history \/ Above(n) \cap written.deep # {})

\* The states whose children are visible where a reference is made: the state that has the
\* transition, and the parents it lies in.
Visible(r) == <<r.from>> \o Reverse([k \in 1 .. Len(r.from) - 1 |-> SubSeq(r.from, 1, k)])

WithChildren == {Front(d) : d \in {d \in written.declared : Len(d) > 1}}

\* The parents whose children are visible, from the inside out.
Scopes(r) == IF r.from \in WithChildren THEN Visible(r) ELSE Tail(Visible(r))

\* The child that a name means "depth" scopes out of the innermost one.
Lexical(r, depth) ==
    LET in    == Scopes(r)
        found == {k \in depth + 1 .. Len(in) : Append(in[k], r.ref.id) \in written.declared}
    IN  (IF found = {} THEN <<r.ref.id>>
         ELSE Append(in[CHOOSE k \in found : \A j \in found : k <= j], r.ref.id))
            \o r.ref.substates

\* A name in a transition means the child of the innermost parent that declares it, and with
\* as many leading periods as there are scopes, or more, the one in the outermost scope (the
\* rule for state_name).
ResolvesLexically ==
    emitted => \A r \in written.refs :
                  r.ref.dots = 0 \/ r.ref.dots >= Len(Scopes(r)) =>
                      r.name = Lexical(r, r.ref.dots)

\* When code is generated, both ends of every transition are states of the machine or its
\* root, and so are the states of the enter and exit events (check_states_defined,
\* check_transitions).
TargetsAreStates ==
    LET ends   == UNION {{t.from, t.to} : t \in ToSet(transitions_)}
        states == {info(table, e, 0).state : e \in ToSet(events_)}
    IN  emitted => (ends \cup states) \ {NIL} \subseteq ToSet(states_) \cup {RootName}

\* Two states lie in different children of one set.
Concurrent(a, b) ==
    \E c \in Above(a) \cap Above(b) :
        /\ info(table, c, 0).type = "SET"
        /\ Above(a) \cap Above(b) \subseteq Above(c) \cup {c}
        /\ a \notin Above(b) \cup {b} /\ b \notin Above(a)

\* No transition that goes between two children of a set is compiled.
NoIntraSetTransition ==
    emitted => \A t \in ToSet(transitions_) : t.to # NIL => ~Concurrent(t.from, t.to)

\* Only legal transitions are compiled (check_states_defined, check_transitions).
TransitionsLegal == TargetsAreStates /\ NoIntraSetTransition

\* In the transitions of an event those of a parent precede those of the states in it,
\* however often and in which order the event appears: the run-time library takes the first
\* one and has the parent dominate (machine.cpp, Phase I).
ParentTransitionsFirst ==
    emitted =>
        \A e \in ToSet(events_) :
            LET from == [i \in DOMAIN info(table, e, 0).tids |->
                            transitions_[info(table, e, 0).tids[i] + 1].from]
            IN  \A i, j \in DOMAIN from : i < j => from[j] \notin Above(from[i])
=============================================================================
