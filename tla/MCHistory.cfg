SPECIFICATION HSpec
CONSTANTS
  NIL = NIL
  States <- MCStates
  Root = "root"
  Parent <- MCParent
  Kind <- MCKind
  Children <- MCChildren
  History <- MCHistory_
  Events <- MCEvents
  Base <- MCBase
  EnterEvent <- MCNoEvent
  ExitEvent <- MCNoEvent
  Parameterised = {}
  Preconditioned = {}
  Transitions <- MCTransitions
  TransitionList <- MCTransitionList
  From <- MCFrom
  To <- MCTo
  TargetFn <- MCTargetFn
  Conditional = {}
  ReadsParams = {}
  EnterEmits <- MCEmitsNothing
  ExitEmits <- MCEmitsNothing
  ActionEmits <- MCNoAction
  MaxEmits = 1
  Threads = {th1}
  Owners = {th1}
  Serialised = TRUE
INVARIANTS
  HistoryRestored
