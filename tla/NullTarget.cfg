SPECIFICATION Spec
CONSTANTS
  NIL = NIL
  States <- MCStates
  Root = "root"
  Parent <- MCParent
  Kind <- MCKind
  Children <- MCChildren
  History = {}
  Events <- MCEvents
  Base <- MCBase
  EnterEvent <- MCNoEvent
  ExitEvent <- MCNoEvent
  Parameterised = {}
  Preconditioned = {}
  Transitions <- MCTransitions
  TransitionList <- NullTarget
  From <- MCFrom
  To <- MCTo
  TargetFn <- MCTargetFn
  Conditional = {}
  ReadsParams = {}
  EnterEmits <- MCStateEmitsNothing
  ExitEmits <- MCStateEmitsNothing
  ActionEmits <- MCNoAction
  MaxEmits = 1
  Threads = {th1}
  Owners = {th1}
  Serialised = TRUE
INVARIANTS
  NoNullDereference
