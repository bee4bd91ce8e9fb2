SPECIFICATION Spec
CONSTANTS
  NIL = NIL
  States <- MCStates
  Root = "root"
  Parent <- MCParent
  Kind <- MCKind
  Children <- MCChildren
  History <- MCHistory
  Events <- MCEvents
  Base <- MCBase
  EnterEvent <- MCEnterEvent
  ExitEvent <- MCExitEvent
  Parameterised = {}
  Preconditioned = {}
  Transitions <- MCTransitions
  TransitionList <- MCTransitionList
  From <- MCFrom
  To <- MCTo
  TargetFn <- MCTargetFn
  Conditional = {}
  ReadsParams = {}
  EnterEmits <- MCEnterEmits
  ExitEmits <- MCExitEmits
  ActionEmits <- MCActionEmits
  MaxEmits = 1
  Threads = {th1, th2}
  Owners = {th1}
  Serialised = TRUE
INVARIANTS
  BroadcastsExclude
  ConfigurationConsistent
  NoMarkLeftBehind
PROPERTIES
  OutsideIn
  ProcessedBeforeDequeued
  ImplementsProtocol
