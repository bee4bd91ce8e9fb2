SPECIFICATION FairSpec
CONSTANTS
  NIL = NIL
  States <- MCStates
  Root = "root"
  Parent <- MCParent
  Kind <- MCKind
  Children <- MCChildren
  History = {}
  Events <- MCEvents
  Base <- MCBase
  EnterEvent <- MCNoEvent
  ExitEvent <- MCNoEvent
  Parameterised = {"alpha", "beta"}
  Preconditioned = {"beta"}
  Transitions <- MCTransitions
  TransitionList <- MCTransitionList
  From <- MCFrom
  To <- MCTo
  TargetFn <- MCTargetFn
  Conditional = {"t1", "t6"}
  ReadsParams = {"t1"}
  EnterEmits <- MCEnterEmits
  ExitEmits <- MCEmitsNothing
  ActionEmits <- MCActionEmits
  MaxEmits = 2
  Threads = {th1}
  Owners = {th1}
  Serialised = TRUE
INVARIANTS
  NoNullDereference
  ParentDominates
  AtMostOneTransition
  ClusterExclusive
  ActionParams
  ProcessingInv
PROPERTIES
  CallsReturn
