SPECIFICATION Spec
CONSTANTS
  NIL = NIL
  Radix = 2
  Machine = "m"
  Spelling <- MCSpelling
  Texts <- MCTexts
INVARIANTS
  
  PointersValid
  
  LegalDescriptionsCompile
  DeepHistory
  ResolvesLexically
  TransitionsLegal
  ParentTransitionsFirst
  TablesDecode
  CppStates
  JavaStates
  EventCalls
