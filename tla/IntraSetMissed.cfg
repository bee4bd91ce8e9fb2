SPECIFICATION Spec
CONSTANTS
  NIL = NIL
  Radix = 2
  Machine = "m"
  Spelling <- MCAlikeSpelling
  Texts <- MCAlike
INVARIANT
  NoIntraSetTransition
