SPECIFICATION Spec
CONSTANTS
  Modulus = 16
  FromActions = FALSE
INVARIANTS
  IndentIsNesting
