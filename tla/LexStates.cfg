SPECIFICATION Spec
CONSTANT
  Errors = TRUE
INVARIANTS
  
  StatesBalanced
