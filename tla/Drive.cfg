SPECIFICATION FairSpec
CONSTANTS
  Compilers = {"p", "q"}
  Commands <- MCCommands
INVARIANTS
  DriverOutputInv
  OutputComplete
  FilesTidy
PROPERTIES
  Terminates
