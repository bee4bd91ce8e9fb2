SPECIFICATION Spec
CONSTANTS
  NIL = NIL
  Threads = {th1, th2}
  Events = {"alpha", "beta", "gamma", "delta"}
  ChainOf <- MCChainOf
INVARIANTS
  ProtocolInv
  QueueBounded
PROPERTIES
  FirstInFirstOut
