SPECIFICATION Spec
CONSTANTS
  Streams = {s1, s2, s3}
  Objects = {o1, o2, o3, o4}
  NullPtr = NullPtr
  MaxAmount = 1
  Scales = {1, 2}
  Chars = {Tab, Space}
  Tab = Tab
  MaxCount = 2
INVARIANTS
  OwnedOnce
PROPERTIES
  ImplementsValues
