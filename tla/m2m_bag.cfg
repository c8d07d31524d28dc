SPECIFICATION Spec
CONSTANTS
  Sessions = {s1, s2}
  Lefts = {l1, l2}
  r1 = r1
  r2 = r2
  Rights <- MCRights
  ArgLists <- MCArgLists
  Bad = Bad
  None = None
  UniqueKey = FALSE
  InTx = FALSE
  Reliable = FALSE
INVARIANTS
  TypeOK
  ErrorLeaves
  Postcondition
  ConcurrentSets
PROPERTIES
  OtherObjectsKept
SYMMETRY Symmetry
\* Each session performs one operation.
CHECK_DEADLOCK FALSE
