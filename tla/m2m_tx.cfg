SPECIFICATION FairSpec
CONSTANTS
  Sessions = {s1, s2}
  Lefts = {l1, l2}
  r1 = r1
  r2 = r2
  Rights <- MCRights
  ArgLists <- MCArgLists
  Bad = Bad
  None = None
  UniqueKey = TRUE
  InTx = TRUE
  Reliable = FALSE
PROPERTIES
  RefinesRelation
  Termination
\* Each session performs one operation.
CHECK_DEADLOCK FALSE
