SPECIFICATION FairSpec
CONSTANTS
  Consumers = {c1, c2}
  MaxOpen = 1
  MaxRows = 2
  MaxCalls = 1
  Old <- MCOld
  Part <- MCPart
INVARIANTS
  TypeOK
  ClosedOnReturn
  NilMeansAll
  ErrorKeepsRows
PROPERTIES
  Served
\* Each consumer fetches MaxCalls times.
CHECK_DEADLOCK FALSE
