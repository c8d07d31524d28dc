SPECIFICATION Spec
CONSTANTS
  c1 = c1
  c2 = c2
  Clients <- MCClients
  TypesOfZ = {"Bool"}
  Structs <- MCStructs
  Foreign <- MCForeign
  Selections <- MCSelections
  Docs = {"d1", "d2"}
  Keys = {0, 1}
  NoRef = NoRef
  Null = Null
  Broken = "broken"
  None = None
  Postgres = TRUE
  Reliable = FALSE
  Ids = {1, 2}
  MaxOps = 3
  MaxClock = 2
INVARIANTS
  SnapshotStored
\* Operations are bounded.
CHECK_DEADLOCK FALSE
