SPECIFICATION Spec
CONSTANTS
  a = a
  b = b
  c = c
  d = d
  Clients <- MCClients
  Ids = {1, 2}
  MaxClock = 3
  MaxOps = 3
  Values = {c, d}
  Null = Null
  Absent = Absent
  Automatic = {"id", "added", "now"}
  Postgres = FALSE
  Selections <- MCSelections
  Reliable = FALSE
  StartRows <- MCStartRows
  StartKeys = {0, 1}
  SecondKey = 2
  Data <- MCData
INVARIANTS
  TypeOK
  Agreement
  NilStaysNull
PROPERTIES
  AddedKept
  KeySetOnce
\* The operations and the clock are bounded.
CHECK_DEADLOCK FALSE
