SPECIFICATION FairSpec
CONSTANTS
  Calls = {c1, c2}
  Types <- MCTypes
  Schema <- MCSchema
  Nil = Nil
  MaxCols <- MCMaxCols
  Names <- MCNames
  NoName <- MCNoName
  ColumnName <- MCColumnName
  LeftName <- MCLeftName
  TagName <- MCTagName
  Rank <- MCRank
INVARIANTS
  TypeOK
  PublishedComplete
  LinksOwned
  DoneClosed
  NoReentry
  KeyChainsAsDeclared
  NamedFromKey
PROPERTIES
  FinishedFrozen
  RefinesClosedRegistry
  Termination
\* Every call ends, and the calls are finitely many.
CHECK_DEADLOCK FALSE
