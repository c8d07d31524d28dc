SPECIFICATION Spec
CONSTANTS
  Calls = {c1, c2}
  Types <- MCTypes
  Schema <- MCSchema
  Nil = Nil
  MaxCols <- MCMaxCols
  Names <- MCNames
  NoName <- MCNoName
  ColumnName <- MCColumnName
  LeftName <- MCLeftName
  TagName <- MCTagName
INVARIANTS
  NoPanic
\* Every call ends, and the calls are finitely many.
CHECK_DEADLOCK FALSE
