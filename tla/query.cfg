SPECIFICATION RelationSpec
CONSTANTS
  Formats <- MCFormats
  Args <- MCArgs
  Columns <- MCColumns
  ValueFor <- MCValueFor
  Says <- MCSays
  First <- A
  Strings <- MCStrings
  Names <- MCNames
  Calls <- MCCalls
  Building <- MCBuilding
  MaxObjects = 4
  MaxClauses = 1
  Relations <- MCRelations
  Selections <- MCSelections
INVARIANTS
  TypeOK
  ReadsBack
  NamesKept
  MeansWhatItSays
  MarkersBind
  ErrorsSurface
PROPERTIES
  Persistent
\* A program may stop.
CHECK_DEADLOCK FALSE
