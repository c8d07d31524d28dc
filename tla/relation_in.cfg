SPECIFICATION RelationSpec
CONSTANTS
  Formats <- MCFormats
  Args <- MCArgs
  Columns <- MCColumns
  ValueFor <- MCValueFor
  Says <- MCSays
  First <- A
  Strings <- MCStrings
  Names <- MCNames
  Calls <- MCCalls
  Building <- MCBuilding
  MaxObjects = 2
  MaxClauses = 0
  Relations <- MCRelations
  Selections <- MCSelections
INVARIANTS
  NestedInParentheses
\* A program may stop.
CHECK_DEADLOCK FALSE
