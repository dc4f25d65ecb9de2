SPECIFICATION FairSpec
CONSTANTS
  p1 = p1 p2 = p2
  Instances = {p1, p2}
  NoInstance = NoInstance
  tables = tables tablesEdited = tablesEdited unique = unique columns = columns
  Migrations = {tables, tablesEdited, unique, columns}
  NoMigration = NoMigration
  Version <- FileVersion
  Length <- FileLength
  NoTransaction = {unique}
  Indexes <- FileIndexes
  Releases <- Embedded
  MaxStarts = 3
INVARIANTS AppliedOnce RecordedIsWhole StartsOnItsSchema
PROPERTIES ImplementsHistory RunEnds
CHECK_DEADLOCK FALSE
