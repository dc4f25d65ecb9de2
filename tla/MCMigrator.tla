----------------------------- MODULE MCMigrator -----------------------------
EXTENDS Migrator

CONSTANTS p1, p2, tables, tablesEdited, unique, columns

FileVersion ==
  [m \in Migrations |-> CASE m \in {tables, tablesEdited} -> 1 [] m = unique -> 2 [] OTHER -> 3]

\* 0021_fleet_uniqueness.sql: a DELETE and a CREATE INDEX CONCURRENTLY.
FileLength == [m \in Migrations |-> IF m = unique THEN 2 ELSE 1]
FileIndexes == {<<unique, 2>>}

\* An old build, the current one, and one whose first file was edited.
Embedded == {{tables, unique}, {tables, unique, columns}, {tablesEdited, unique}}
=============================================================================
