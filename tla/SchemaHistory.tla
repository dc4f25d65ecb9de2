--------------------------- MODULE SchemaHistory ---------------------------
(***************************************************************************)
(* What schema_migrations promises to those who read it: a history that is *)
(* only ever added to, one migration at a time, in which a release adds a  *)
(* migration only after all its earlier versions are there, and in which a *)
(* version that is taken is never given to another migration.              *)
(***************************************************************************)
EXTENDS Naturals

CONSTANTS
  Migrations,   \* migration files: a file whose text has changed is another one
  NoMigration,
  Version,      \* the number in the name of each file
  Releases      \* the sets of files that builds of the server embed

VARIABLE record \* the migration recorded under each version

Versions == {Version[m] : m \in Migrations}

Init == record = [v \in Versions |-> NoMigration]

\* A server of release R records its migration m.
Add(R, m) ==
  /\ record[Version[m]] = NoMigration
  /\ \A n \in R : Version[n] < Version[m] => record[Version[n]] # NoMigration
  /\ record' = [record EXCEPT ![Version[m]] = m]

Next == \E R \in Releases : \E m \in R : Add(R, m)

Spec == Init /\ [][Next]_record
=============================================================================
