--------------------------- MODULE MigratorProofs ---------------------------
(***************************************************************************)
(* Proofs about Migrator, for any number of instances, releases and        *)
(* starts: transactional migrations are applied once, nothing is left out  *)
(* of what is recorded, and the records are a SchemaHistory.               *)
(*                                                                         *)
(* The database changes in five ways (DataStep...); each of them only      *)
(* grows what is there, which is all that the other instances and the      *)
(* orphans need.                                                           *)
(***************************************************************************)
EXTENDS Migrator, TLAPS

USE MigratorAssumption

\* No record and no index goes away.
Grows ==
  /\ \A v \in Versions : record[v] # NoMigration => record'[v] = record[v]
  /\ \A w \in Work : Present(w) => Present(w)'

DataInv == DataOK /\ AppliedOnce /\ RecordedIsWhole

\* A step of p leaves the other instances where they are ...
OthersStay(p) ==
  \A q \in Instances \ {p} :
    /\ pc'[q] = pc[q] /\ release'[q] = release[q] /\ applied'[q] = applied[q]
    /\ todo'[q] = todo[q] /\ position'[q] = position[q]

\* ... and p, with the lock, where it may be.
LoopStep(p) ==
  /\ InstancesOK'
  /\ holder' \in Instances \cup {NoInstance}
  /\ HolderInv'
  /\ LoopInv(p)'
  /\ OthersStay(p)

LEMMA VersionType == \A m \in Migrations : Version[m] \in Versions /\ Version[m] \in Nat
  BY DEF Versions

LEMMA WorkParts ==
  /\ \A w \in Work : w[1] \in Migrations /\ w \in Statements(w[1])
  /\ \A m \in Migrations : \A w \in Statements(m) : w \in Work /\ w[1] = m /\ w = <<m, w[2]>> /\ w[2] \in 1..Length[m]
  BY DEF Work, Statements

-----------------------------------------------------------------------------
(* The database.                                                           *)

LEMMA DataStays ==
  ASSUME DataInv, UNCHANGED record, UNCHANGED ran, UNCHANGED invalid, exposed => exposed'
  PROVE  DataInv' /\ Grows
  BY DEF DataInv, DataOK, AppliedOnce, RecordedIsWhole, Recorded, Grows, Present

\* A record is added at most, and never replaced.
LEMMA StoreFacts ==
  ASSUME DataOK, NEW m \in Migrations, Store(m)
  PROVE  /\ record' \in [Versions -> Migrations \cup {NoMigration}]
         /\ \A v \in Versions : record[v] # NoMigration => record'[v] = record[v]
         /\ \A v \in Versions : v # Version[m] => record'[v] = record[v]
         /\ record[Version[m]] = NoMigration => record'[Version[m]] = m
         /\ record'[Version[m]] # NoMigration
         /\ \A n \in Migrations : n # m => (Recorded(n)' <=> Recorded(n))
<1>1. Version[m] \in Versions
  BY VersionType
<1>2. /\ record' \in [Versions -> Migrations \cup {NoMigration}]
      /\ \A v \in Versions : record[v] # NoMigration => record'[v] = record[v]
      /\ \A v \in Versions : v # Version[m] => record'[v] = record[v]
      /\ record[Version[m]] = NoMigration => record'[Version[m]] = m
      /\ record'[Version[m]] # NoMigration
  BY <1>1 DEF DataOK, Store
<1>3. ASSUME NEW n \in Migrations, n # m
      PROVE  Recorded(n)' <=> Recorded(n)
  <2>1. Version[n] \in Versions
    BY VersionType
  <2>2. record[Version[n]] = NoMigration => record'[Version[n]] \in {NoMigration, m}
    BY <1>2, <2>1
  <2> QED BY <1>2, <1>3, <2>1, <2>2 DEF Recorded
<1> QED BY <1>2, <1>3

\* A transaction executes m and records it, for the first time unless something
\* has been exposed.
LEMMA DataStepTransaction ==
  ASSUME DataInv, NEW m \in Migrations, ExecuteAll(m), Store(m), UNCHANGED exposed,
         exposed \/ record[Version[m]] = NoMigration
  PROVE  DataInv' /\ Grows
<1>1. /\ \A w \in Work : ran[w] \in Nat
      /\ \A w \in Work : ran'[w] = ran[w] + (IF w \in Statements(m) THEN 1 ELSE 0)
      /\ ran' \in [Work -> Nat]
      /\ invalid' = invalid
  BY DEF DataInv, DataOK, ExecuteAll
<1>2. DataOK'
  BY <1>1, StoreFacts DEF DataInv, DataOK
<1>3. Grows
  BY <1>1, StoreFacts DEF Grows, DataInv, Present
<1>4. RecordedIsWhole'
  <2> SUFFICES ASSUME NEW n \in Migrations, Recorded(n)', NEW w \in Statements(n)
               PROVE  Present(w)'
    BY DEF RecordedIsWhole
  <2>1. w \in Work /\ ran[w] \in Nat
    BY <1>1, WorkParts
  <2>2. CASE n = m
    BY <1>1, <2>1, <2>2 DEF Present
  <2>3. CASE n # m
    BY <1>3, <2>1, <2>3, StoreFacts DEF DataInv, RecordedIsWhole, Grows
  <2> QED BY <2>2, <2>3
<1>5. AppliedOnce'
  <2> SUFFICES ASSUME ~exposed, NEW n \in Migrations \ NoTransaction, NEW w \in Statements(n)
               PROVE  ran'[w] = IF Recorded(n)' THEN 1 ELSE 0
    BY DEF AppliedOnce
  <2>1. w \in Work /\ w[1] = n /\ (w \in Statements(m) <=> n = m) /\ ran[w] \in Nat
    BY <1>1, WorkParts
  <2>2. ran[w] = IF Recorded(n) THEN 1 ELSE 0
    BY DEF DataInv, AppliedOnce
  <2>3. CASE n = m
    <3>1. ~Recorded(m) /\ Recorded(m)'
      BY StoreFacts DEF DataInv, Recorded
    <3> QED BY <1>1, <2>1, <2>2, <2>3, <3>1
  <2>4. CASE n # m
    BY <1>1, <2>1, <2>2, <2>4, StoreFacts DEF DataInv
  <2> QED BY <2>3, <2>4
<1> QED BY <1>2, <1>3, <1>4, <1>5 DEF DataInv

\* A statement of a migration without a transaction.
LEMMA DataStepStatement ==
  ASSUME DataInv, NEW m \in NoTransaction, NEW w \in Statements(m), Execute(w),
         UNCHANGED record, UNCHANGED exposed
  PROVE  DataInv' /\ Grows /\ Present(w)'
<1>1. m \in Migrations /\ w \in Work
  BY WorkParts
<1>2. /\ ran' \in [Work -> Nat]
      /\ ran'[w] > 0
      /\ \A u \in Work : u # w => ran'[u] = ran[u]
      /\ invalid' = invalid \ {w}
  BY <1>1 DEF DataInv, DataOK, Execute
<1>3. Grows /\ Present(w)'
  BY <1>1, <1>2 DEF Grows, Present
<1>4. DataOK'
  BY <1>2 DEF DataInv, DataOK
<1>5. RecordedIsWhole'
  <2> SUFFICES ASSUME NEW n \in Migrations, Recorded(n), NEW u \in Statements(n)
               PROVE  Present(u)'
    BY DEF RecordedIsWhole, Recorded
  <2>1. u \in Work /\ Present(u)
    BY WorkParts DEF DataInv, RecordedIsWhole
  <2> QED BY <1>3, <2>1 DEF Grows
<1>6. AppliedOnce'
  <2> SUFFICES ASSUME ~exposed, NEW n \in Migrations \ NoTransaction, NEW u \in Statements(n)
               PROVE  ran'[u] = IF Recorded(n) THEN 1 ELSE 0
    BY DEF AppliedOnce, Recorded
  <2>1. u \in Work /\ u # w
    BY <1>1, WorkParts
  <2> QED BY <1>2, <2>1 DEF DataInv, AppliedOnce
<1> QED BY <1>3, <1>4, <1>5, <1>6 DEF DataInv

\* The beginning of CREATE INDEX CONCURRENTLY.
LEMMA DataStepBuild ==
  ASSUME DataInv, NEW w \in Work, invalid' = invalid \cup {w},
         UNCHANGED record, UNCHANGED ran, UNCHANGED exposed
  PROVE  DataInv' /\ Grows
<1>1. DataOK' /\ AppliedOnce'
  BY DEF DataInv, DataOK, AppliedOnce, Recorded
<1>2. \A u : Present(u) => Present(u)'
  BY DEF Present
<1>3. RecordedIsWhole'
  BY <1>2 DEF DataInv, RecordedIsWhole, Recorded
<1> QED BY <1>1, <1>2, <1>3 DEF DataInv, Grows

\* The record of a migration without a transaction, all of whose statements have begun.
LEMMA DataStepRecord ==
  ASSUME DataInv, NEW m \in NoTransaction, Store(m),
         \A w \in Statements(m) : Present(w),
         UNCHANGED ran, UNCHANGED invalid, UNCHANGED exposed
  PROVE  DataInv' /\ Grows
<1>1. m \in Migrations
  OBVIOUS
<1>2. DataOK'
  BY <1>1, StoreFacts DEF DataInv, DataOK
<1>3. Grows
  BY <1>1, StoreFacts DEF DataInv, Grows, Present
<1>4. \A n \in Migrations : \A w \in Statements(n) : Present(w)' <=> Present(w)
  BY DEF Present
<1>5. RecordedIsWhole'
  BY <1>1, <1>4, StoreFacts DEF DataInv, RecordedIsWhole
<1>6. AppliedOnce'
  BY <1>1, StoreFacts DEF DataInv, AppliedOnce
<1> QED BY <1>2, <1>3, <1>5, <1>6 DEF DataInv

-----------------------------------------------------------------------------
(* Those who have no part in a step.                                       *)

LEMMA BegunStays ==
  ASSUME Grows, NEW m \in Migrations, NEW i, Begun(m, i)
  PROVE  Begun(m, i)'
  BY WorkParts DEF Begun, Grows

\* Who does not move, and either has no lock or sees no new record.
LEMMA LoopStays ==
  ASSUME TypeOK, Grows, NEW p \in Instances, LoopInv(p),
         pc'[p] = pc[p], release'[p] = release[p], applied'[p] = applied[p],
         todo'[p] = todo[p], position'[p] = position[p],
         exposed => exposed',
         exposed \/ record' = record \/ ~Looping(p)
  PROVE  LoopInv(p)'
<1>1. release[p] \subseteq Migrations /\ todo[p] \subseteq Migrations
  BY DEF TypeOK, InstancesOK
<1>2. Looping(p)' <=> Looping(p)
  BY DEF Looping
<1>3. Behind(p)'
  <2> SUFFICES ASSUME Looping(p) \/ pc[p] = "done", NEW m \in release[p], m \notin todo[p]
               PROVE  record'[Version[m]] # NoMigration /\ (~exposed' => Recorded(m)')
    BY <1>2 DEF Behind
  <2>1. record[Version[m]] # NoMigration /\ (~exposed => Recorded(m))
    BY DEF LoopInv, Behind
  <2>2. record'[Version[m]] = record[Version[m]]
    BY <1>1, <2>1, VersionType DEF Grows
  <2> QED BY <2>1, <2>2 DEF Recorded
<1>4. Ahead(p)'
  <2> SUFFICES ASSUME NEW m \in todo[p]
               PROVE  \/ applied[p][Version[m]] = record'[Version[m]]
                      \/ exposed' /\ applied[p][Version[m]] = NoMigration
    BY DEF Ahead
  <2>1. \/ applied[p][Version[m]] = record[Version[m]]
        \/ exposed /\ applied[p][Version[m]] = NoMigration
    BY DEF LoopInv, Ahead
  <2>2. Looping(p)
    BY DEF LoopInv
  <2>3. record[Version[m]] # NoMigration => record'[Version[m]] = record[Version[m]]
    BY <1>1, VersionType DEF Grows
  <2> QED BY <2>1, <2>2, <2>3
<1>5. PlaceOK(p)'
  BY <1>1, BegunStays DEF LoopInv, PlaceOK, Begun
<1> QED BY <1>2, <1>3, <1>4, <1>5 DEF LoopInv

LEMMA OrphansStay ==
  ASSUME TypeOK, OrphanInv, Grows, orphans' \subseteq orphans, exposed => exposed'
  PROVE  OrphanInv'
<1> SUFFICES ASSUME NEW o \in orphans
             PROVE  Orphaned(o)'
  BY DEF OrphanInv
<1>1. Orphaned(o) /\ o[2] \in Migrations /\ o[1] \subseteq Migrations
  BY DEF OrphanInv, TypeOK
<1>2. Begun(o[2], o[3])'
  BY <1>1, BegunStays DEF Orphaned
<1>3. \A n \in o[1] : Version[n] < Version[o[2]] => record'[Version[n]] # NoMigration
  BY <1>1, VersionType DEF Orphaned, Grows
<1> QED BY <1>1, <1>2, <1>3 DEF Orphaned

\* What is left to show of a step of p that changes no orphan.
LEMMA StepOf ==
  ASSUME IndInv, NEW p \in Instances,
         LoopStep(p), DataInv' /\ Grows, record' = record \/ Looping(p),
         orphans' = orphans, starts' \in Nat, exposed' = exposed
  PROVE  IndInv'
<1>1. TypeOK'
  BY DEF IndInv, TypeOK, DataInv, LoopStep
<1>2. ASSUME NEW q \in Instances \ {p} PROVE LoopInv(q)'
  <2>1. exposed \/ record' = record \/ ~Looping(q)
    BY DEF IndInv, HolderInv
  <2> QED BY <2>1, LoopStays DEF IndInv, LoopStep, OthersStay
<1>3. OrphanInv'
  BY <1>1, OrphansStay DEF IndInv, TypeOK
<1> QED BY <1>1, <1>2, <1>3 DEF IndInv, DataInv, LoopStep

LEMMA HolderKeeps ==
  ASSUME TypeOK, HolderInv, NEW p \in Instances, holder' = holder, exposed => exposed',
         \A q \in Instances \ {p} : pc'[q] = pc[q],
         pc[p] = "load" \/ Looping(p) <=> pc'[p] = "load" \/ Looping(p)'
  PROVE  HolderInv'
<1> SUFFICES ASSUME NEW q \in Instances
             PROVE  /\ holder' = q => pc'[q] = "load" \/ Looping(q)'
                    /\ ~exposed' /\ (pc'[q] = "load" \/ Looping(q)') => holder' = q
  BY DEF HolderInv
<1>1. /\ holder = q => pc[q] = "load" \/ Looping(q)
      /\ ~exposed /\ (pc[q] = "load" \/ Looping(q)) => holder = q
  BY DEF HolderInv
<1>2. pc[q] = "load" \/ Looping(q) <=> pc'[q] = "load" \/ Looping(q)'
  <2>1. CASE q = p
    BY <2>1
  <2>2. CASE q # p
    BY <2>2 DEF Looping
  <2> QED BY <2>1, <2>2
<1> QED BY <1>1, <1>2

LEMMA HolderReturns ==
  ASSUME TypeOK, HolderInv, NEW p \in Instances, Unlock(p), exposed => exposed',
         \A q \in Instances \ {p} : pc'[q] = pc[q],
         pc'[p] \in {"idle", "done", "failed"}
  PROVE  HolderInv' /\ holder' \in Instances \cup {NoInstance}
<1>1. holder' = IF holder = p THEN NoInstance ELSE holder
  BY DEF Unlock
<1>2. ASSUME NEW q \in Instances
      PROVE  /\ holder' = q => pc'[q] = "load" \/ Looping(q)'
             /\ ~exposed' /\ (pc'[q] = "load" \/ Looping(q)') => holder' = q
  <2>1. /\ holder = q => pc[q] = "load" \/ Looping(q)
        /\ ~exposed /\ (pc[q] = "load" \/ Looping(q)) => holder = q
    BY DEF HolderInv
  <2>2. CASE q = p
    BY <1>1, <2>2 DEF Looping
  <2>3. CASE q # p
    BY <1>1, <2>1, <2>3 DEF Looping
  <2> QED BY <2>2, <2>3
<1> QED BY <1>1, <1>2 DEF HolderInv, TypeOK

\* Whoever returns has nothing behind it and nothing before it, or has finished.
LEMMA Returns ==
  ASSUME IndInv, NEW p \in Instances, NEW outcome \in {"idle", "failed"}, Return(p, outcome),
         exposed => exposed'
  PROVE  LoopStep(p)
<1>1. InstancesOK'
  BY DEF IndInv, TypeOK, InstancesOK, Return, Nothing
<1>2. pc'[p] = outcome /\ todo'[p] = {} /\ ~Looping(p)' /\ pc'[p] # "done"
  BY DEF IndInv, TypeOK, InstancesOK, Return, Looping
<1>3. LoopInv(p)'
  BY <1>2 DEF LoopInv, Behind, Ahead, PlaceOK
<1>4. OthersStay(p)
  BY DEF IndInv, TypeOK, InstancesOK, Return, OthersStay
<1>5. HolderInv' /\ holder' \in Instances \cup {NoInstance}
  BY <1>2, <1>4, HolderReturns DEF IndInv, Return, OthersStay
<1> QED BY <1>1, <1>3, <1>4, <1>5 DEF LoopStep

\* Whoever advances has recorded what it leaves behind, and nothing else.
LEMMA Advances ==
  ASSUME IndInv, NEW p \in Instances, NEW m \in Migrations, At(p, m), Advance(p, m), UNCHANGED holder,
         exposed' = exposed, Grows,
         record'[Version[m]] # NoMigration, exposed \/ Recorded(m)',
         \A v \in Versions : v # Version[m] => record'[v] = record[v]
  PROVE  LoopStep(p)
<1>1. InstancesOK'
  BY DEF IndInv, TypeOK, InstancesOK, Advance
<1>2. /\ pc' = pc /\ todo'[p] = todo[p] \ {m} /\ position'[p] = 1
      /\ release' = release /\ applied' = applied /\ pc[p] = "loop"
      /\ todo[p] \subseteq release[p] /\ release[p] \in Releases /\ m \in todo[p]
      /\ release[p] \subseteq Migrations
  BY DEF IndInv, TypeOK, InstancesOK, LoopInv, Advance, At
<1>3. \A q \in Instances \ {p} : todo'[q] = todo[q] /\ position'[q] = position[q]
  BY DEF IndInv, TypeOK, InstancesOK, Advance
<1>4. HolderInv' /\ holder' \in Instances \cup {NoInstance}
  BY <1>2, HolderKeeps DEF IndInv, TypeOK, Looping
<1>5. Behind(p)'
  <2> SUFFICES ASSUME NEW n \in release[p], n \notin todo[p] \ {m}
               PROVE  record'[Version[n]] # NoMigration /\ (~exposed => Recorded(n)')
    BY <1>2 DEF Behind
  <2>1. CASE n = m
    BY <2>1
  <2>2. CASE n # m
    <3>1. record[Version[n]] # NoMigration /\ (~exposed => Recorded(n))
      BY <1>2, <2>2 DEF IndInv, LoopInv, Behind, Looping
    <3>2. record'[Version[n]] = record[Version[n]]
      BY <1>2, <3>1, VersionType DEF Grows
    <3> QED BY <3>1, <3>2 DEF Recorded
  <2> QED BY <2>1, <2>2
<1>6. Ahead(p)'
  <2> SUFFICES ASSUME NEW n \in todo[p] \ {m}
               PROVE  \/ applied[p][Version[n]] = record'[Version[n]]
                      \/ exposed /\ applied[p][Version[n]] = NoMigration
    BY <1>2 DEF Ahead
  <2>1. Version[n] # Version[m] /\ Version[n] \in Versions
    BY <1>2, VersionType
  <2> QED BY <2>1 DEF IndInv, LoopInv, Ahead
<1>7. \A n \in todo'[p] : Begun(n, position[p])'
  BY <1>2, WorkParts DEF Begun
<1>8. Looping(p)' /\ todo'[p] \subseteq release'[p] /\ PlaceOK(p)'
  BY <1>2, <1>7 DEF Looping, PlaceOK
<1>9. LoopInv(p)'
  BY <1>5, <1>6, <1>8 DEF LoopInv
<1> QED BY <1>1, <1>2, <1>3, <1>4, <1>9 DEF LoopStep, OthersStay

LEMMA DataOfInd == IndInv => DataInv
  BY DEF IndInv, TypeOK, DataInv

-----------------------------------------------------------------------------
(* One lemma for each action.                                              *)

LEMMA InitIndInv == Init => IndInv
<1> SUFFICES ASSUME Init PROVE IndInv
  OBVIOUS
<1>1. DataOK
  BY DEF Init, DataOK, Nothing
<1>2. InstancesOK
  BY DEF Init, InstancesOK, Nothing
<1>3. TypeOK
  BY <1>1, <1>2 DEF Init, TypeOK
<1>4. HolderInv /\ OrphanInv
  BY DEF Init, HolderInv, Looping, OrphanInv
<1>5. \A p \in Instances : LoopInv(p)
  BY DEF Init, LoopInv, Looping, Behind, Ahead, PlaceOK
<1>6. \A m \in Migrations : ~Recorded(m)
  BY VersionType DEF Init, Nothing, Recorded
<1>7. AppliedOnce /\ RecordedIsWhole
  BY <1>6, WorkParts DEF Init, AppliedOnce, RecordedIsWhole
<1> QED BY <1>3, <1>4, <1>5, <1>7 DEF IndInv

LEMMA StartInv ==
  ASSUME IndInv, NEW p \in Instances, Start(p)
  PROVE  IndInv'
<1>1. /\ pc[p] = "idle" /\ pc'[p] = "lock" /\ todo' = todo /\ holder' = holder
      /\ record' = record /\ ran' = ran /\ invalid' = invalid /\ orphans' = orphans
      /\ exposed' = exposed /\ starts' \in Nat
      /\ OthersStay(p) /\ InstancesOK'
  BY DEF IndInv, TypeOK, InstancesOK, Start, dbVars, OthersStay
<1>2. LoopInv(p)' /\ Looping(p)' = FALSE /\ Looping(p) = FALSE
  BY <1>1 DEF IndInv, LoopInv, Looping, Behind, Ahead, PlaceOK
<1>3. HolderInv'
  BY <1>1, <1>2, HolderKeeps DEF IndInv, OthersStay
<1>4. LoopStep(p)
  BY <1>1, <1>2, <1>3 DEF LoopStep, IndInv, TypeOK
<1> QED BY <1>1, <1>4, DataOfInd, DataStays, StepOf

LEMMA AcquireLockInv ==
  ASSUME IndInv, NEW p \in Instances, AcquireLock(p)
  PROVE  IndInv'
<1>1. /\ pc[p] = "lock" /\ pc'[p] = "load" /\ todo' = todo /\ holder' = p /\ holder = NoInstance
      /\ record' = record /\ ran' = ran /\ invalid' = invalid /\ orphans' = orphans
      /\ exposed' = exposed /\ starts' = starts
      /\ OthersStay(p) /\ InstancesOK'
  BY DEF IndInv, TypeOK, InstancesOK, AcquireLock, loopVars, historyVars, OthersStay
<1>2. LoopInv(p)'
  BY <1>1 DEF IndInv, LoopInv, Looping, Behind, Ahead, PlaceOK
<1>3. HolderInv'
  BY <1>1 DEF IndInv, HolderInv, Looping, OthersStay
<1>4. LoopStep(p)
  BY <1>1, <1>2, <1>3 DEF LoopStep
<1> QED BY <1>1, <1>4, DataOfInd, DataStays, StepOf DEF IndInv, TypeOK

LEMMA LoadAppliedInv ==
  ASSUME IndInv, NEW p \in Instances, LoadApplied(p)
  PROVE  IndInv'
<1>1. /\ pc[p] = "load" /\ pc'[p] = "loop" /\ holder' = holder
      /\ applied'[p] = record /\ release' = release /\ todo'[p] = release[p] /\ position'[p] = 1
      /\ record' = record /\ ran' = ran /\ invalid' = invalid /\ orphans' = orphans
      /\ exposed' = exposed /\ starts' = starts
      /\ OthersStay(p) /\ InstancesOK' /\ release[p] \subseteq Migrations
  BY DEF IndInv, TypeOK, DataOK, InstancesOK, LoadApplied, dbVars, historyVars, OthersStay
<1>2. Behind(p)' /\ Ahead(p)'
  BY <1>1 DEF Behind, Ahead
<1>3. \A m \in todo'[p] : Begun(m, position[p])'
  BY <1>1, WorkParts DEF Begun
<1>4. LoopInv(p)'
  BY <1>1, <1>2, <1>3 DEF LoopInv, Looping, PlaceOK
<1>5. HolderInv'
  BY <1>1, HolderKeeps DEF IndInv, OthersStay, Looping
<1>6. LoopStep(p)
  BY <1>1, <1>4, <1>5 DEF LoopStep, IndInv, TypeOK
<1> QED BY <1>1, <1>6, DataOfInd, DataStays, StepOf DEF IndInv, TypeOK

\* A return that leaves the database alone.
LEMMA ReturnInv ==
  ASSUME IndInv, NEW p \in Instances, NEW outcome \in {"idle", "failed"}, Return(p, outcome),
         record' = record, ran' = ran, invalid' = invalid, orphans' = orphans,
         starts' = starts, exposed' = exposed
  PROVE  IndInv'
<1>1. LoopStep(p)
  BY Returns
<1> QED BY <1>1, DataOfInd, DataStays, StepOf DEF IndInv, TypeOK

LEMMA SkipAppliedInv ==
  ASSUME IndInv, NEW p \in Instances, NEW m \in Migrations, SkipApplied(p, m)
  PROVE  IndInv'
<1>1. /\ At(p, m) /\ applied[p][Version[m]] = m /\ Advance(p, m) /\ holder' = holder
      /\ record' = record /\ ran' = ran /\ invalid' = invalid /\ orphans' = orphans
      /\ exposed' = exposed /\ starts' = starts
  BY DEF SkipApplied, dbVars, historyVars
<1>2. record[Version[m]] = m
  BY <1>1 DEF At, IndInv, LoopInv, Ahead
<1>3. DataInv' /\ Grows
  BY <1>1, DataOfInd, DataStays
<1>4. LoopStep(p)
  BY <1>1, <1>2, <1>3, Advances DEF Recorded
<1> QED BY <1>1, <1>3, <1>4, StepOf DEF IndInv, TypeOK

LEMMA FinishInv ==
  ASSUME IndInv, NEW p \in Instances, Finish(p)
  PROVE  IndInv'
<1>1. /\ pc[p] = "loop" /\ todo[p] = {} /\ todo'[p] = {} /\ pc'[p] = "done" /\ Unlock(p)
      /\ release' = release
      /\ record' = record /\ ran' = ran /\ invalid' = invalid /\ orphans' = orphans
      /\ exposed' = exposed /\ starts' = starts
      /\ OthersStay(p) /\ InstancesOK'
  BY DEF IndInv, TypeOK, InstancesOK, Finish, Return, historyVars, OthersStay, Nothing
<1>2. Behind(p)'
  BY <1>1 DEF IndInv, LoopInv, Behind, Looping, Recorded
<1>3. LoopInv(p)'
  BY <1>1, <1>2 DEF LoopInv, Looping, Ahead, PlaceOK
<1>4. HolderInv' /\ holder' \in Instances \cup {NoInstance}
  BY <1>1, HolderReturns DEF IndInv, OthersStay
<1>5. LoopStep(p)
  BY <1>1, <1>3, <1>4 DEF LoopStep
<1> QED BY <1>1, <1>5, DataOfInd, DataStays, StepOf DEF IndInv, TypeOK

LEMMA ExitInv ==
  ASSUME IndInv, NEW p \in Instances, Exit(p)
  PROVE  IndInv'
<1>1. /\ pc[p] \in {"done", "failed"} /\ pc'[p] = "idle" /\ todo' = todo /\ holder' = holder
      /\ record' = record /\ ran' = ran /\ invalid' = invalid /\ orphans' = orphans
      /\ exposed' = exposed /\ starts' = starts
      /\ OthersStay(p) /\ InstancesOK'
  BY DEF IndInv, TypeOK, InstancesOK, Exit, dbVars, historyVars, OthersStay
<1>2. LoopInv(p)'
  BY <1>1 DEF IndInv, LoopInv, Looping, Behind, Ahead, PlaceOK
<1>3. HolderInv'
  BY <1>1, HolderKeeps DEF IndInv, OthersStay, Looping
<1>4. LoopStep(p)
  BY <1>1, <1>2, <1>3 DEF LoopStep, IndInv, TypeOK
<1> QED BY <1>1, <1>4, DataOfInd, DataStays, StepOf DEF IndInv, TypeOK

\* Where the loop of p is: a place of its own, which an orphan of it would have.
LEMMA LoopPlace ==
  ASSUME IndInv, NEW p \in Instances, Looping(p), NEW m \in todo[p],
         \A n \in todo[p] : Version[m] <= Version[n]
  PROVE  /\ m \in Migrations /\ m \in release[p] /\ release[p] \in Releases
         /\ position[p] \in Nat \ {0}
         /\ \A n \in release[p] : Version[n] < Version[m] => record[Version[n]] # NoMigration
         /\ Begun(m, position[p])
         /\ \A n \in todo[p] : Version[n] = Version[m] => n = m
<1>1. /\ todo[p] \subseteq release[p] /\ todo[p] \subseteq Migrations
      /\ release[p] \in Releases \cup {{}} /\ position[p] \in Nat \ {0}
  BY DEF IndInv, LoopInv, TypeOK, InstancesOK
<1>2. /\ m \in release[p] /\ release[p] \in Releases /\ release[p] \subseteq Migrations
  BY <1>1
<1>3. ASSUME NEW n \in release[p], Version[n] < Version[m]
      PROVE  record[Version[n]] # NoMigration
  <2>1. Version[n] \in Nat /\ Version[m] \in Nat
    BY <1>2, VersionType
  <2>2. n \notin todo[p]
    BY <1>3, <2>1
  <2> QED BY <2>2 DEF IndInv, LoopInv, Behind
<1>4. Begun(m, position[p])
  BY DEF IndInv, LoopInv, PlaceOK
<1> QED BY <1>1, <1>2, <1>3, <1>4

LEMMA ApplyMigrationInv ==
  ASSUME IndInv, NEW p \in Instances, NEW m \in Migrations, ApplyMigration(p, m)
  PROVE  IndInv'
<1>1. /\ At(p, m) /\ applied[p][Version[m]] = NoMigration /\ ExecuteAll(m) /\ Store(m)
      /\ orphans' = orphans /\ exposed' = exposed /\ starts' = starts
      /\ Looping(p) /\ m \in todo[p]
  BY DEF ApplyMigration, MustApply, At, Looping, historyVars
<1>2. exposed \/ record[Version[m]] = NoMigration
  BY <1>1 DEF IndInv, LoopInv, Ahead
<1>3. DataInv' /\ Grows
  BY <1>1, <1>2, DataOfInd, DataStepTransaction
<1>4. /\ record'[Version[m]] # NoMigration
      /\ exposed \/ Recorded(m)'
      /\ \A v \in Versions : v # Version[m] => record'[v] = record[v]
  BY <1>1, <1>2, StoreFacts DEF IndInv, TypeOK, Recorded
<1>5. LoopStep(p)
  <2>1. CASE Advance(p, m) /\ UNCHANGED holder
    BY <1>1, <1>3, <1>4, <2>1, Advances
  <2>2. CASE Return(p, "failed")
    BY <1>1, <2>2, Returns
  <2> QED BY <2>1, <2>2 DEF ApplyMigration, GoOn
<1> QED BY <1>1, <1>3, <1>5, StepOf DEF IndInv, TypeOK

LEMMA RecordMigrationInv ==
  ASSUME IndInv, NEW p \in Instances, NEW m \in Migrations, RecordMigration(p, m)
  PROVE  IndInv'
<1>1. /\ At(p, m) /\ applied[p][Version[m]] = NoMigration /\ Store(m) /\ position[p] > Length[m]
      /\ orphans' = orphans /\ exposed' = exposed /\ starts' = starts
      /\ ran' = ran /\ invalid' = invalid
      /\ Looping(p) /\ m \in todo[p] /\ m \in NoTransaction
  BY DEF RecordMigration, MustApply, At, Looping, historyVars, Transactional
<1>2. exposed \/ record[Version[m]] = NoMigration
  BY <1>1 DEF IndInv, LoopInv, Ahead
<1>3. \A w \in Statements(m) : Present(w)
  <2>1. Begun(m, position[p]) /\ position[p] \in Nat
    BY <1>1, LoopPlace DEF At
  <2>2. \A w \in Statements(m) : w[2] < position[p]
    BY <1>1, <2>1, WorkParts
  <2> QED BY <2>1, <2>2 DEF Begun
<1>4. DataInv' /\ Grows
  BY <1>1, <1>3, DataOfInd, DataStepRecord
<1>5. /\ record'[Version[m]] # NoMigration
      /\ exposed \/ Recorded(m)'
      /\ \A v \in Versions : v # Version[m] => record'[v] = record[v]
  BY <1>1, <1>2, StoreFacts DEF IndInv, TypeOK, Recorded
<1>6. LoopStep(p)
  <2>1. CASE Advance(p, m) /\ UNCHANGED holder
    BY <1>1, <1>4, <1>5, <2>1, Advances
  <2>2. CASE Return(p, "failed")
    BY <1>1, <2>2, Returns
  <2> QED BY <2>1, <2>2 DEF RecordMigration, GoOn
<1> QED BY <1>1, <1>4, <1>6, StepOf DEF IndInv, TypeOK

\* A statement that has left its effect is behind the loop.
LEMMA NextStatementInv ==
  ASSUME IndInv, NEW p \in Instances, Looping(p), NEW m \in todo[p],
         \A n \in todo[p] : Version[m] <= Version[n],
         NextStatement(p), DataInv' /\ Grows, NEW u, u = <<m, position[p]>>, Present(u)'
  PROVE  IndInv'
<1>1. /\ pc'[p] = "loop" /\ holder' = holder /\ record' = record /\ orphans' = orphans
      /\ release' = release /\ applied' = applied /\ todo' = todo
      /\ exposed' = exposed /\ starts' = starts
      /\ position' = [position EXCEPT ![p] = @ + 1] /\ position'[p] = position[p] + 1
      /\ OthersStay(p) /\ InstancesOK'
  BY DEF IndInv, TypeOK, InstancesOK, NextStatement, historyVars, OthersStay
<1>3. Behind(p)' /\ Ahead(p)'
  BY <1>1 DEF IndInv, LoopInv, Behind, Ahead, Recorded
<1>4. ASSUME NEW n \in todo[p], \A o \in todo[p] : Version[n] <= Version[o]
      PROVE  Begun(n, position[p])'
  <2>1. m \in Migrations /\ n \in Migrations /\ position[p] \in Nat /\ Begun(m, position[p])
    BY <1>4, LoopPlace
  <2>2. n = m
    BY <1>4, <2>1, VersionType, LoopPlace
  <2>3. ASSUME NEW w \in Statements(m), w[2] < position[p] + 1
        PROVE  Present(w)'
    <3>1. w \in Work /\ w = <<m, w[2]>> /\ w[2] \in Nat
      BY <2>1, WorkParts
    <3>2. CASE w[2] = position[p]
      BY <3>1, <3>2
    <3>3. CASE w[2] < position[p]
      BY <2>1, <3>1, <3>3 DEF Begun, Grows
    <3> QED BY <2>1, <2>3, <3>1, <3>2, <3>3
  <2> QED BY <1>1, <2>2, <2>3 DEF Begun
<1>5. LoopInv(p)'
  BY <1>1, <1>3, <1>4 DEF IndInv, LoopInv, Looping, PlaceOK
<1>6. HolderInv'
  BY <1>1, HolderKeeps DEF IndInv, OthersStay, Looping
<1>7. LoopStep(p)
  BY <1>1, <1>5, <1>6 DEF LoopStep, IndInv, TypeOK
<1> QED BY <1>1, <1>7, StepOf DEF IndInv, TypeOK

LEMMA ExecStatementInv ==
  ASSUME IndInv, NEW p \in Instances, NEW m \in Migrations, NEW w \in Statements(m), ExecStatement(p, m, w)
  PROVE  IndInv'
<1>1. /\ At(p, m) /\ w = <<m, position[p]>> /\ Execute(w) /\ NextStatement(p)
      /\ m \in NoTransaction
  BY DEF ExecStatement, NextIs, MustApply, Transactional
<1>2. DataInv' /\ Grows /\ Present(w)'
  BY <1>1, DataOfInd, DataStepStatement DEF NextStatement, historyVars
<1> QED BY <1>1, <1>2, NextStatementInv DEF At, Looping

LEMMA IndexExistsInv ==
  ASSUME IndInv, NEW p \in Instances, NEW m \in Migrations, NEW w \in Statements(m), IndexExists(p, m, w)
  PROVE  IndInv'
<1>1. /\ At(p, m) /\ w = <<m, position[p]>> /\ Present(w) /\ NextStatement(p)
      /\ ran' = ran /\ invalid' = invalid
  BY DEF IndexExists, NextIs, MustApply
<1>2. DataInv' /\ Grows
  BY <1>1, DataOfInd, DataStays DEF NextStatement, historyVars
<1>3. Present(w)'
  BY <1>1 DEF Present
<1> QED BY <1>1, <1>2, <1>3, NextStatementInv DEF At, Looping

LEMMA IndexBuiltInv ==
  ASSUME IndInv, NEW p \in Instances, NEW m \in Migrations, NEW w \in Statements(m), IndexBuilt(p, m, w)
  PROVE  IndInv'
<1>1. /\ pc[p] = "build" /\ m \in todo[p] /\ \A n \in todo[p] : Version[m] <= Version[n]
      /\ w = <<m, position[p]>> /\ Execute(w) /\ NextStatement(p)
  BY DEF IndexBuilt, Builds
<1>2. m \in NoTransaction
  BY <1>1 DEF IndInv, LoopInv, PlaceOK
<1>3. DataInv' /\ Grows /\ Present(w)'
  BY <1>1, <1>2, DataOfInd, DataStepStatement DEF NextStatement, historyVars
<1> QED BY <1>1, <1>3, NextStatementInv DEF Looping

LEMMA BuildIndexInv ==
  ASSUME IndInv, NEW p \in Instances, NEW m \in Migrations, NEW w \in Statements(m), BuildIndex(p, m, w)
  PROVE  IndInv'
<1>1. /\ pc[p] = "loop" /\ pc'[p] = "build" /\ holder' = holder /\ record' = record /\ ran' = ran
      /\ orphans' = orphans /\ exposed' = exposed /\ starts' = starts
      /\ release' = release /\ applied' = applied /\ todo' = todo /\ position' = position
      /\ invalid' = invalid \cup {w} /\ w \in Work
      /\ OthersStay(p) /\ InstancesOK'
  BY WorkParts DEF IndInv, TypeOK, InstancesOK, BuildIndex, NextIs, MustApply, At, loopVars, historyVars, OthersStay
<1>2. DataInv' /\ Grows
  BY <1>1, DataOfInd, DataStepBuild
<1>3. PlaceOK(p)'
  <2>1. \A n \in todo[p] : Begun(n, position[p]) => Begun(n, position[p])'
    BY <1>1, <1>2, BegunStays DEF IndInv, TypeOK, InstancesOK, Begun
  <2>2. \A n \in todo[p] : (\A o \in todo[p] : Version[n] <= Version[o]) => n = m
    BY <1>1, LoopPlace DEF Looping, BuildIndex, NextIs, MustApply, At
  <2> QED BY <1>1, <2>1, <2>2 DEF IndInv, LoopInv, PlaceOK, BuildIndex, NextIs
<1>4. Behind(p)' /\ Ahead(p)'
  BY <1>1 DEF IndInv, LoopInv, Behind, Ahead, Recorded, Looping
<1>5. LoopInv(p)'
  BY <1>1, <1>3, <1>4 DEF IndInv, LoopInv, Looping, PlaceOK
<1>6. HolderInv'
  BY <1>1, HolderKeeps DEF IndInv, OthersStay, Looping
<1>7. LoopStep(p)
  BY <1>1, <1>5, <1>6 DEF LoopStep, IndInv, TypeOK
<1> QED BY <1>1, <1>2, <1>7, StepOf DEF IndInv, TypeOK

\* The end of the client in the middle of a command: what the loop had come to is an orphan.
LEMMA LeaveOrphanInv ==
  ASSUME IndInv, NEW p \in Instances, NEW m \in Migrations, LeaveOrphan(p, m)
  PROVE  IndInv'
<1>1. /\ Looping(p) /\ m \in todo[p] /\ \A n \in todo[p] : Version[m] <= Version[n]
      /\ \E outcome \in {"idle", "failed"} : Return(p, outcome)
      /\ orphans' = orphans \cup {<<release[p], m, position[p]>>}
      /\ record' = record /\ ran' = ran /\ invalid' = invalid /\ exposed' = TRUE /\ starts' = starts
  BY DEF LeaveOrphan, MustApply, At, Builds, Looping
<1>2. DataInv' /\ Grows
  BY <1>1, DataOfInd, DataStays
<1>3. LoopStep(p)
  BY <1>1, Returns
<1>4. /\ release[p] \in Releases /\ position[p] \in Nat \ {0}
      /\ Orphaned(<<release[p], m, position[p]>>)
  BY <1>1, LoopPlace DEF Orphaned
<1>5. TypeOK'
  BY <1>1, <1>2, <1>3, <1>4 DEF IndInv, TypeOK, DataInv, LoopStep
<1>6. ASSUME NEW q \in Instances \ {p} PROVE LoopInv(q)'
  BY <1>1, <1>2, <1>3, LoopStays DEF IndInv, LoopStep, OthersStay
<1>7. OrphanInv'
  <2> SUFFICES ASSUME NEW o \in orphans' PROVE Orphaned(o)'
    BY <1>1 DEF OrphanInv
  <2>1. Orphaned(o)
    BY <1>1, <1>4 DEF IndInv, OrphanInv
  <2> QED BY <1>1, <2>1 DEF Orphaned, Begun, Present
<1> QED BY <1>2, <1>3, <1>5, <1>6, <1>7 DEF IndInv, DataInv, LoopStep

\* What the database does for an orphan is what its release would have done.
LEMMA OrphanStep ==
  ASSUME IndInv, NEW o \in orphans, OrphanEffect(o[2], o[3]) \/ UNCHANGED <<record, ran, invalid>>,
         UNCHANGED exposed
  PROVE  DataInv' /\ Grows
<1>1. /\ exposed /\ o[2] \in Migrations /\ o[3] \in Nat \ {0}
      /\ Begun(o[2], o[3])
  BY DEF IndInv, TypeOK, OrphanInv, Orphaned
<1>2. CASE UNCHANGED <<record, ran, invalid>>
  BY <1>2, DataOfInd, DataStays
<1>3. CASE ExecuteAll(o[2]) /\ Store(o[2])
  BY <1>1, <1>3, DataOfInd, DataStepTransaction
<1>4. CASE ~Transactional(o[2]) /\ o[3] <= Length[o[2]] /\ Execute(<<o[2], o[3]>>) /\ UNCHANGED record
  <2>1. o[2] \in NoTransaction /\ <<o[2], o[3]>> \in Statements(o[2])
    BY <1>1, <1>4 DEF Transactional, Statements
  <2> QED BY <1>4, <2>1, DataOfInd, DataStepStatement
<1>5. CASE ~Transactional(o[2]) /\ o[3] > Length[o[2]] /\ Store(o[2]) /\ UNCHANGED <<ran, invalid>>
  <2>1. o[2] \in NoTransaction
    BY <1>5 DEF Transactional
  <2>2. \A w \in Statements(o[2]) : w[2] < o[3]
    BY <1>1, <1>5, WorkParts
  <2>3. \A w \in Statements(o[2]) : Present(w)
    BY <1>1, <2>2 DEF Begun
  <2> QED BY <1>5, <2>1, <2>3, DataOfInd, DataStepRecord
<1> QED BY <1>2, <1>3, <1>4, <1>5 DEF OrphanEffect

LEMMA OrphanEndsInv ==
  ASSUME IndInv, NEW o \in orphans, OrphanEnds(o)
  PROVE  IndInv'
<1>1. /\ orphans' = orphans \ {o} /\ holder' = holder /\ pc' = pc
      /\ release' = release /\ applied' = applied /\ todo' = todo /\ position' = position
      /\ starts' = starts /\ exposed' = exposed /\ exposed
  BY DEF OrphanEnds, loopVars, historyVars, IndInv, OrphanInv, TypeOK
<1>2. DataInv' /\ Grows
  BY <1>1, OrphanStep DEF OrphanEnds
<1>3. TypeOK'
  BY <1>1, <1>2 DEF IndInv, TypeOK, DataInv, InstancesOK
<1>4. ASSUME NEW q \in Instances PROVE LoopInv(q)'
  BY <1>1, <1>2, LoopStays DEF IndInv
<1>5. OrphanInv'
  BY <1>1, <1>2, OrphansStay DEF IndInv
<1>6. HolderInv'
  BY <1>1 DEF IndInv, HolderInv, Looping
<1> QED BY <1>2, <1>3, <1>4, <1>5, <1>6 DEF IndInv, DataInv

LEMMA LoseLockInv ==
  ASSUME IndInv, NEW p \in Instances, LoseLock(p)
  PROVE  IndInv'
<1>1. /\ orphans' = orphans /\ holder' = NoInstance /\ pc' = pc
      /\ release' = release /\ applied' = applied /\ todo' = todo /\ position' = position
      /\ starts' = starts /\ exposed' = TRUE
      /\ record' = record /\ ran' = ran /\ invalid' = invalid
  BY DEF LoseLock, loopVars
<1>2. DataInv' /\ Grows
  BY <1>1, DataOfInd, DataStays
<1>3. TypeOK'
  BY <1>1, <1>2 DEF IndInv, TypeOK, DataInv, InstancesOK
<1>4. ASSUME NEW q \in Instances PROVE LoopInv(q)'
  BY <1>1, <1>2, LoopStays DEF IndInv
<1>5. OrphanInv'
  BY <1>1, <1>2, OrphansStay DEF IndInv
<1>6. HolderInv'
  BY <1>1 DEF HolderInv
<1> QED BY <1>2, <1>3, <1>4, <1>5, <1>6 DEF IndInv, DataInv

LEMMA StutterInv ==
  ASSUME IndInv, UNCHANGED vars
  PROVE  IndInv'
  BY DEF IndInv, TypeOK, DataOK, InstancesOK, HolderInv, LoopInv, Looping, Behind, Ahead, PlaceOK,
         Begun, Present, OrphanInv, Orphaned, AppliedOnce, RecordedIsWhole, Recorded,
         vars, dbVars, loopVars, historyVars

LEMMA NextIndInv == IndInv /\ [Next]_vars => IndInv'
<1> SUFFICES ASSUME IndInv, [Next]_vars PROVE IndInv'
  OBVIOUS
<1>1. ASSUME NEW p \in Instances, RunMigrations(p) PROVE IndInv'
  <2>1. CASE AcquireLock(p)
    BY <2>1, AcquireLockInv
  <2>2. CASE LoadApplied(p)
    BY <2>2, LoadAppliedInv
  <2>3. CASE Finish(p)
    BY <2>3, FinishInv
  <2>4. CASE Fails(p)
    BY <2>4, ReturnInv DEF Fails, historyVars
  <2>5. ASSUME NEW m \in Migrations, SkipApplied(p, m) PROVE IndInv'
    BY <2>5, SkipAppliedInv
  <2>6. ASSUME NEW m \in Migrations, ChecksumMismatch(p, m) PROVE IndInv'
    BY <2>6, ReturnInv DEF ChecksumMismatch, historyVars
  <2>7. ASSUME NEW m \in Migrations, ApplyMigration(p, m) PROVE IndInv'
    BY <2>7, ApplyMigrationInv
  <2>8. ASSUME NEW m \in Migrations, ApplyStatements(p, m) PROVE IndInv'
    BY <2>8, RecordMigrationInv, ExecStatementInv, IndexExistsInv, BuildIndexInv, IndexBuiltInv
       DEF ApplyStatements
  <2> QED BY <1>1, <2>1, <2>2, <2>3, <2>4, <2>5, <2>6, <2>7, <2>8 DEF RunMigrations, Migrate
<1>2. ASSUME NEW p \in Instances, Start(p) PROVE IndInv'
  BY <1>2, StartInv
<1>3. ASSUME NEW p \in Instances, Exit(p) PROVE IndInv'
  BY <1>3, ExitInv
<1>4. ASSUME NEW p \in Instances, Crash(p) PROVE IndInv'
  BY <1>4, ReturnInv DEF Crash, historyVars
<1>5. ASSUME NEW p \in Instances, LoseLock(p) PROVE IndInv'
  BY <1>5, LoseLockInv
<1>6. ASSUME NEW p \in Instances, NEW m \in Migrations, LeaveOrphan(p, m) PROVE IndInv'
  BY <1>6, LeaveOrphanInv
<1>7. ASSUME NEW o \in orphans, OrphanEnds(o) PROVE IndInv'
  BY <1>7, OrphanEndsInv
<1>8. CASE UNCHANGED vars
  BY <1>8, StutterInv
<1> QED BY <1>1, <1>2, <1>3, <1>4, <1>5, <1>6, <1>7, <1>8 DEF Next

-----------------------------------------------------------------------------
(* The theorems.                                                           *)

\* What each loop of RunMigrations has behind it is on record, and what it has
\* before it is as it was loaded; the commands that outlive their server are the
\* last ones of such loops.
THEOREM Invariance == Spec => []IndInv
<1>1. Init => IndInv
  BY InitIndInv
<1>2. IndInv /\ [Next]_vars => IndInv'
  BY NextIndInv
<1> QED BY <1>1, <1>2, PTL DEF Spec

\* Unless work has gone on without its lock, a transactional migration has changed
\* the schema exactly as often as schema_migrations says, once or never.
THEOREM AppliedOnlyOnce == Spec => []AppliedOnce
<1>1. IndInv => AppliedOnce
  BY DEF IndInv
<1> QED BY <1>1, Invariance, PTL

\* No statement of a recorded migration has been left out, with or without the lock.
THEOREM NothingLeftOut == Spec => []RecordedIsWhole
<1>1. IndInv => RecordedIsWhole
  BY DEF IndInv
<1> QED BY <1>1, Invariance, PTL

\* A server that goes on to serve finds all its own files on record.
THEOREM ServesItsSchema == Spec => []StartsOnItsSchema
<1>1. IndInv => StartsOnItsSchema
  <2> SUFFICES ASSUME IndInv, ~exposed, NEW p \in Instances, pc[p] = "done", NEW m \in release[p]
               PROVE  Recorded(m)
    BY DEF StartsOnItsSchema
  <2>1. todo[p] = {}
    BY DEF IndInv, LoopInv, Looping
  <2> QED BY <2>1 DEF IndInv, LoopInv, Behind
<1> QED BY <1>1, Invariance, PTL

\* Storing a migration whose release has its earlier versions on record adds to
\* the history, or leaves it as it is.
LEMMA StoreAdds ==
  ASSUME IndInv, NEW R \in Releases, NEW m \in R, m \in Migrations, Store(m),
         \A n \in R : Version[n] < Version[m] => record[Version[n]] # NoMigration
  PROVE  History!Next \/ record' = record
<1>1. CASE record[Version[m]] = NoMigration
  <2>1. record' = [record EXCEPT ![Version[m]] = m]
    BY <1>1, VersionType DEF Store, IndInv, TypeOK, DataOK
  <2>2. History!Add(R, m)
    BY <1>1, <2>1 DEF History!Add
  <2> QED BY <2>2 DEF History!Next
<1>2. CASE record[Version[m]] # NoMigration
  <2>1. record' = record
    BY <1>2, VersionType DEF Store, IndInv, TypeOK, DataOK
  <2> QED BY <2>1
<1> QED BY <1>1, <1>2

LEMMA LoopAdds ==
  ASSUME IndInv, NEW p \in Instances, NEW m \in Migrations, At(p, m), Store(m)
  PROVE  History!Next \/ record' = record
<1>1. Looping(p) /\ m \in todo[p] /\ \A n \in todo[p] : Version[m] <= Version[n]
  BY DEF At, Looping
<1>2. /\ m \in release[p] /\ release[p] \in Releases
      /\ \A n \in release[p] : Version[n] < Version[m] => record[Version[n]] # NoMigration
  BY <1>1, LoopPlace
<1> QED BY <1>2, StoreAdds

LEMMA HistoryStep == IndInv /\ [Next]_vars => [History!Next]_record
<1> SUFFICES ASSUME IndInv, [Next]_vars PROVE History!Next \/ record' = record
  OBVIOUS
<1>1. ASSUME NEW p \in Instances, RunMigrations(p) PROVE History!Next \/ record' = record
  <2>1. CASE AcquireLock(p) \/ LoadApplied(p) \/ Finish(p) \/ Fails(p)
    BY <2>1 DEF AcquireLock, LoadApplied, Finish, Fails, dbVars
  <2>2. ASSUME NEW m \in Migrations, SkipApplied(p, m) \/ ChecksumMismatch(p, m)
        PROVE  record' = record
    BY <2>2 DEF SkipApplied, ChecksumMismatch, dbVars
  <2>3. ASSUME NEW m \in Migrations, ApplyMigration(p, m) PROVE History!Next \/ record' = record
    BY <2>3, LoopAdds DEF ApplyMigration, MustApply
  <2>4. ASSUME NEW m \in Migrations, ApplyStatements(p, m) PROVE History!Next \/ record' = record
    BY <2>4, LoopAdds
       DEF ApplyStatements, RecordMigration, MustApply, ExecStatement, IndexExists, BuildIndex,
           IndexBuilt, NextStatement
  <2> QED BY <1>1, <2>1, <2>2, <2>3, <2>4 DEF RunMigrations, Migrate
<1>2. ASSUME NEW p \in Instances, Start(p) \/ Exit(p) \/ Crash(p) \/ LoseLock(p) PROVE record' = record
  BY <1>2 DEF Start, Exit, Crash, LoseLock, dbVars
<1>3. ASSUME NEW p \in Instances, NEW m \in Migrations, LeaveOrphan(p, m) PROVE record' = record
  BY <1>3 DEF LeaveOrphan
<1>4. ASSUME NEW o \in orphans, OrphanEnds(o) PROVE History!Next \/ record' = record
  <2>1. /\ o[1] \in Releases /\ o[2] \in o[1] /\ o[2] \in Migrations
        /\ \A n \in o[1] : Version[n] < Version[o[2]] => record[Version[n]] # NoMigration
    BY DEF IndInv, TypeOK, OrphanInv, Orphaned
  <2>2. Store(o[2]) \/ record' = record
    BY <1>4 DEF OrphanEnds, OrphanEffect
  <2> QED BY <2>1, <2>2, StoreAdds
<1>5. CASE UNCHANGED vars
  BY <1>5 DEF vars, dbVars
<1> QED BY <1>1, <1>2, <1>3, <1>4, <1>5 DEF Next

\* The records are an append-only history, each release's in the order of the
\* versions, whoever migrates, with or without the lock.
THEOREM HistoryIsKept == Spec => ImplementsHistory
<1>1. Init => History!Init
  BY DEF Init, History!Init, Nothing, Versions, History!Versions
<1>2. IndInv /\ [Next]_vars => [History!Next]_record
  BY HistoryStep
<1> QED BY <1>1, <1>2, Invariance, PTL DEF Spec, ImplementsHistory, History!Spec
=============================================================================
