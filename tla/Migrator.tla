------------------------------ MODULE Migrator ------------------------------
(***************************************************************************)
(* The schema migrations that every server runs when it starts             *)
(* (internal/db/migrator.go, RunMigrations).  Instances, of the same or of *)
(* different releases, share a database; an advisory lock of PostgreSQL    *)
(* keeps them apart.                                                       *)
(*                                                                         *)
(* The lock belongs to a connection of its own, lockConn; the migrations   *)
(* go over other connections.  So an instance may lose the lock and not    *)
(* notice, and when an instance dies its lock is free at once, although    *)
(* the database may still be busy with the last command it was sent.       *)
(*                                                                         *)
(* A migration is a transaction that ends with its record, or, with the    *)
(* directive NoTransaction, a list of statements that are committed one by *)
(* one, followed by a transaction for the record.  Such a list may hold    *)
(* CREATE INDEX CONCURRENTLY IF NOT EXISTS: the index is there, invalid,   *)
(* while it is built; it stays so when that fails, and where there is one, *)
(* valid or not, the statement does nothing.                               *)
(***************************************************************************)
EXTENDS Naturals

CONSTANTS
  Instances,
  NoInstance,
  Migrations,     \* migration files: a file whose text has changed is another one
  NoMigration,
  Version,        \* the number in the name of each file
  Length,         \* how many statements each has; 0 for an empty one
  NoTransaction,  \* those with the directive
  Indexes,        \* the statements <<m, i>> that are CREATE INDEX CONCURRENTLY
  Releases,       \* the sets of files that builds of the server embed
  MaxStarts       \* bound: how often instances start, together

ASSUME MigratorAssumption ==
  /\ NoInstance \notin Instances
  /\ NoMigration \notin Migrations
  /\ Version \in [Migrations -> Nat]
  /\ Length \in [Migrations -> Nat]
  /\ NoTransaction \subseteq Migrations
  /\ Releases \subseteq SUBSET Migrations
  /\ \A w \in Indexes : w[1] \in NoTransaction  \* PostgreSQL refuses them in a transaction
  /\ \A R \in Releases : \A m, n \in R : Version[m] = Version[n] => m = n
  /\ MaxStarts \in Nat

VARIABLES
  holder,   \* the instance whose lockConn has the advisory lock
  record,   \* schema_migrations: the migration recorded under each version
  ran,      \* how often each statement has been executed to its end
  invalid,  \* the statements whose index is there and not valid
  orphans,  \* commands in the database whose client is gone: <<release, migration, statement>>
  pc,       \* where each instance is
  release,  \* what it has embedded
  applied,  \* the records it has loaded
  todo,     \* the migrations its loop has not dealt with
  position, \* the next statement of the current migration
  starts,   \* how often an instance has been started (bound)
  exposed   \* work has gone on without the lock that covered it (history)

dbVars == <<holder, record, ran, invalid, orphans>>
loopVars == <<release, applied, todo, position>>
historyVars == <<starts, exposed>>
vars == <<dbVars, pc, loopVars, historyVars>>

Versions == {Version[m] : m \in Migrations}
Nothing == [v \in Versions |-> NoMigration]
Statements(m) == {m} \X (1..Length[m])
Work == UNION {Statements(m) : m \in Migrations}

Running(p) == pc[p] \in {"lock", "load", "loop", "build"}

\* An index is there, valid or not.
Present(w) == ran[w] > 0 \/ w \in invalid

Init ==
  /\ holder = NoInstance
  /\ record = Nothing
  /\ ran = [w \in Work |-> 0]
  /\ invalid = {}
  /\ orphans = {}
  /\ pc = [p \in Instances |-> "idle"]
  /\ release = [p \in Instances |-> {}]
  /\ applied = [p \in Instances |-> Nothing]
  /\ todo = [p \in Instances |-> {}]
  /\ position = [p \in Instances |-> 1]
  /\ starts = 0
  /\ exposed = FALSE

-----------------------------------------------------------------------------
(* What commands do to the database.                                       *)

\* Mutant: INSERT ... ON CONFLICT DO UPDATE.
StoreAlways(m) == record' = [record EXCEPT ![Version[m]] = m]

\* INSERT ... ON CONFLICT (version) DO NOTHING.
Store(m) ==
  record' = [record EXCEPT ![Version[m]] = IF @ = NoMigration THEN m ELSE @]

\* The statements of m are committed together.
ExecuteAll(m) ==
  /\ ran' = [w \in Work |-> ran[w] + (IF w \in Statements(m) THEN 1 ELSE 0)]
  /\ UNCHANGED invalid

\* One statement is executed to its end.
Execute(w) ==
  /\ ran' = [ran EXCEPT ![w] = @ + 1]
  /\ invalid' = invalid \ {w}

\* pg_advisory_unlock, or the end of lockConn.
Unlock(p) == holder' = IF holder = p THEN NoInstance ELSE holder

-----------------------------------------------------------------------------
(* RunMigrations.                                                          *)

Start(p) ==
  /\ pc[p] = "idle" /\ starts < MaxStarts
  /\ starts' = starts + 1
  /\ \E R \in Releases : release' = [release EXCEPT ![p] = R]
  /\ pc' = [pc EXCEPT ![p] = "lock"]
  /\ UNCHANGED <<dbVars, applied, todo, position, exposed>>

AcquireLock(p) ==
  /\ pc[p] = "lock" /\ holder = NoInstance
  /\ holder' = p
  /\ pc' = [pc EXCEPT ![p] = "load"]
  /\ UNCHANGED <<record, ran, invalid, orphans, loopVars, historyVars>>

LoadApplied(p) ==
  /\ pc[p] = "load"
  /\ applied' = [applied EXCEPT ![p] = record]
  /\ todo' = [todo EXCEPT ![p] = release[p]]
  /\ position' = [position EXCEPT ![p] = 1]
  /\ pc' = [pc EXCEPT ![p] = "loop"]
  /\ UNCHANGED <<dbVars, release, historyVars>>

\* m is where the loop of p, in the order of the versions, has come to.
At(p, m) ==
  /\ pc[p] = "loop"
  /\ m \in todo[p]
  /\ \A n \in todo[p] : Version[m] <= Version[n]

\* ... and p believes that it must be applied.
MustApply(p, m) == At(p, m) /\ applied[p][Version[m]] = NoMigration

\* The loop goes on to the next migration.
Advance(p, m) ==
  /\ todo' = [todo EXCEPT ![p] = @ \ {m}]
  /\ position' = [position EXCEPT ![p] = 1]
  /\ UNCHANGED <<pc, release, applied>>

\* Mutant: lockConn goes back to the pool with the lock when all went well.
ReturnLocked(p, outcome) ==
  /\ pc' = [pc EXCEPT ![p] = outcome]
  /\ holder' = IF holder = p /\ outcome # "done" THEN NoInstance ELSE holder
  /\ release' = [release EXCEPT ![p] = IF outcome = "done" THEN @ ELSE {}]
  /\ applied' = [applied EXCEPT ![p] = Nothing]
  /\ todo' = [todo EXCEPT ![p] = {}]
  /\ position' = [position EXCEPT ![p] = 1]

\* RunMigrations returns: its deferred call frees the lock.
Return(p, outcome) ==
  /\ pc' = [pc EXCEPT ![p] = outcome]
  /\ Unlock(p)
  /\ release' = [release EXCEPT ![p] = IF outcome = "done" THEN @ ELSE {}]
  /\ applied' = [applied EXCEPT ![p] = Nothing]
  /\ todo' = [todo EXCEPT ![p] = {}]
  /\ position' = [position EXCEPT ![p] = 1]

\* A commit is answered; or its answer is lost, and is taken for an error.
GoOn(p, m) ==
  \/ Advance(p, m) /\ UNCHANGED holder
  \/ Return(p, "failed")

\* Mutant: the checksum of what is recorded is not compared.
SkipUnchecked(p, m) ==
  /\ At(p, m) /\ applied[p][Version[m]] # NoMigration
  /\ Advance(p, m)
  /\ UNCHANGED <<dbVars, historyVars>>

SkipApplied(p, m) ==
  /\ At(p, m) /\ applied[p][Version[m]] = m
  /\ Advance(p, m)
  /\ UNCHANGED <<dbVars, historyVars>>

ChecksumMismatch(p, m) ==
  /\ At(p, m) /\ applied[p][Version[m]] \notin {m, NoMigration}
  /\ Return(p, "failed")
  /\ UNCHANGED <<record, ran, invalid, orphans, historyVars>>

Transactional(m) == m \notin NoTransaction \/ Length[m] = 0

\* Mutant: the record is inserted after the commit, which may be all there is.
ApplyThenRecord(p, m) ==
  /\ MustApply(p, m) /\ Transactional(m)
  /\ ExecuteAll(m)
  /\ \/ Store(m) /\ Advance(p, m) /\ UNCHANGED holder
     \/ UNCHANGED record /\ Return(p, "failed")
  /\ UNCHANGED <<orphans, historyVars>>

\* The migration and its record in one transaction, at the commit.
ApplyMigration(p, m) ==
  /\ MustApply(p, m) /\ Transactional(m)
  /\ ExecuteAll(m)
  /\ Store(m)
  /\ GoOn(p, m)
  /\ UNCHANGED <<orphans, historyVars>>

\* The statement of m that p comes to next.
NextIs(p, m, w) ==
  /\ MustApply(p, m) /\ ~Transactional(m) /\ position[p] <= Length[m]
  /\ w = <<m, position[p]>>

\* ... is done with.
NextStatement(p) ==
  /\ position' = [position EXCEPT ![p] = @ + 1]
  /\ pc' = [pc EXCEPT ![p] = "loop"]
  /\ UNCHANGED <<holder, record, orphans, release, applied, todo, historyVars>>

\* Mutant: an error of the statement is not returned.
ExecIgnoringErrors(p, m, w) ==
  /\ NextIs(p, m, w) /\ w \notin Indexes
  /\ Execute(w) \/ UNCHANGED <<ran, invalid>>
  /\ NextStatement(p)

ExecStatement(p, m, w) ==
  /\ NextIs(p, m, w) /\ w \notin Indexes
  /\ Execute(w)
  /\ NextStatement(p)

IndexExists(p, m, w) ==
  /\ NextIs(p, m, w) /\ w \in Indexes /\ Present(w)
  /\ NextStatement(p)
  /\ UNCHANGED <<ran, invalid>>

BuildIndex(p, m, w) ==
  /\ NextIs(p, m, w) /\ w \in Indexes /\ ~Present(w)
  /\ invalid' = invalid \cup {w}
  /\ pc' = [pc EXCEPT ![p] = "build"]
  /\ UNCHANGED <<holder, record, ran, orphans, loopVars, historyVars>>

\* The index that p is building.
Builds(p, m, w) ==
  /\ pc[p] = "build" /\ m \in todo[p]
  /\ \A n \in todo[p] : Version[m] <= Version[n]
  /\ w = <<m, position[p]>>

IndexBuilt(p, m, w) ==
  /\ Builds(p, m, w)
  /\ Execute(w)
  /\ NextStatement(p)

RecordMigration(p, m) ==
  /\ MustApply(p, m) /\ ~Transactional(m) /\ position[p] > Length[m]
  /\ Store(m)
  /\ GoOn(p, m)
  /\ UNCHANGED <<ran, invalid, orphans, historyVars>>

Finish(p) ==
  /\ pc[p] = "loop" /\ todo[p] = {}
  /\ Return(p, "done")
  /\ UNCHANGED <<record, ran, invalid, orphans, historyVars>>

\* The lock or a connection is not to be had in time, or a command fails and
\* changes nothing; what was being built stays invalid.
Fails(p) ==
  /\ Running(p)
  /\ Return(p, "failed")
  /\ UNCHANGED <<record, ran, invalid, orphans, historyVars>>

ApplyStatements(p, m) ==
  \/ RecordMigration(p, m)
  \/ \E w \in Statements(m) :
       \/ ExecStatement(p, m, w) \/ IndexExists(p, m, w)
       \/ BuildIndex(p, m, w) \/ IndexBuilt(p, m, w)

\* What p does with the lock when no command of its own fails.
Migrate(p) ==
  \/ LoadApplied(p) \/ Finish(p)
  \/ \E m \in Migrations :
       \/ SkipApplied(p, m) \/ ChecksumMismatch(p, m)
       \/ ApplyMigration(p, m) \/ ApplyStatements(p, m)

RunMigrations(p) == AcquireLock(p) \/ Migrate(p) \/ Fails(p)

-----------------------------------------------------------------------------
(* Deaths and lost connections.                                            *)

\* The server ends, after it has served or because it could not start.
Exit(p) ==
  /\ pc[p] \in {"done", "failed"}
  /\ pc' = [pc EXCEPT ![p] = "idle"]
  /\ release' = [release EXCEPT ![p] = {}]
  /\ UNCHANGED <<dbVars, applied, todo, position, historyVars>>

\* The process dies; what it had sent is undone.
Crash(p) ==
  /\ Running(p)
  /\ Return(p, "idle")
  /\ UNCHANGED <<record, ran, invalid, orphans, historyVars>>

\* The process dies, or its connection is cut; the database goes on with the statement
\* it executes, or with the commit of the transaction that includes the record.
LeaveOrphan(p, m) ==
  /\ \/ MustApply(p, m) /\ <<m, position[p]>> \notin Indexes
     \/ \E w \in Statements(m) : Builds(p, m, w)
  /\ \E outcome \in {"idle", "failed"} : Return(p, outcome)
  /\ orphans' = orphans \cup {<<release[p], m, position[p]>>}
  /\ exposed' = TRUE
  /\ UNCHANGED <<record, ran, invalid, starts>>

\* What the database does with statement i of m, for a client that is gone.
OrphanEffect(m, i) ==
  \/ Transactional(m) /\ ExecuteAll(m) /\ Store(m)
  \/ ~Transactional(m) /\ i <= Length[m] /\ Execute(<<m, i>>) /\ UNCHANGED record
  \/ ~Transactional(m) /\ i > Length[m] /\ Store(m) /\ UNCHANGED <<ran, invalid>>

OrphanEnds(o) ==
  /\ o \in orphans
  /\ orphans' = orphans \ {o}
  /\ OrphanEffect(o[2], o[3]) \/ UNCHANGED <<record, ran, invalid>>
  /\ UNCHANGED <<holder, pc, loopVars, historyVars>>

\* lockConn is cut; p does not use it before it unlocks.
LoseLock(p) ==
  /\ holder = p
  /\ holder' = NoInstance
  /\ exposed' = TRUE
  /\ UNCHANGED <<record, ran, invalid, orphans, pc, loopVars, starts>>

-----------------------------------------------------------------------------
Next ==
  \/ \E p \in Instances :
       \/ Start(p) \/ RunMigrations(p) \/ Exit(p) \/ Crash(p) \/ LoseLock(p)
       \/ \E m \in Migrations : LeaveOrphan(p, m)
  \/ \E o \in orphans : OrphanEnds(o)

Spec == Init /\ [][Next]_vars

\* The database answers every statement, and grants the lock to those who wait for
\* it in turn.  There is no fairness of Fails: nobody counts on a timeout.
FairSpec ==
  Spec /\ \A p \in Instances : WF_vars(Migrate(p)) /\ SF_vars(AcquireLock(p))

-----------------------------------------------------------------------------
(* Properties.                                                             *)

Recorded(m) == record[Version[m]] = m

\* As long as no work has gone on without its lock, a transactional migration
\* has changed the schema exactly as often as it is on record, once or never,
\* whatever crashes, errors, lost answers to commits and restarts there were.
AppliedOnce ==
  ~exposed =>
    \A m \in Migrations \ NoTransaction : \A w \in Statements(m) :
      ran[w] = IF Recorded(m) THEN 1 ELSE 0

\* A migration is on record only if each of its statements has been executed,
\* or is an index that somebody has at least begun to build: no statement is
\* left out after a failure, a crash, or the loss of the lock.
RecordedIsWhole ==
  \A m \in Migrations : Recorded(m) => \A w \in Statements(m) : Present(w)

\* A server goes on to serve only on the schema of its own release: what is
\* recorded under its versions are its own files, although servers of other
\* releases have migrated the same database.
StartsOnItsSchema ==
  ~exposed =>
    \A p \in Instances : pc[p] = "done" => \A m \in release[p] : Recorded(m)

\* schema_migrations is a SchemaHistory, with or without the lock: a record
\* stays what it is, and none is added before those of the earlier versions.
History == INSTANCE SchemaHistory
ImplementsHistory == History!Spec

\* No server migrates for ever or waits for ever for the migrations of another, not
\* even without the timeout of the wait: the lock is given back however a run ends,
\* and whatever its server does afterwards.
RunEnds == \A p \in Instances : Running(p) ~> ~Running(p)

-----------------------------------------------------------------------------
(* The inductive invariant behind the theorems of MigratorProofs.          *)

DataOK ==
  /\ record \in [Versions -> Migrations \cup {NoMigration}]
  /\ ran \in [Work -> Nat]
  /\ invalid \subseteq Work

InstancesOK ==
  /\ pc \in [Instances -> {"idle", "lock", "load", "loop", "build", "done", "failed"}]
  /\ release \in [Instances -> Releases \cup {{}}]
  /\ applied \in [Instances -> [Versions -> Migrations \cup {NoMigration}]]
  /\ todo \in [Instances -> SUBSET Migrations]
  /\ position \in [Instances -> Nat \ {0}]

\* Every variable has its type.
TypeOK ==
  /\ DataOK
  /\ InstancesOK
  /\ holder \in Instances \cup {NoInstance}
  /\ orphans \subseteq Releases \X Migrations \X (Nat \ {0})
  /\ starts \in Nat
  /\ exposed \in BOOLEAN

Looping(p) == pc[p] \in {"loop", "build"}

\* Until something is exposed, who has loaded the records has the lock.
HolderInv ==
  \A p \in Instances :
    /\ holder = p => pc[p] = "load" \/ Looping(p)
    /\ ~exposed /\ (pc[p] = "load" \/ Looping(p)) => holder = p

\* What a loop has dealt with is on record, under its version.
Behind(p) ==
  Looping(p) \/ pc[p] = "done" =>
    \A m \in release[p] \ todo[p] :
      record[Version[m]] # NoMigration /\ (~exposed => Recorded(m))

\* A loaded record is still there, and with the lock there are no newer ones.
Ahead(p) ==
  \A m \in todo[p] :
    \/ applied[p][Version[m]] = record[Version[m]]
    \/ exposed /\ applied[p][Version[m]] = NoMigration

\* The statements before number i have left their effect.
Begun(m, i) == \A w \in Statements(m) : w[2] < i => Present(w)

\* The loop has come to its position, and builds what is an index.
PlaceOK(p) ==
  \A m \in todo[p] :
    (\A n \in todo[p] : Version[m] <= Version[n]) =>
      /\ Begun(m, position[p])
      /\ pc[p] = "build" => <<m, position[p]>> \in Indexes

LoopInv(p) ==
  /\ todo[p] \subseteq release[p]
  /\ ~Looping(p) => todo[p] = {}
  /\ Behind(p)
  /\ Ahead(p)
  /\ PlaceOK(p)

\* An orphan is what the loop of a release had come to.
Orphaned(o) ==
  /\ o[2] \in o[1]
  /\ \A n \in o[1] : Version[n] < Version[o[2]] => record[Version[n]] # NoMigration
  /\ Begun(o[2], o[3])

OrphanInv ==
  /\ ~exposed => orphans = {}
  /\ \A o \in orphans : Orphaned(o)

\* The inductive invariant: what each loop has behind it is on record, what it has
\* before it is as it was loaded, and orphans are the loops' last commands.
IndInv ==
  /\ TypeOK
  /\ HolderInv
  /\ \A p \in Instances : LoopInv(p)
  /\ OrphanInv
  /\ AppliedOnce
  /\ RecordedIsWhole
=============================================================================
