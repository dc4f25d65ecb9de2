--------------------------- MODULE CommanderLedger ---------------------------
(***************************************************************************)
(* The resources of one commander (internal/orm/commander.go): the rows of *)
(* owned_resources in the database, and the copy that each session keeps   *)
(* in its Commander value.                                                 *)
(*                                                                         *)
(* The copy is a slice, OwnedResources, and a map of pointers into it,     *)
(* OwnedResourcesMap.  Handlers read and write through the map; what is    *)
(* sent to the player is read from the slice.  A resource that the         *)
(* commander did not have is appended, and an append to a full slice       *)
(* copies it: the older pointers of the map keep pointing at the old       *)
(* array.                                                                  *)
(*                                                                         *)
(* A handler works with single statements, or inside a transaction of its  *)
(* own (the ...Tx operations) in which the rows it writes are locked until *)
(* the commit or the rollback.  The copy changes at once in either case.   *)
(* A statement on a row that another session has locked waits.             *)
(* An operation that returns an error has changed nothing and is left out, *)
(* unless its statement or its commit was executed and the answer lost;    *)
(* what the handler does then is to commit, or to roll back, without it.   *)
(***************************************************************************)
EXTENDS Integers, FiniteSets

CONSTANTS
  Sessions,   \* sessions of this commander: clients, and API requests
  NoSession,
  Resources,
  Amounts,    \* the amounts that handlers consume, add and set
  Initial,    \* the amount of each resource that has a row at the start
  UintSize,   \* 2^32: the copies are uint32, the rows are bigint
  MaxStored,  \* bound: nothing is added beyond this amount
  Faults      \* what may go wrong: a subset of AllFaults

\* "statement": SetResource's write fails; "answer": the connection breaks, and with
\* it the answer to a statement or a commit that the database does execute;
\* "rollback": a transaction rolls back, because a later operation of the handler or
\* the commit fails.
AllFaults == {"statement", "answer", "rollback"}

ASSUME LedgerAssumption ==
  /\ NoSession \notin Sessions
  /\ Amounts \subseteq Nat
  /\ DOMAIN Initial \subseteq Resources
  /\ \A r \in DOMAIN Initial : Initial[r] \in Nat
  /\ UintSize \in Nat \ {0}
  /\ MaxStored \in Nat

VARIABLES
  rows,    \* the resources that have a committed row
  stored,  \* the committed amounts; 0 where there is no row
  lock,    \* the session whose transaction, perhaps abandoned, has written each row
  change,  \* what the transaction that holds the lock has added to the row
  active,  \* the sessions inside a transaction
  known,   \* the keys of each session's OwnedResourcesMap
  amount,  \* what the map's pointers point at
  listed,  \* what the elements of the slice hold
  linked,  \* the resources whose pointer points into the slice
  spare,   \* spare capacity of the slice
  strayed  \* <<s, r>>: why s's copy of r may be wrong has happened since its Load (history)

dbVars == <<rows, stored, lock, change, active>>
copyVars == <<known, amount, listed, linked, spare>>
vars == <<dbVars, copyVars, strayed>>

Free(s, r) == lock[r] \in {s, NoSession}
Mine(s) == {r \in Resources : lock[r] = s}

\* The row as the session that holds the lock sees it.
Current(r) == stored[r] + change[r]

\* What session s reads in the row: the changes of the transaction it is in, and what
\* has been committed.
Seen(s, r) == IF s \in active /\ lock[r] = s THEN Current(r) ELSE stored[r]

\* The rows rs change behind the back of the sessions ss.
Surprise(ss, rs) == strayed' = strayed \cup (ss \X rs)
Others(s) == Sessions \ {s}

\* The statement of an operation has been executed, and the operation returns an
\* error all the same: it does not touch the copy.
Unanswered(r) ==
  /\ "answer" \in Faults
  /\ Surprise(Sessions, {r})
  /\ UNCHANGED copyVars

\* Every session begins with a Load.  A map entry that is not there reads as 0.
Init ==
  /\ rows = DOMAIN Initial
  /\ stored = [r \in Resources |-> IF r \in rows THEN Initial[r] ELSE 0]
  /\ lock = [r \in Resources |-> NoSession]
  /\ change = [r \in Resources |-> 0]
  /\ active = {}
  /\ known = [s \in Sessions |-> rows]
  /\ linked = known
  /\ amount = [s \in Sessions |-> [r \in Resources |-> stored[r] % UintSize]]
  /\ listed = amount
  /\ spare = [s \in Sessions |-> 0]
  /\ strayed = {}

-----------------------------------------------------------------------------
(* The copy.                                                               *)

\* *OwnedResourcesMap[r] = n, in uint32.
WriteCopy(s, r, n) ==
  /\ amount' = [amount EXCEPT ![s][r] = n % UintSize]
  /\ listed' = [listed EXCEPT ![s][r] = IF r \in linked[s] THEN n % UintSize ELSE @]
  /\ UNCHANGED <<known, linked, spare>>

\* append, then the pointer to the new element.  How far a full slice grows is
\* the runtime's business: at least to the new length.
AppendCopy(s, r, n) ==
  /\ known' = [known EXCEPT ![s] = @ \cup {r}]
  /\ amount' = [amount EXCEPT ![s][r] = n % UintSize]
  /\ listed' = [listed EXCEPT ![s][r] = n % UintSize]
  /\ IF spare[s] > 0
     THEN /\ linked' = [linked EXCEPT ![s] = @ \cup {r}]
          /\ spare' = [spare EXCEPT ![s] = @ - 1]
     ELSE /\ linked' = [linked EXCEPT ![s] = {r}]
          /\ \E n2 \in 0..Cardinality(known[s]) : spare' = [spare EXCEPT ![s] = n2]

\* Mutant: an entry that the map has is not looked for.
AddAsNew(s, r, n) == AppendCopy(s, r, n)

\* What the Add operations do to the copy.
AddCopy(s, r, n) ==
  IF r \in known[s] THEN WriteCopy(s, r, amount[s][r] + n) ELSE AppendCopy(s, r, n)

\* Commander.Load: everything is read again, into a slice without spare room.
Load(s) ==
  /\ s \notin active
  /\ known' = [known EXCEPT ![s] = rows]
  /\ amount' = [amount EXCEPT ![s] = [r \in Resources |-> stored[r] % UintSize]]
  /\ listed' = [listed EXCEPT ![s] = [r \in Resources |-> stored[r] % UintSize]]
  /\ linked' = [linked EXCEPT ![s] = rows]
  /\ spare' = [spare EXCEPT ![s] = 0]
  /\ strayed' = strayed \ ({s} \X Resources)
  /\ UNCHANGED dbVars

-----------------------------------------------------------------------------
(* Single statements.  In autocommit the row is locked for the statement   *)
(* only, so it must be free.                                               *)

HasEnoughResource(s, r, n) == r \in known[s] /\ amount[s][r] >= n

Autocommit(s, r) == s \notin active /\ lock[r] = NoSession

\* Mutant: the UPDATE lacks "AND amount >= $3".
ConsumeUnchecked(s, r, n) ==
  /\ Autocommit(s, r)
  /\ HasEnoughResource(s, r, n)
  /\ r \in rows
  /\ stored' = [stored EXCEPT ![r] = @ - n]
  /\ WriteCopy(s, r, amount[s][r] - n)
  /\ Surprise(Others(s), {r})
  /\ UNCHANGED <<rows, lock, change, active>>

\* Mutant: the UPDATE sets the amount that the copy gives.
ConsumeByCopy(s, r, n) ==
  /\ Autocommit(s, r)
  /\ HasEnoughResource(s, r, n)
  /\ r \in rows
  /\ stored' = [stored EXCEPT ![r] = amount[s][r] - n]
  /\ WriteCopy(s, r, amount[s][r] - n)
  /\ Surprise(Others(s), {r})
  /\ UNCHANGED <<rows, lock, change, active>>

ConsumeResource(s, r, n) ==
  /\ Autocommit(s, r)
  /\ HasEnoughResource(s, r, n)
  /\ r \in rows /\ stored[r] >= n
  /\ stored' = [stored EXCEPT ![r] = @ - n]
  /\ \/ WriteCopy(s, r, amount[s][r] - n) /\ Surprise(Others(s), {r})
     \/ Unanswered(r)
  /\ UNCHANGED <<rows, lock, change, active>>

AddResource(s, r, n) ==
  /\ Autocommit(s, r)
  /\ stored[r] + n <= MaxStored
  /\ rows' = rows \cup {r}
  /\ stored' = [stored EXCEPT ![r] = @ + n]
  /\ \/ AddCopy(s, r, n) /\ Surprise(Others(s), {r})
     \/ Unanswered(r)
  /\ UNCHANGED <<lock, change, active>>

\* The copy of a known resource is set first, and stays set if the write fails, or if
\* its answer is lost.
SetResource(s, r, n) ==
  /\ Autocommit(s, r)
  /\ \/ /\ rows' = rows \cup {r}
        /\ stored' = [stored EXCEPT ![r] = n]
        /\ \/ /\ IF r \in known[s] THEN WriteCopy(s, r, n) ELSE AppendCopy(s, r, n)
              /\ Surprise(Others(s), {r})
           \/ r \notin known[s] /\ Unanswered(r)
     \/ /\ "statement" \in Faults
        /\ r \in known[s]
        /\ WriteCopy(s, r, n)
        /\ strayed' = strayed \cup {<<s, r>>}
        /\ UNCHANGED <<rows, stored>>
  /\ UNCHANGED <<lock, change, active>>

-----------------------------------------------------------------------------
(* Transactions.                                                           *)

Begin(s) ==
  /\ s \notin active /\ Mine(s) = {}
  /\ active' = active \cup {s}
  /\ UNCHANGED <<rows, stored, lock, change, copyVars, strayed>>

Write(s, r, delta) ==
  /\ lock' = [lock EXCEPT ![r] = s]
  /\ change' = [change EXCEPT ![r] = @ + delta]
  /\ UNCHANGED <<rows, stored, active, strayed>>

ConsumeResourceTx(s, r, n) ==
  /\ s \in active /\ Free(s, r)
  /\ HasEnoughResource(s, r, n)
  /\ r \in rows \/ lock[r] = s
  /\ Current(r) >= n
  /\ Write(s, r, -n)
  /\ WriteCopy(s, r, amount[s][r] - n)

AddResourceTx(s, r, n) ==
  /\ s \in active /\ Free(s, r)
  /\ Current(r) + n <= MaxStored
  /\ Write(s, r, n)
  /\ AddCopy(s, r, n)

Unlock(s) ==
  /\ lock' = [r \in Resources |-> IF r \in Mine(s) THEN NoSession ELSE lock[r]]
  /\ change' = [r \in Resources |-> IF r \in Mine(s) THEN 0 ELSE change[r]]
  /\ active' = active \ {s}
  /\ UNCHANGED copyVars

\* The connection breaks after the COMMIT was sent, and WithPGXTx returns an error.
\* What becomes of the transaction is decided later; until then it keeps its locks.
\* (Bound: a session abandons no second one meanwhile.)
CommitUnanswered(s) ==
  /\ "answer" \in Faults
  /\ s \in active /\ Mine(s) # {}
  /\ active' = active \ {s}
  /\ Surprise({s}, Mine(s))
  /\ UNCHANGED <<rows, stored, lock, change, copyVars>>

Abandoned(s) == s \notin active /\ Mine(s) # {}

Commit(s) ==
  /\ s \in active \/ Abandoned(s)
  /\ rows' = rows \cup Mine(s)
  /\ stored' = [r \in Resources |-> IF r \in Mine(s) THEN Current(r) ELSE stored[r]]
  /\ Surprise(IF s \in active THEN Others(s) ELSE Sessions, Mine(s))
  /\ Unlock(s)

\* The database forgets what the transaction wrote; the copy does not.
Rollback(s) ==
  /\ ("rollback" \in Faults /\ s \in active) \/ Abandoned(s)
  /\ Surprise({s} \cap active, Mine(s))
  /\ UNCHANGED <<rows, stored>>
  /\ Unlock(s)

-----------------------------------------------------------------------------
Next ==
  \E s \in Sessions :
    \/ Load(s)
    \/ Begin(s) \/ Commit(s) \/ CommitUnanswered(s) \/ Rollback(s)
    \/ \E r \in Resources, n \in Amounts :
         \/ ConsumeResource(s, r, n) \/ AddResource(s, r, n) \/ SetResource(s, r, n)
         \/ ConsumeResourceTx(s, r, n) \/ AddResourceTx(s, r, n)

Spec == Init /\ [][Next]_vars

-----------------------------------------------------------------------------
(* Properties.                                                             *)

RowsOK ==
  /\ stored \in [Resources -> Int]
  /\ lock \in [Resources -> Sessions \cup {NoSession}]
  /\ change \in [Resources -> Int]
  /\ rows \subseteq Resources
  /\ active \subseteq Sessions

CopiesOK ==
  /\ known \in [Sessions -> SUBSET Resources]
  /\ amount \in [Sessions -> [Resources -> 0..UintSize - 1]]
  /\ listed \in [Sessions -> [Resources -> 0..UintSize - 1]]
  /\ linked \in [Sessions -> SUBSET Resources]
  /\ spare \in [Sessions -> Nat]

\* Every variable has its type.
TypeOK ==
  /\ RowsOK
  /\ CopiesOK
  /\ strayed \subseteq Sessions \X Resources

\* Nobody spends what is not there: a row never goes below zero, committed or
\* as a transaction sees it, however stale the copies are that the sessions
\* decide by (another session has spent, a rollback was not undone in the
\* copy, an amount has wrapped around).
NeverNegative == \A r \in Resources : stored[r] >= 0 /\ Current(r) >= 0

\* A session's copy of a resource says what the session would read from the
\* database, in uint32, also within a transaction and for resources it did not
\* know, unless one of four things has happened to it since the last Load: another
\* session has committed a change of the row, a write of its own has failed after
\* the copy was set, a transaction of its own has been rolled back, or the answer to
\* a statement or commit of its own was lost and the database has executed it, before
\* or after the Load.
CopyIsExact ==
  \A s \in Sessions : \A r \in known[s] :
    <<s, r>> \notin strayed => amount[s][r] = Seen(s, r) % UintSize

\* The rows are an account: whatever the copies say, every statement and every
\* commit adds to what is there exactly what its handler has consumed or added,
\* no failure and no other session's commit makes it lost or count twice, and a
\* transaction's changes are seen by nobody until all of them are.
Drafts == [s \in Sessions |-> [r \in Resources |-> IF lock[r] = s THEN change[r] ELSE 0]]
Account == INSTANCE ResourceAccount WITH balance <- stored, draft <- Drafts
ImplementsAccount == Account!Spec

\* SendPlayerResourceSync and PlayerInfo send, from the slice, the amounts that
\* the handlers have just written through the map.
SyncIsCurrent ==
  \A s \in Sessions : \A r \in known[s] : listed[s][r] = amount[s][r]

-----------------------------------------------------------------------------
(* The inductive invariant behind the theorems of CommanderLedgerProofs.   *)

\* A change that is not committed belongs to a transaction that holds the lock of
\* the row.
LockInv == \A r \in Resources : lock[r] = NoSession => change[r] = 0

\* Where there is no row, nothing is stored.
RowInv == \A r \in Resources \ rows : stored[r] = 0

\* A resource that a session's map lacks is one of which the session has nothing.
UnknownInv ==
  \A s \in Sessions : \A r \in Resources \ known[s] :
    <<s, r>> \notin strayed => Seen(s, r) = 0

\* Where the map's pointer leads into the slice, both say the same.
LinkInv ==
  \A s \in Sessions : linked[s] \subseteq known[s] /\ \A r \in linked[s] : listed[s][r] = amount[s][r]

\* The inductive invariant: what is committed and what the holder of a row's lock
\* sees are both nonnegative, a row that nobody holds has no pending change, and
\* a copy that has not strayed, entry or not, says what its session would read.
IndInv == TypeOK /\ LockInv /\ RowInv /\ NeverNegative /\ UnknownInv /\ CopyIsExact
=============================================================================
