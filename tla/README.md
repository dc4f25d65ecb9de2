# Verification of the Belfast server

Belfast (`src/`) is a game server: one TCP connection per player, a goroutine
that reads packets, another one that runs their handlers, a copy of the player's
state in memory, PostgreSQL behind it, and a REST API for operators beside it.
This directory holds TLA+ models of the parts of it where several goroutines,
transactions and failures meet, the TLC runs that check them on small
instances, and proofs, checked by TLAPS, that hold for every instance.

## 1. Inventory

| Part | Source | State | Operations |
|---|---|---|---|
| Client | `internal/connection/client.go` | packet queue, `queueCond`, buffer pool, `closed`, `Buffer`, `Commander` | `EnqueuePacket`, `dispatchLoop`, `CloseWithError`, `Flush`, `GetCommander`, `CreateCommander...` |
| Server | `internal/connection/server.go` | `clients` by hash, `rooms`, accepting and maintenance flags | `HandleConnection`, `AddClient`, `RemoveClient`, `DisconnectAll`, `DisconnectCommander`, rooms, broadcasts, `SendProtoMessage` |
| Dispatch | `internal/packets/handler.go` | table of handlers | `Dispatch`: handlers of a packet, then `Flush`; an error closes the client |
| Game handlers | `internal/answer` | none of their own: `client.Commander` and the database | some 600 handlers: login, mail, builds, shops, guild, island, chapters, exchange codes |
| Persistence | `internal/orm`, `internal/db` | rows; the in-memory `Commander` with slices and maps of pointers into them | `Load`, `Consume...`, `Add...`, `Set...`, `...Tx`, `SendMail`, `WithPGXTx` |
| REST API | `internal/api` | sessions, challenges, rate limits, server status cache | server stop/start/maintenance, kicks, CRUD, exchange codes, registration |
| User registration | `internal/orm/user_registration.go`, `internal/api/handlers/registration.go` | challenges (pending, consumed, expired), accounts | create, status, verify |
| Guild membership | `internal/orm/guild_core.go`, `guild_office.go`, `guild_request.go` | `guilds`, `guild_members`, `guild_user_infos`, join requests | found, apply, reject, accept, change duty, hand over, fire, quit, dissolve |
| Authentication | `internal/auth`, `internal/authz` | sessions, WebAuthn challenges, rate limiter | login, permissions |
| Gateway | `internal/entrypoint/gateway*.go`, `internal/config` | the installed configuration, `config.current`, proxied connections | accept, dial upstream, copy both ways, reload on file change |
| Scheduler, shops | `internal/scheduler`, `internal/*shop*` | reset clock, goods with refresh times | jobs, lazy refresh, purchase |
| Migrations | `internal/db/migrator.go`, `migrations/*.sql` | `schema_migrations`, an advisory lock, the schema | apply, with or without a transaction; checksums |
| Entry point, tools | `internal/entrypoint`, `cmd` | - | start-up, packet table, development tools |

How they meet. `Server.Run` starts one `HandleConnection` goroutine per
connection. It fills the client's queue; the client's dispatcher empties it and
calls `packets.Dispatch`, which runs handlers of `answer`, which read and write
`client.Commander` and the database. Handlers and REST requests reach *other*
clients through `Server.clients`: to kick them, to push chat and mailbox
messages into their `Buffer`, to disconnect everyone. REST requests also edit
the rows that running handlers use.

What is hard about it, by kind (`PROJECT.json` lists the hazards with their
lines):

* *Waking up.* One condition variable for a full and for an empty queue, with
  `Signal` (one waiter) in both directions, and `Broadcast` on close.
* *Closing.* Anyone may close a client at any time; the reader and the dispatcher
  find out later, in different places, holding buffers.
* *A registry keyed by a weak hash*, with the tests for admission outside its mutex,
  and lookups separate from removals.
* *Login on another device*, decided by iteration over a Go map.
* *Several transactions in one handler*, with a compensation written by hand,
  while the process may die and operators edit the same rows.
* *Statements that write back what an earlier one read* (registration challenges), with two
  unique indexes and one transaction to hold them together.
* *A copy in memory* that is changed before the commit, in 32 bits, through
  pointers into a slice that append moves, and that other sessions do not see.
* *Transactions that rely on rows they have read and not locked* (guild duties, the
  state of the guild, the number of members), that write rows in different orders, and
  that ask the pool for a second connection while they hold the first.
* *Migrations under a lock that lives on a connection of its own*, by several servers of
  different releases, partly outside transactions.
* *Reloads that may overlap*, each of which writes a package variable and a field of the
  gateway in two steps; *connections with two directions*, each of which may end first.

What makes each part correct: accepted packets are handled once, in order, from
buffers nobody else has, and a close ends everything (client); open clients are
findable, gone ones are not, a sweep misses nobody, one session per commander
(server); quota, redeems and rewards agree, whatever fails (exchange codes); what
is stored never goes below zero and the copy says what is stored (resources); a challenge
opens one account, and only the newest one of a commander does (registration); a guild
has one commander, and its members are those the count says (guilds); a migration is
applied once, whole and in order, and no server serves on another's schema (migrations);
what is installed is the file, if the watcher was told of it, and what was read from one socket is written to the other (gateway).

## 2. Modules

| Module | Models | Correspondence |
|---|---|---|
| `PacketQueue` | the packet path of one client: pump, ring, reader, queue, dispatcher, pool, close | a critical section of `queueMu` is one action; `waiting` is the wait set of `queueCond`: `Wait` adds, `Signal` takes any one out, `Broadcast` empties; `pc` says where each goroutine is. The packets are numbered, `content` says which one a buffer holds. `once` is the `sync.Once` of `CloseWithError`, whose callers block until the first has run. The `Flush` after a handler is a step of its own, which a peer that does not read (`stalled`) blocks until the connection is closed (`WriteBlocks`) |
| `PacketChannel` | what the path promises: a FIFO channel that can be shut, with at most one delivery that begins after the shut | refined by `PacketQueue` with `shut <- closed`, `last <- late` |
| `ServerRegistry` | admission, registry, login, kick, sweep, maintenance | `hashOf` is chosen at the start among the `Addressings`, so addresses may collide. A critical section of `clientsMutex` is one action, except `DisconnectAll` and the kick of a login (`DisconnectCommander`), which write to sockets with the mutex held: there `mutex` is a variable and each client a step, which may be held up by a peer that does not read (`blocked`). The map iteration of `DisconnectCommander` is a choice. `late` and `passedOver` are history variables |
| `ExchangeCode` | `ExchangeCodeRedeem` with its three transactions, mails, the operators' four requests, faults, crash | a transaction is the step of its commit; `seen` is the quota that the handler read first and goes on using; a statement, commit or compensation that fails is an action or a branch of one (`QueryFails`, `SendMailFails`, `CompensateFails`), the operators' requests are together `Operator`; `issued`, `stranded`, `edits` and `misled` are history variables |
| `CommanderLedger` | `owned_resources` rows, transactions with row locks, and the copies of several sessions | `amount` is what the map's pointers point at, `listed` what the slice holds, `linked` which pointers still point into it; `UintSize` is 2^32 in the code. An `UPDATE` or `UPSERT` that is executed although its answer is lost is the branch `Unanswered` of its action, a commit of that kind is `CommitUnanswered`; `Faults` says which failures a run has |
| `ResourceAccount` | what the database promises of a commander's resources: balances to which every posted deposit and withdrawal is added once, never below zero | refined by `CommanderLedger` with `balance <- stored` and as `draft` the pending change of a row for the session that holds its lock |
| `Registration` | creation, status and verification requests, unique indexes, expiry, deletion of accounts | a request outside a transaction takes one action per SQL statement, and `ConsumeUserRegistrationChallengeByID`, a transaction that locks its row first, is one. A challenge is named by the request that stores it. `overdue` grows as time passes; a request remembers in `asof` what was overdue when it read the clock. `superseded`, `granted` and `raced` are history variables |
| `GuildMembers` | the operations on guild membership | each SQL statement is an action; a row that a transaction has written and not committed is in `memberW` or `infoW`, and whoever wants to write it waits; a `SELECT` sees what is committed (READ COMMITTED); `InTx` are the connections of the pool in use; `DeadlockDetected` ends one transaction of a cycle. A statement on many rows (dissolving) visits those of its snapshot one by one. `doubled`, `met`, `outrun`, `miscounted` are history variables |
| `GuildRoster` | what the operations on guilds promise: members and duties that change by legal foundings, joinings, departures, changes of duty, handovers and dissolutions, each at once | refined by `GuildMembers` with the committed rows as the roster; a step `Cross` says which overlaps break the promise |
| `Migrator` | `RunMigrations` on one database by servers of several releases | each statement and each commit is an action; `holder` has the advisory lock; `orphans` are commands that outlive the process, or the connection, that sent them; `ran` counts how often a statement has changed the schema; an index that is being built or whose building failed is `invalid`. A commit whose answer is lost is the second case of `GoOn`. `exposed` is a history variable: work has gone on without the lock |
| `SchemaHistory` | what `schema_migrations` promises: an append-only history, in the order of the versions | refined by `Migrator` with the same variable `record` |
| `Gateway` | the configuration watcher and the forwarding of connections in mode `proxy` | versions of the file are numbered, and `text` says what each holds; `current` is `config.current`, which `LoadGateway` sets after it has read the file (`DecodeFile`, `SetCurrent`), `installed` what `Update` has put into the runtime; each reload is a goroutine in `Reloads`; each direction of a connection is a goroutine (`copier`) that reads, writes and ends; `closed` is `closeBoth`. The watcher comes some time after the configuration was read, or fails (`WatchStarts`, `WatchFails`), and may drop an event; `missed` is a history variable |
| `MC...` | the model checked instances | values for hash functions, owners of sessions, initial rows, files of releases, packets |
| `...Proofs` | theorems and their proofs | see 5 |

`PacketQueue` and `ServerRegistry` meet in `Close`: `ServerRegistry` has the
flag only, `PacketQueue` what it does to the goroutines (`Closers` are the
operators, kicks and sweeps of `ServerRegistry`); `CloseTerminates` of the
one is what `ReaderStops` under `closed` of the other relies on.
`OneSessionPerCommander` of `ServerRegistry` fails, and for that reason
`ExchangeCode` and `CommanderLedger` give a commander several sessions, and the
properties of `GuildMembers` say what two busy sessions of one commander break.
`Registration` relies on the unique indexes of migration 0022, which is not transactional:
`RecordedIsWhole` of `Migrator` says that they are at least there when 0022 is on record.
It cannot say that they are valid: a `CREATE UNIQUE INDEX CONCURRENTLY IF NOT EXISTS`
that has failed leaves an invalid index, which the next start takes for the index.

Abstractions. Packet contents, protobuf and handlers other than those named are
left out: a handler call either returns or closes the client. Log output
and metrics are left out. `IsClosed` takes the mutex for one read and is one step. A size
below 5 in a header is the failure branch of `ReadHeaderError`. In
`CommanderLedger` resource ids are taken after `DealiasResource`, and the call and the execution of
a statement outside a transaction are one step, with its answer or without. Operators whose
SQL statement fails change nothing and are not shown. In `Registration` a challenge
does not expire before it is stored (its five minutes begin a few statements before), ids
are secret until they are answered, and a verification with a wrong PIN is one that fails.
In `GuildMembers` consecutive `SELECT`s of one handler that decide the same question
(limits, wait times, names; those on the second connection) are one step; the price of
founding a guild, chat rows, `commander_guild_states` and the deletion of commanders are
left out, and impeachment, which changes no membership. So are the locks on rows of
`guild_join_requests`: `Put` waits for nobody, while in the database it may wait for an accept that
deletes the same application; it is a single statement and holds nothing that others wait for meanwhile. In `Migrator` a file is a model
value with a version and a number of statements; splitting it, the search path and the
values of the timeouts are left out, the timeouts themselves are `Fails`. In `Gateway` a
chunk is what one `Read` returns; the contents of the file are four: a good configuration
with and without private clients, an empty file (an editor is rewriting it), a broken one.

## 3. Runs

| Run | Instance | Shows |
|---|---|---|
| `packet_queue` | 5 buffers, queue of 2, pool of 1, ring of 1, 3 packets, one closer besides reader and dispatcher, a peer that may stop reading; 942,000 states | `NoLostWakeup`, `BuffersExclusive`, `ImplementsChannel`, and under fairness `AcceptedIsHandled`, `CloseTerminates` |
| `server_registry` | 2 connections whose hashes collide or not, 1 commander, 2 operators, peers that may not read; 664,000 states | `NoGhostClient`, `ConnectedIsRegistered`, `DisconnectAllReaches`, `OnlyLateAreServed`, `OneSessionUnlessPassedOver`, and under fairness `ClosedClientLeaves` |
| `server_registry_maintenance` | 2 connections, different hashes, 1 operator | *violated*: `NobodyServedInMaintenance` |
| `server_registry_double_login` | the same | *violated*: `OneSessionPerCommander` |
| `exchange_code` | 3 sessions, two of them of one commander, a quota of 1 or 2 or none; failing statements, commits and compensations, crashes; one edit of an operator; 996,000 states | `QuotaConserved`, `RewardedOnce`, `RedeemAccounted`, `LimitedStaysLimited`, and under fairness `RedeemSettles` |
| `ledger_shared` | 2 sessions of one commander, 2 resources (one without a row), amounts of 1, rows of at most 2, 1-bit copies, failed writes, lost answers, rollbacks; 902,000 states | `NeverNegative`, `CopyIsExact`, `ImplementsAccount` |
| `ledger_sync` | 1 session, no failures, 3-bit copies | *violated*: `SyncIsCurrent` |
| `registration` | 3 creation requests for 2 commanders, 2 PINs, 2 attempts, a verifier, a poller; failures, expiry, deletions; 1,890,000 states | `GrantedOnce`, `SupersededIsDead`, `OthersKeepTheirs` |
| `registration_consumed_at` | 2 creation requests for different commanders | *violated*: `ConsumedAtStays` |
| `migrator` | 2 servers of 3 releases, 4 files of 3 versions (one edited, one with an index), 3 starts; crashes, lost answers, a lost lock, orphans; 236,000 states | `AppliedOnce`, `RecordedIsWhole`, `StartsOnItsSchema`, `ImplementsHistory`, and under fairness `RunEnds` |
| `gateway` | 2 reloads, 2 edits, a watcher that may come late, fail or drop an event, 1 connection with a chunk each way; 872,000 states | `CurrentIsNotOlder`, `NothingIsForgotten`, `NeverGoesBack`, `EndIsWhole`, and under fairness `FileIsInstalled`, `BothEnd` |
| `guild_members` | 3 commanders with a session each, a guild and one that may be founded, 2 connections, 3 requests; failures, deadlocks; 369,000 states | `AtMostOneCommander`, `NeverHeadless`, `NobodyStranded`, `CountIsExact`, `NothingHangs`, `ImplementsRoster`, and under fairness `RequestEnds` |

Why the bounds suffice. *Queue*: two places and three packets are enough for the reader
to sleep on a full queue while the dispatcher holds a packet, for the dispatcher to sleep
on an empty one, for buffers to be pooled, reused and dropped, and for FIFO order
to be visible; five buffers are what queue (2), pool (1) and the two
workers' hands (2) can hold together, so an allocation never waits for the model. `MaxPackets` only ends
the peer's input, and the theorems hold without any of these bounds. *Registry*: one
connection is there or leaves while the other arrives or logs in, with their hashes equal
or not; two operators make the competition for the mutex. *Exchange code*: two
sessions of one commander race for the primary key while there is quota for both, and with a
third of another commander for the last use, where the code has one. `MaxMails` stops a commander from asking again after a reward; `MaxEdits` is one edit, as
one is enough to mislead a compensation.
*Ledger*: a row reaches the width of the copies, so that they wrap; `MaxStored` caps the
rows. Amounts of one are enough for `ledger_shared`: a stale amount written back is then a
step no account makes, where larger amounts would hide some of them. *Registration*: two requests of one commander race for
the unique index, a third of another collides with their PINs, and with two PINs and two
attempts a request can find every PIN taken and give up. The verifier and the poller serve any number of
requests, so a stale status request meets verifications before, during and after it. *Migrator*:
two servers compete, one after a crash of the other, and the third start finds what both
have left; the file with the index has a statement before it, so that a run can stop between
the two and inside the second. *Gateway*: two reloads are what it takes to overlap, two edits to
have an older and a newer file. *Guild*: three requests are a handover, the departure of the one to
whom it goes and a third that meets the result; two connections are enough for two transactions
to overlap and to starve each other.

Several properties hold only until something has happened that the code does not
prevent. A history variable names it, and TLC finds the violation when the exception is taken
out, in the run itself but for `doubled`. What is excused is not covered: the properties show that
nothing else has the same effect.

* `strayed` (ledger): since the last `Load` another session has changed the row, a write
  or a transaction of this one has failed after the copy was set, or a statement or commit of this
  one, before or after the `Load`, was executed although its answer was lost: the operation then returns an
  error and leaves the copy as it was.
* `stranded`, `misled`, `edits` (exchange code): the handler of a recorded redeem has died, or its commit was
  in doubt, or its compensation has failed; the commit of `SendMail` has failed after `SendMailTx` appended to the
  session's mails, or has succeeded and was reported as failed and so compensated although the mail is stored; an operator
  has changed quota or redeems by hand.
* `Alone` (registry; computed from the hashes): two addresses with the same character sum
  (`10.0.0.1:5012`, `10.0.0.1:5021`) share an entry of `Server.clients`, and the first
  client is not found any more, not by `DisconnectAll` either. The properties are about
  clients whose hash nobody shares, while others' hashes may collide.
* `late` (registry): where those were who had passed the tests and were not registered when the last
  `DisconnectAll` began. A server that is stopped or in maintenance serves nobody else.
* `passedOver` (registry): the last login of the commander has found several clients of his and has passed one over.
* `raced` (registration): the challenge was verified after another request had read it and before that request wrote it.
* `doubled` (guild): two sessions of one commander have been busy at once. Two handovers of the same commander then
  make two commanders. In the run each commander has one session, as the theorems need no such
  bound; TLC finds the violation when two of the three sessions belong to the first commander, with 4 requests,
  room for two deputies and handovers to either of the others.
* `met` (guild): an accept and a dissolve have overlapped (the new member is left in a
  dissolved guild), or a handover and the departure of its addressee (no commander is left).
* `miscounted` (guild): a transaction has been committed between the counting and the commit
  of another.
* `Starved` (guild): every connection of the pool is held by a transaction that waits for a
  second one. Nothing in the code ends this wait.
* `exposed` (migrations): the connection with the advisory lock was cut, or a process has died
  while the database was executing its command. Another server can then apply a migration again.
* `overlapped` (gateway): `time.AfterFunc` has started a reload while another was at work.
* `missed` (gateway): the last version was written before the directory was watched, after the watcher had
  failed, or without an event that reached the loop (fsnotify reports an overflow as an error, which is logged), and no
  event, timer or reload that would have read it anyway was due. It is not installed until the next edit.
* `WriteBlocks` (client), `HeldUp` (registry): the dispatcher, or the holder of `clientsMutex`, is in a write to a peer that
  does not read. There is no write deadline, so the packets accepted after that are not handled, and closed clients
  do not leave, until somebody closes that client.

Deadlock is checked in the runs of the registry, the exchange code and the ledger. In the
others the system may stop: a closed client whose goroutines have ended does nothing more, creation requests
come to an end, servers are not started for ever (`MaxStarts`), connections end, requests are used up
(`MaxOps`), and with `Starved` handlers really wait for ever.

The violated properties, with the lines they come from, are in `PROJECT.json`
under `findings`:

1. A connection between the maintenance test and `AddClient` is served in maintenance.
2. `DisconnectCommander` may find the client that is logging in first, and then kicks nobody. (With more than
   two clients it may also kick one that is closed already, and pass over the one that is not.)
3. A status request on an overdue challenge may erase the `consumed_at` that a verification has just
   set, and turn its status from consumed to expired; so may a creation request for the same commander
   that has read the challenge while it was pending. (The account stays, and `GrantedOnce` shows that
   the challenge cannot be used again.)
4. After a new resource has been appended, changes to older ones do not reach the
   slice that `SC_11004` and the player info are built from, until the next `Load`.

The runs show that each of the four happens, and theorems name the condition without which it does not:
`StopsAreKept`, `OneSession`, `OnlyRacesErase` and `LinkedIsCurrent` (section 5). The first two leave out, as
everywhere, clients whose hash another one shares.

## 4. Fairness

* `PacketQueue`: a goroutine that can run does run (Go's scheduler is preemptive), handlers
  return, and reading or writing a connection closed from this side fails (`WF` on `ConnClosed /\ PumpEnd` and on
  `~WriteBlocks /\ dispatchLoop`). Nothing is assumed of the peer, which may stop sending and stop reading: a
  `Flush` to one that does not read need not end before somebody closes the client, and nobody need do so.
  `AcceptedIsHandled` excuses that, `CloseTerminates` shows that the close ends it. The pump alone is not enough to
  end: blocked on a full ring it is not reading the connection, and no property
  says that it ends (hazard at `server.go:123`).
* `ServerRegistry`: a closed client's reader stops (`CloseTerminates` above), the holder of
  `clientsMutex` goes on unless it is held up in a write to a peer that does not read (`WF` on `~HeldUp /\ DisconnectOne`;
  nothing is assumed of peers), and a Go mutex, being starvation-free, is given to everyone who keeps asking
  (`SF` on the actions that need it). `ClosedClientLeaves` excuses the behaviours in which the mutex is held up for ever.
* `ExchangeCode`: a handler that has begun goes on as long as the process lives. Nothing
  makes players redeem, operators act or faults happen.
* `Migrator`: the database answers each statement, one way or the other (not all have timeouts, the two at
  `migrator.go:134-137` have none), and gives the advisory lock to those who wait for it in turn (`SF` on `AcquireLock`,
  whose queue in PostgreSQL is first in, first out). `Fails` has no fairness: `RunEnds` does not count on the
  timeout of the wait, and so shows that the lock is given back. Nothing starts, stops or restarts servers.
* `Gateway`: the timer fires and reloads run; a dial ends, as it has a timeout; a read or write on a
  connection closed from this side fails. Reading and writing themselves get no fairness:
  peers may stop sending, and stop reading, for ever.
* `GuildMembers`: a statement that need not wait is executed, and PostgreSQL detects deadlocks.
  Nothing makes requests arrive.
* `CommanderLedger`, `Registration`: safety only, without fairness: a handler or request may stop anywhere.

## 5. Theorems

All proofs are in `...Proofs` modules and need no bound: any sets of closers, connections,
operators, sessions, commanders, resources, requests, PINs, servers, files and guilds, any queue, pool and ring size, any
quota, integer width and number of edits. They use the named assumptions on constants of each
module only, which say what kind of value each constant has; two go further:
`MigratorAssumption` says that a release has one file per version and that indexes are built
concurrently only in files with the directive, `GuildAssumption` that each guild that exists at first has
exactly one commander.

Each `Invariance` is `Spec => []IndInv` of its module, where `IndInv` includes `TypeOK`. The runs leave it to the
proofs; `INVARIANT IndInv` in a `.cfg` checks it there as well, and every strengthening has been checked so
before it was proved. `GuildMembers` has three more: `OverlapInv`, about what handlers rely on while others commit,
`HoldsInv`, about what they hold while they wait, and `WrittenInv`, about what they have written; `CommanderLedger` has a second one, `LinkInv`.

| Theorem | Says | Argument |
|---|---|---|
| `TypeCorrect`, `NoWakeupIsLost`, `BuffersAreExclusive` (`PacketQueueProofs`) | `TypeOK`, `NoLostWakeup`, `BuffersExclusive` | `ControlInv` ties the hands to the program counters. `SleepInv`: who sleeps does so on a full (empty) queue that is not closed; as the queue is not full and empty at once, at most one goroutine sleeps, which is why one `Signal` on the shared condition variable always wakes the right one. `NumberInv` says which packets the queue and the hands hold |
| `ClosedHangsNowhere`, `ClosedComesToAnEnd` | `ClosedGoesOn`, `ClosedDescends`: what safety there is in `CloseTerminates` | `CloseInv`: a close that has begun has one goroutine inside `closeOnce`, which is closing. Nobody sleeps on a closed client (`SleepInv`), and every branch of the two loops leads on towards the end, at most six steps away: `StepsLeft` decreases with each step. The closing of the connection ends a write that a peer has blocked. A reader that waits for bytes leaves the ring empty, or waits for the rest of a packet: so the pump is not blocked on a full ring, and its reading fails. That `ReaderCan` and `DispatcherCan` are `ENABLED` of their steps was checked with TLC on the instance of `packet_queue`, as were the two properties |
| `QueueImplementsChannel` | `ImplementsChannel` | with `IndInv`, the step that handles is `Deliver`, `EnqueueAdd` is `Accept`, the close is `Shut`, all others stutter |
| `NoGhosts` (`ServerRegistryProofs`) | `NoGhostClient`, whatever the hashes | `SlotInv`: a client is only ever under its own hash; so its own `RemoveClient` removes it if it is there |
| `ConnectedCanBeFound`, `SweepReaches` | `ConnectedIsRegistered`, `DisconnectAllReaches`, for any hash function | `EarlyInv`: before `AddClient` nobody is closed, logged in or swept. `SweepInv`: while the mutex is held, by a sweep or a kick, nobody is added, so whoever is connected and shares its hash with nobody is still to come, and when the sweep is through nobody is left |
| `StopsAreKept` | `OnlyLateAreServed`, the condition of finding 1, for stops and maintenance | `StopInv`: once the flag is set nobody passes its test, so who was not `late` is before the test, registered and still to come in the sweep, or on the way out; a sweep in progress and one that has not begun are cases of their own |
| `OneSession` | `OneSessionUnlessPassedOver`, the condition of finding 2, for any number of clients and any order of the map | a login counts as such when its kick is done. The kick sees all clients of the commander that are connected, as those are registered (`ConnectedIsRegistered`); it closes the one it takes, unless it is the caller, and any other is passed over; until it has, it keeps the mutex, and the one to be closed is the only other session left (`KickInv`). Every other step leaves sessions as they are or ends them (`LoginStep`) |
| `LimitStays` (`ExchangeCodeProofs`) | `LimitedStaysLimited`, with operators and all faults | only the guarded decrement lowers the quota |
| `QuotaIsConserved`, `RedeemsAreAccounted` | `QuotaConserved`, `RedeemAccounted` | `UnsettledInv`: a redeem between its transactions is on record and has one owner, so a compensation takes back what is there; `SnapshotInv`: limited or not, the handler read it right. Both hold until an operator edits the code, and the invariant is therefore an implication from `~Edited` |
| `NobodyRewardedTwice` | `RewardedOnce` | an unsettled redeem is not yet rewarded, until the commit of `SendMail` has misled somebody |
| `TypeCorrect`, `NothingOverspent` (`CommanderLedgerProofs`) | `TypeOK`, `NeverNegative`, any faults, stale copies, wrap-around | `LockInv`: a row has a pending change only while a session holds its lock, and the holder is the only one who adds to it; so the `UPDATE`'s condition and its effect see the same amount |
| `CopiesAreExact` | `CopyIsExact`, for any width of the copies and with lost answers (which stray the copy, also one that is loaded before the database gets to the statement) | needs `RowInv` and `UnknownInv` besides: what is not in the map is zero for its session, so that an entry that is created by the first `AddResource` begins with the right amount; additions and subtractions commute with the wrap-around |
| `LedgerImplementsAccount` | `ImplementsAccount`: the refinement of `ResourceAccount`, for sessions with any copies | a row's pending change is the draft of the session that holds its lock and of nobody else (`LockInv`), so a commit posts exactly that session's drafts and a rollback cancels them; the copies appear in no guard of the account |
| `LinkedIsCurrent` | `SyncIsCurrent` unless an append has left a pointer behind, the condition of finding 4 | `LinkInv`: through a pointer into the slice both are written |
| `OneAccountPerChallenge` (`RegistrationProofs`) | `GrantedOnce`, although accounts are deleted and statuses overwritten | `GrantedInv`: a challenge that was granted is not pending, and nothing but an `INSERT` of a new row makes one pending, so the stale writes do no harm here |
| `OnlyRacesErase` | `consumed_at` of a verified challenge stays unless it was `raced`, the condition of finding 3 | `RacedInv`: who has read a challenge that was verified before, and will write it, has read its `consumed_at`; who reads it as pending has read it before (`GrantedInv`) |
| `SupersededOpensNothing` | `SupersededIsDead` | `PendingUnique` (the unique indexes) and the same argument |
| `NobodyElseTakesIt` | `OthersKeepTheirs` | `OwnershipInv`: what a request is about to mark expired is its own challenge, one of its commander, or overdue |
| `AppliedOnlyOnce`, `ServesItsSchema` (`MigratorProofs`) | `AppliedOnce`, `StartsOnItsSchema` | `HolderInv`: until exposed, who has loaded the records has the lock; so what it has before it is not on record (`Ahead`) and what it has behind it is (`Behind`) |
| `NothingLeftOut` | `RecordedIsWhole`, with or without the lock | `PlaceOK`, `OrphanInv`: whoever has come to a position, alive or orphaned, has the effect of all statements before it, and effects do not go away |
| `HistoryIsKept` | `ImplementsHistory`, with or without the lock | `ON CONFLICT DO NOTHING` never reassigns, and `Behind` gives the guard of `Add` |
| `CurrentLeads`, `OnlyOverlapGoesBack` (`GatewayProofs`) | `CurrentIsNotOlder`, `NeverGoesBack` | `ReloadInv`: until reloads overlap there is one; it has read nothing older than `config.current` holds, and updates to just that |
| `NoEditIsLost` | `NothingIsForgotten`, what safety there is in `FileIsInstalled` | the property is inductive with `ReloadInv`: an edit that raises no event is `missed` unless something that has not read is `Due`; an event becomes a timer, a timer a reload that has not read, and that one reads the last version; an update of an older version is not the only thing under way, because reloads that do not overlap install versions in order |
| `EndsWhole` | `EndIsWhole` | `CopyInv`: between two reads everything taken has been written to the other socket |
| `OneCommander` (`GuildMembersProofs`) | `AtMostOneCommander` | `LeadersOK`: a handler that has read that its commander leads a guild is the only one who has, and nobody else leads it until the commit; it demotes its own commander in the transaction that promotes the other. `WritesOK`: who is about to become commander is the founder of a new guild or the addressee of such a handover. `FreshOK`: nobody but its founder writes rows of a guild that is being founded. The duties are read and not locked, and it is the single dispatcher of a session that keeps a second handover of the same commander away: hence `~doubled` |
| `GuildsAreLed`, `NoneStranded`, `CountsAreExact` | `NeverHeadless`, `NobodyStranded`, `CountIsExact` | `OverlapInvariance`, given `IndInv`. `Locked`, `LocksApart`: a row that a transaction has written is as it was found until the commit, and nobody else's; so a commit changes one guild in one of three ways (adds, removes or changes duties). `MetOK`: two operations that could harm each other are in `met` as soon as both have read the guild. So who is to receive the guild is still there (`Received`), who leaves does not lead (`Leaves`), who is still a member of a guild being dissolved has his turn (`Emptied`), or else `met` tells. `CountFits`: a count that nobody has outrun is that of the members there will be |
| `NothingHangsForever` | `NothingHangs`, what safety there is in `RequestEnds` | `HoldsInvariance`: a handler holds no row before its first write, and the pool never lends more than it has. The property is about any set of handlers that cannot step and wait for nobody outside the set. A smallest one of them that is not empty has only handlers that wait for each other's rows, which is a circle, and `DeadlockDetected` ends one of its members. The two things left to wait for are a first connection, which somebody in a transaction gives back, and a second one: `Starved`. The theorem is about `CanStep(t)`, a state predicate, as `ENABLED` is out of the prover's reach; that it is `ENABLED Step(t)` was checked with TLC on the instance of `guild_members` |
| `MembersImplementRoster` | `ImplementsRoster`: the refinement of `GuildRoster` | `WrittenInvariance`: who has written a row has written what its operation says, to the member it has read. With `Locked` that row is as it was read, so the commit is one legal step of the roster; that the one who changes a duty may still do so at the commit follows from `LeadersOK` and `NeverHeadless`. The overlaps that make a commit illegal are those in `met` or `doubled`: `Cross` |

Only model checked, as properties of the runs: the liveness properties (`AcceptedIsHandled`, `CloseTerminates`,
`ClosedClientLeaves`, `RedeemSettles`, `RunEnds`, `FileIsInstalled`, `BothEnd`, `RequestEnds`), which are out
of the prover's reach. For three of them the safety part of the argument is proved, for all constants (`ClosedHangsNowhere` and
`ClosedComesToAnEnd`, `NoEditIsLost`, `NothingHangsForever`): that somebody can always go on. For `CloseTerminates` only the
conclusion from fairness is left, for the other two also that each step comes nearer to the end.
Proved, and checked with TLC on the same instances although no run lists them: `ClosedGoesOn`, `ClosedDescends`, what
`OnlyRacesErase` and `LinkedIsCurrent` say, and the inductive invariants.

## 6. Not modelled, and the plan

Done: 1 `PacketQueue` with `PacketChannel`, 2 `ServerRegistry`, 3 `ExchangeCode`, 4 `CommanderLedger`
with `ResourceAccount`, 5 `Registration`, 6 `Migrator` with `SchemaHistory`, 7 `Gateway`, 8 `GuildMembers` with `GuildRoster`.

Next, in this order:

9. `OutBuffer`: `SendProtoMessage`, `Flush`, pushes by other goroutines (chat, guild, mailbox, kick)
   into the unsynchronised `Buffer`; the promise is that each message buffered is written once.
10. `ChatRooms`: `JoinRoom`, `LeaveRoom`, `ChangeRoom` and clients that leave without leaving
    their room, on top of `ServerRegistry`.
11. `MailCollection` and `Builds` over `CommanderLedger`: attachments collected once; builds
    paid for, with ignored errors.
12. `ResetClock` and the shops: one refresh per reset, purchases racing a refresh.
13. The rate limiter and the sessions of the REST API.

To prove with them: that `OutBuffer` implements a sequence of messages, each written once, as far as it does; an abstract
specification of each client's session (connected, logged in, gone) refined by `ServerRegistry`; that the
attachments collected and the builds paid for are steps of `ResourceAccount`.

Not planned. Most of the source is not protocol: generated code (`internal/protobuf`, `internal/db/gen`,
`docs/docs.go`), the several hundred handlers and queries of `answer`, `orm` and `api` that read
or write single rows in one statement each, so that nothing interleaves inside
them, game data and its import, cryptography, start-up, configuration values and development tools. The models cover
what several goroutines, transactions or servers do to the same state, which is a small part of the lines.
Mode `serve` of the gateway is the connection server of `ServerRegistry` with fewer handlers.
