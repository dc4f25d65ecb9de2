---------------------------- MODULE Registration ----------------------------
(***************************************************************************)
(* Registering a web account for a commander: internal/orm/                *)
(* user_registration.go and its REST handlers, internal/api/handlers/      *)
(* registration.go.  A creation request stores a challenge, with a hashed  *)
(* password, and mails its PIN into the game; a verification request that  *)
(* brings the PIN turns the challenge into an account; a status request    *)
(* marks a challenge expired when it finds it so.                          *)
(*                                                                         *)
(* Only a verification is a transaction, with the challenge's row locked:  *)
(* it is one action.  The others are sequences of single statements with   *)
(* anything in between, and what they write they have often read before.   *)
(* Each request reads the clock once, at its start; `overdue' says which   *)
(* challenges have expired by now, `asof' what a request thinks of it.     *)
(*                                                                         *)
(* A challenge is named by the creation request that stores it.  A request *)
(* may stop anywhere: the process may die, and a statement may fail.       *)
(***************************************************************************)
EXTENDS Integers, FiniteSets

CONSTANTS
  Commanders,
  Creators,     \* creation requests, and the challenges they store
  Verifiers,    \* goroutines that verify challenges, one after the other
  Pollers,      \* goroutines that answer status requests
  Of,           \* the commander of each challenge
  Pins,
  NoPin,
  NoChallenge,
  PinAttempts   \* registrationPinAttempts

Tasks == Creators \cup Verifiers \cup Pollers

ASSUME RegistrationAssumption ==
  /\ Of \in [Creators -> Commanders]
  /\ NoChallenge \notin Creators
  /\ Creators \cap Verifiers = {} /\ Creators \cap Pollers = {}
  /\ Verifiers \cap Pollers = {}
  /\ NoPin \notin Pins
  /\ PinAttempts \in Nat \ {0}

VARIABLES
  status,      \* user_registration_challenges.status; "none": no such row
  pin,         \* the PIN that each creation request has generated last
  consumedAt,  \* consumed_at is not NULL
  account,     \* the challenge that each commander's account was made from
  overdue,     \* the challenges whose expires_at has passed
  asof,        \* the challenges that were overdue when a request read the clock
  target,      \* the challenge a request is about to change
  read,        \* its consumed_at, as the request has read it
  tries,       \* PINs that each creation request has tried
  pc,          \* where each request is
  superseded,  \* the challenges with a newer one of the same commander (history)
  granted,     \* how many accounts were made from each challenge (history)
  raced        \* challenges consumed after a request had read them, to write later (history)

rowVars == <<status, pin, consumedAt, account>>
localVars == <<asof, target, read, tries>>
historyVars == <<superseded, granted, raced>>
vars == <<rowVars, localVars, historyVars, overdue, pc>>

Statuses == {"none", "pending", "consumed", "expired"}
PCs == {"idle", "count", "latest", "expire", "pin", "insert", "mail", "answered", "failed",
        "consume", "seen", "reload", "write"}

Pending(c) == {r \in Creators : status[r] = "pending" /\ Of[r] = c}

Init ==
  /\ status = [r \in Creators |-> "none"]
  /\ pin = [r \in Creators |-> NoPin]
  /\ consumedAt = [r \in Creators |-> FALSE]
  /\ account = [c \in Commanders |-> NoChallenge]
  /\ overdue = {}
  /\ asof = [t \in Tasks |-> {}]
  /\ target = [t \in Tasks |-> NoChallenge]
  /\ read = [t \in Tasks |-> FALSE]
  /\ tries = [r \in Creators |-> 0]
  /\ pc = [t \in Tasks |-> "idle"]
  /\ superseded = {}
  /\ granted = [r \in Creators |-> 0]
  /\ raced = {}

Goto(t, from, to) == pc[t] = from /\ pc' = [pc EXCEPT ![t] = to]

\* The local variables of a request that has no more use for them.
Forget(t) ==
  /\ asof' = [asof EXCEPT ![t] = {}]
  /\ target' = [target EXCEPT ![t] = NoChallenge]
  /\ read' = [read EXCEPT ![t] = FALSE]

\* The five minutes of registrationPinTTL are over.  (No creation request takes
\* that long to store its challenge.)
Expire(r) ==
  /\ status[r] # "none"
  /\ overdue' = overdue \cup {r}
  /\ UNCHANGED <<rowVars, localVars, historyVars, pc>>

-----------------------------------------------------------------------------
(* CreateChallenge and CreateUserRegistrationChallenge.                    *)

GeneratePin(r) == \E p \in Pins : pin' = [pin EXCEPT ![r] = p]

\* now := time.Now(), and the first PIN.  Requests that are refused before,
\* by validation or the rate limiter, leave nothing.
CreateBegin(r) ==
  /\ Goto(r, "idle", "count")
  /\ asof' = [asof EXCEPT ![r] = overdue]
  /\ GeneratePin(r)
  /\ UNCHANGED <<status, consumedAt, account, target, read, tries, historyVars, overdue>>

\* A request that ends without a challenge leaves nothing, and may be repeated.
GiveUp(r, from) ==
  /\ Goto(r, from, "idle")
  /\ pin' = [pin EXCEPT ![r] = NoPin]
  /\ tries' = [tries EXCEPT ![r] = 0]
  /\ Forget(r)

\* A statement fails, or CountAccountsByCommanderID finds an account.
CreateFails(r) ==
  /\ \E from \in {"count", "latest", "pin", "insert"} : GiveUp(r, from)
  /\ UNCHANGED <<status, consumedAt, account, historyVars, overdue>>

CountAccounts(r) ==
  /\ account[Of[r]] = NoChallenge
  /\ Goto(r, "count", "latest")
  /\ UNCHANGED <<rowVars, localVars, historyVars, overdue>>

\* GetLatestPendingRegistrationChallengeByCommander.
ReadLatest(r) ==
  /\ \/ /\ Pending(Of[r]) = {}
        /\ Goto(r, "latest", "pin")
        /\ UNCHANGED <<target, read>>
     \/ /\ \E x \in Pending(Of[r]) :
             /\ target' = [target EXCEPT ![r] = x]
             /\ read' = [read EXCEPT ![r] = consumedAt[x]]
        /\ Goto(r, "latest", "expire")
  /\ UNCHANGED <<rowVars, asof, tries, historyVars, overdue>>

\* UpdateRegistrationChallengeStatus: by the id alone, with the consumed_at
\* that was read.  Its error is ignored.
MarkExpired(t) ==
  /\ status' = [status EXCEPT ![target[t]] = "expired"]
  /\ consumedAt' = [consumedAt EXCEPT ![target[t]] = read[t]]

ExpireLatest(r) ==
  /\ Goto(r, "expire", "pin")
  /\ \/ MarkExpired(r) \/ UNCHANGED <<status, consumedAt>>
  /\ target' = [target EXCEPT ![r] = NoChallenge]
  /\ read' = [read EXCEPT ![r] = FALSE]
  /\ UNCHANGED <<pin, account, asof, tries, historyVars, overdue>>

\* GetPendingRegistrationChallengeByPin: a challenge that is overdue does not
\* count.  If there is one, everything begins again with another PIN.
PinTaken(r) == \E x \in Creators : status[x] = "pending" /\ pin[x] = pin[r] /\ x \notin asof[r]

CheckPin(r) ==
  /\ \/ /\ ~PinTaken(r)
        /\ Goto(r, "pin", "insert")
        /\ UNCHANGED <<pin, tries, asof, target, read>>
     \/ /\ PinTaken(r)
        /\ \/ /\ tries[r] + 1 < PinAttempts
              /\ tries' = [tries EXCEPT ![r] = @ + 1]
              /\ Goto(r, "pin", "count")
              /\ GeneratePin(r)
              /\ UNCHANGED <<asof, target, read>>
           \/ /\ tries[r] + 1 = PinAttempts
              /\ GiveUp(r, "pin")
  /\ UNCHANGED <<status, consumedAt, account, historyVars, overdue>>

\* The pending challenges that the unique indexes of migration 0022 do not let
\* r stand beside.
Rivals(r) ==
  {x \in Creators : status[x] = "pending" /\ (Of[x] = Of[r] \/ pin[x] = pin[r])}

\* The row of r is stored, the rows xs are marked expired with it, and their
\* consumed_at is set to expires_at.
StoreChallenge(r, xs) ==
  /\ status' = [x \in Creators |-> IF x = r THEN "pending"
                                   ELSE IF x \in xs THEN "expired" ELSE status[x]]
  /\ consumedAt' = [x \in Creators |-> consumedAt[x] \/ x \in xs]
  /\ superseded' = superseded \cup {x \in Creators : status[x] # "none" /\ Of[x] = Of[r]}
  /\ tries' = [tries EXCEPT ![r] = 0]
  /\ Forget(r)
  /\ UNCHANGED <<pin, account, granted, raced, overdue>>

\* Mutants: without the unique index on commander_id; without the expiry in the
\* UPDATE by PIN.
InsertUnindexed(r) ==
  /\ \A x \in Rivals(r) : Of[x] # Of[r] => x \in asof[r]
  /\ Goto(r, "insert", "mail")
  /\ StoreChallenge(r, Rivals(r) \cap asof[r])

InsertTakesPin(r) ==
  /\ \A x \in Rivals(r) : Of[x] = Of[r] => x \in asof[r]
  /\ Goto(r, "insert", "mail")
  /\ StoreChallenge(r, Rivals(r))

\* CreateRegistrationChallenge: one statement that expires the overdue ones of
\* the rivals and inserts the row.  PostgreSQL does not say in which order: if the
\* row comes first, the statement fails on them (CreateFails).
InsertChallenge(r) ==
  /\ Rivals(r) \subseteq asof[r]
  /\ Goto(r, "insert", "mail")
  /\ StoreChallenge(r, Rivals(r))

\* SendMail, and the answer with the challenge's id.
SendMail(r) ==
  /\ Goto(r, "mail", "answered")
  /\ UNCHANGED <<rowVars, localVars, historyVars, overdue>>

SendMailFails(r) ==
  /\ Goto(r, "mail", "reload")
  /\ target' = [target EXCEPT ![r] = r]
  /\ UNCHANGED <<rowVars, asof, read, tries, historyVars, overdue>>

CreateChallenge(r) ==
  \/ CreateBegin(r) \/ CreateFails(r)
  \/ CountAccounts(r) \/ ReadLatest(r) \/ ExpireLatest(r) \/ CheckPin(r) \/ InsertChallenge(r)
  \/ SendMail(r) \/ SendMailFails(r)

-----------------------------------------------------------------------------
(* UpdateUserRegistrationChallengeStatus(id, expired), called after a failed *)
(* mail and by a status request: a SELECT and an UPDATE.                    *)

Reload(t) ==
  /\ Goto(t, "reload", "write")
  /\ read' = [read EXCEPT ![t] = consumedAt[target[t]]]
  /\ UNCHANGED <<rowVars, asof, target, tries, historyVars, overdue>>

\* Errors of either statement are ignored.
Write(t) ==
  /\ pc[t] \in {"reload", "write"}
  /\ pc' = [pc EXCEPT ![t] = IF t \in Creators THEN "failed" ELSE "idle"]
  /\ \/ pc[t] = "write" /\ MarkExpired(t)
     \/ UNCHANGED <<status, consumedAt>>
  /\ Forget(t)
  /\ UNCHANGED <<pin, account, tries, historyVars, overdue>>

UpdateUserRegistrationChallengeStatus(t) == Reload(t) \/ Write(t)

-----------------------------------------------------------------------------
(* GetChallengeStatus.  Only ids that were answered are known.             *)

ReadStatus(t, r) ==
  /\ pc[r] = "answered"
  /\ status[r] = "pending"
  /\ Goto(t, "idle", "seen")
  /\ target' = [target EXCEPT ![t] = r]
  /\ UNCHANGED <<rowVars, asof, read, tries, historyVars, overdue>>

CompareClock(t) ==
  /\ \/ target[t] \in overdue /\ Goto(t, "seen", "reload") /\ UNCHANGED <<asof, target, read>>
     \/ target[t] \notin overdue /\ Goto(t, "seen", "idle") /\ Forget(t)
  /\ UNCHANGED <<rowVars, tries, historyVars, overdue>>

GetChallengeStatus(t) == (\E r \in Creators : ReadStatus(t, r)) \/ CompareClock(t)

-----------------------------------------------------------------------------
(* VerifyChallenge.                                                        *)

VerifyBegin(v, r) ==
  /\ pc[r] = "answered"
  /\ Goto(v, "idle", "consume")
  /\ target' = [target EXCEPT ![v] = r]
  /\ asof' = [asof EXCEPT ![v] = overdue \cap {r}]
  /\ UNCHANGED <<rowVars, read, tries, historyVars, overdue>>

\* Somebody has read r and will write its status and consumed_at.
AboutToWrite(t, r) == target[t] = r /\ pc[t] \in {"expire", "write"}

Grant(r) ==
  /\ account' = [account EXCEPT ![Of[r]] = r]
  /\ granted' = [granted EXCEPT ![r] = @ + 1]
  /\ raced' = IF \E t \in Tasks : AboutToWrite(t, r) THEN raced \cup {r} ELSE raced

\* Mutant: the challenge is not marked consumed.
ConsumeAndKeep(v) ==
  LET r == target[v] IN
  /\ Goto(v, "consume", "idle")
  /\ status[r] = "pending" /\ r \notin asof[v]
  /\ account[Of[r]] = NoChallenge
  /\ Grant(r)
  /\ Forget(v)
  /\ UNCHANGED <<status, pin, consumedAt, tries, superseded, overdue>>

\* ConsumeUserRegistrationChallengeByID, with the right PIN, and its commit.
Consume(v) ==
  LET r == target[v] IN
  /\ Goto(v, "consume", "idle")
  /\ status[r] = "pending" /\ r \notin asof[v]
  /\ account[Of[r]] = NoChallenge
  /\ Grant(r)
  /\ status' = [status EXCEPT ![r] = "consumed"]
  /\ consumedAt' = [consumedAt EXCEPT ![r] = TRUE]
  /\ Forget(v)
  /\ UNCHANGED <<pin, tries, superseded, overdue>>

\* Any error, a wrong PIN included, rolls the transaction back, and with it the
\* status that the same transaction may have written to a challenge it found
\* overdue.
ConsumeFails(v) ==
  /\ Goto(v, "consume", "idle")
  /\ Forget(v)
  /\ UNCHANGED <<rowVars, tries, historyVars, overdue>>

VerifyChallenge(v) ==
  \/ \E r \in Creators : VerifyBegin(v, r)
  \/ Consume(v) \/ ConsumeFails(v)

-----------------------------------------------------------------------------
\* An administrator deletes the account.
DeleteAccount(c) ==
  /\ account[c] # NoChallenge
  /\ account' = [account EXCEPT ![c] = NoChallenge]
  /\ UNCHANGED <<status, pin, consumedAt, localVars, historyVars, overdue, pc>>

Next ==
  \/ \E r \in Creators : Expire(r) \/ CreateChallenge(r)
  \/ \E t \in Creators \cup Pollers : UpdateUserRegistrationChallengeStatus(t)
  \/ \E t \in Pollers : GetChallengeStatus(t)
  \/ \E v \in Verifiers : VerifyChallenge(v)
  \/ \E c \in Commanders : DeleteAccount(c)

Spec == Init /\ [][Next]_vars

-----------------------------------------------------------------------------
(* Properties.                                                             *)

\* Every variable has its type.
TypeOK ==
  /\ status \in [Creators -> Statuses]
  /\ pin \in [Creators -> Pins \cup {NoPin}]
  /\ consumedAt \in [Creators -> BOOLEAN]
  /\ account \in [Commanders -> Creators \cup {NoChallenge}]
  /\ overdue \subseteq Creators
  /\ asof \in [Tasks -> SUBSET Creators]
  /\ target \in [Tasks -> Creators \cup {NoChallenge}]
  /\ read \in [Tasks -> BOOLEAN]
  /\ tries \in [Creators -> 0..PinAttempts]
  /\ pc \in [Tasks -> PCs]
  /\ superseded \subseteq Creators
  /\ granted \in [Creators -> Nat]
  /\ raced \subseteq Creators

\* A challenge opens one account at most, however many verifications, stale
\* status writes and deletions of the account come between.
GrantedOnce == \A r \in Creators : granted[r] <= 1

\* Once a commander has a newer challenge, no older one can be verified any
\* more, so that the account never gets the password of a request that has been
\* superseded; whatever becomes of the newer one, and although the requests
\* that store them run side by side.
SupersededIsDead == \A r \in superseded : status[r] # "pending"

\* A challenge that has not expired is taken away from its commander only by a
\* verification or by another request for the same commander: not by requests
\* of others that happen to generate its PIN, nor by status requests.
OthersKeepTheirs ==
  [][\A r \in Creators :
       status[r] = "pending" /\ status'[r] # "pending" /\ r \notin overdue =>
         \/ granted'[r] > granted[r]
         \/ \E x \in Creators :
              Of[x] = Of[r] /\ pc[x] \in {"expire", "write"} /\ pc'[x] # pc[x]]_vars

\* consumed_at of a challenge that was verified stays, also when the status
\* is set to expired.
ConsumedAtStays == \A r \in Creators : granted[r] > 0 => consumedAt[r]

-----------------------------------------------------------------------------
(* The inductive invariant behind the theorems of RegistrationProofs.       *)

\* A request has a row from its INSERT on.
StoredInv ==
  /\ \A r \in superseded : status[r] # "none"
  /\ \A r \in Creators :
       pc[r] \in {"idle", "count", "latest", "expire", "pin", "insert"} => status[r] = "none"
  /\ \A r \in Creators : pc[r] \in {"mail", "answered"} => status[r] # "none"

\* Whoever is about to write a status has a challenge to write it to.
TargetInv ==
  \A t \in Tasks :
    /\ target[t] # NoChallenge => status[target[t]] # "none"
    /\ pc[t] \in {"expire", "reload", "write", "seen", "consume"} => target[t] # NoChallenge

\* Who may be about to write to what: a creation request to its own challenge or
\* to one of the same commander, a status request to one that is overdue.  A
\* request that thinks a challenge overdue is right.
OwnershipInv ==
  /\ \A t \in Tasks : asof[t] \subseteq overdue
  /\ \A r \in Creators : pc[r] = "expire" => Of[target[r]] = Of[r]
  /\ \A r \in Creators : pc[r] \in {"reload", "write"} => target[r] = r
  /\ \A t \in Pollers : pc[t] \in {"reload", "write"} => target[t] \in overdue

\* A challenge that has made an account has made one, and is not pending.
GrantedInv ==
  \A r \in Creators :
    granted[r] = 0 \/ (granted[r] = 1 /\ status[r] \in {"consumed", "expired"})

\* What has been verified has its consumed_at, and so does whoever is about to write
\* it, unless somebody had read the challenge when it was verified.
RacedInv ==
  \A r \in Creators : granted[r] > 0 /\ r \notin raced =>
    /\ consumedAt[r]
    /\ \A t \in Tasks : AboutToWrite(t, r) => read[t]

\* The unique indexes: by commander and by PIN.
PendingUnique ==
  \A r, x \in Creators :
    /\ status[r] = "pending" /\ status[x] = "pending"
    /\ (Of[r] = Of[x] \/ pin[r] = pin[x])
    => r = x

\* The inductive invariant: nothing becomes pending but a new row, so that what
\* has been granted, superseded or expired stays so.
IndInv ==
  /\ TypeOK
  /\ StoredInv
  /\ TargetInv
  /\ OwnershipInv
  /\ GrantedInv
  /\ RacedInv
  /\ SupersededIsDead
  /\ PendingUnique
=============================================================================
