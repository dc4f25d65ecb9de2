---------------------------- MODULE GuildMembers ----------------------------
(***************************************************************************)
(* Who belongs to which guild, with which duty (internal/orm/guild_core.go,*)
(* guild_office.go, guild_request.go): founding and dissolving guilds,     *)
(* applying and accepting, handing over, firing, quitting.                 *)
(*                                                                         *)
(* Most operations are a transaction of several statements on a connection *)
(* from the pool; two of them take a second connection while they hold     *)
(* the first.  PostgreSQL runs them READ COMMITTED: a SELECT sees what is  *)
(* committed, and is not repeated when a later statement relies on it; an  *)
(* UPDATE or DELETE waits for whoever has written its row, and then goes   *)
(* by the row that is committed.                                           *)
(***************************************************************************)
EXTENDS Naturals, FiniteSets

CONSTANTS
  Commanders, Guilds,
  Founded,       \* the guilds that exist at first
  FirstMembers,  \* what guild_members may hold at first
  NoGuild,
  Same,          \* what a transaction has for a row that it has not written
  Tasks,         \* the sessions, each with its dispatcher
  Of,            \* their commanders
  Requests,      \* the packets that are received
  MemberLimit, DeputyLimit,   \* guild_data_level
  ApplyLimit,    \* guildApplyOutstandingLimit
  Connections,   \* the size of the connection pool
  MaxOps         \* bound: how many requests are handled

dutyRank == [Commander |-> 0, Deputy |-> 1, Ordinary |-> 2, Recruit |-> 3]
Duties == DOMAIN dutyRank
Kinds == {"SetDuty", "Fire", "Quit", "Dissolve", "Accept", "Create", "Apply", "Reject"}
Rows == [guild : Guilds, duty : Duties]
NoRequest == [kind |-> "none"]

ASSUME GuildAssumption ==
  /\ IsFiniteSet(Commanders) /\ IsFiniteSet(Tasks)
  /\ Founded \subseteq Guilds
  /\ FirstMembers \subseteq [Commanders -> Rows \cup {NoGuild}]
  /\ \A m \in FirstMembers :
       /\ \A c \in Commanders : m[c] # NoGuild => m[c].guild \in Founded
       /\ \A g \in Founded : \E c \in Commanders : \A d \in Commanders :
            m[d] = [guild |-> g, duty |-> "Commander"] <=> d = c
  /\ NoGuild \notin Guilds \cup Rows
  /\ Same \notin Guilds \cup Rows \cup {NoGuild}
  /\ Of \in [Tasks -> Commanders]
  /\ Requests \subseteq [kind : Kinds, who : Commanders, duty : Duties, guild : Guilds]
  /\ MemberLimit \in Nat /\ DeputyLimit \in Nat /\ ApplyLimit \in Nat
  /\ Connections \in Nat \ {0} /\ MaxOps \in Nat

VARIABLES
  status, count,      \* guilds: deleted_at, member_count
  member,             \* guild_members, where commander_id is unique
  info,               \* guild_user_infos.guild_id
  cooling,            \* commanders whose guild_wait_time is in the future
  requests,           \* guild_join_requests
  pc, op,             \* where each handler is, and with which request
  actor, target,      \* the memberships that it has read
  left,               \* the rows that its statement has still to visit
  counted,            \* the members in its snapshot
  memberW, infoW,     \* the rows it has written and not committed
  ops,                \* how many requests there have been
  doubled,            \* two sessions of one commander have been busy at once (history)
  met,                \* what has overlapped in each guild (history)
  outrun,             \* handlers that have counted before another's commit (history)
  miscounted          \* guilds with a member_count from one of them (history)

dbVars == <<status, count, member, info, cooling, requests>>
historyVars == <<ops, doubled, met, outrun, miscounted>>
workVars == <<op, actor, target, left, counted, memberW, infoW>>
vars == <<dbVars, pc, workVars, historyVars>>

Unwritten == [c \in Commanders |-> Same]
Members(g) == {c \in Commanders : member[c] # NoGuild /\ member[c].guild = g}

Init ==
  /\ status = [g \in Guilds |-> IF g \in Founded THEN "active" ELSE "none"]
  /\ member \in FirstMembers
  /\ count = [g \in Guilds |-> Cardinality(Members(g))]
  /\ info = [c \in Commanders |-> IF member[c] = NoGuild THEN NoGuild ELSE member[c].guild]
  /\ cooling = {}
  /\ requests \in SUBSET {r \in Founded \X Commanders : member[r[2]] = NoGuild}
  /\ pc = [t \in Tasks |-> "idle"]
  /\ op = [t \in Tasks |-> NoRequest]
  /\ actor = [t \in Tasks |-> NoGuild] /\ target = actor
  /\ left = [t \in Tasks |-> {}]
  /\ counted = [t \in Tasks |-> 0]
  /\ memberW = [t \in Tasks |-> Unwritten] /\ infoW = memberW
  /\ ops = 0
  /\ doubled = FALSE
  /\ met = [g \in Guilds |-> {}]
  /\ outrun = {} /\ miscounted = {}

-----------------------------------------------------------------------------
(* Connections, rows and the ends of transactions.                         *)

InTx == {t \in Tasks : pc[t] \notin {"idle", "connect", "ask", "put"}}
FreeConnection == Cardinality(InTx) < Connections

\* SELECT ... FROM guild_members JOIN guilds ... WHERE deleted_at IS NULL
Membership(c) ==
  IF member[c] # NoGuild /\ status[member[c].guild] = "active" THEN member[c] ELSE NoGuild

MemberLocked(t, c) == \E u \in Tasks \ {t} : memberW[u][c] # Same
InfoLocked(t, c) == \E u \in Tasks \ {t} : infoW[u][c] # Same
Guild(t) == IF op[t].kind = "Create" THEN op[t].guild ELSE actor[t].guild

\* u has updated the row of guild g.
HasGuild(u, g) == pc[u] = "commit" /\ op[u].kind \notin {"SetDuty", "Create"} /\ Guild(u) = g

\* Mutant: a row that has gone is inserted again.
UpsertMember(t, c, row) == ~MemberLocked(t, c) /\ memberW' = [memberW EXCEPT ![t][c] = row]

\* UPDATE or DELETE, by primary key, of c's membership in t's guild.
WriteMember(t, c, row) ==
  IF c \in Members(Guild(t))
  THEN ~MemberLocked(t, c) /\ memberW' = [memberW EXCEPT ![t][c] = row]
  ELSE UNCHANGED memberW

\* Mutant: a handler that returns without having ended its transaction.
EndsHoldingRows(t) ==
  /\ pc' = [pc EXCEPT ![t] = "idle"]
  /\ op' = [op EXCEPT ![t] = NoRequest]
  /\ actor' = [actor EXCEPT ![t] = NoGuild]
  /\ target' = [target EXCEPT ![t] = NoGuild]
  /\ left' = [left EXCEPT ![t] = {}]
  /\ counted' = [counted EXCEPT ![t] = 0]
  /\ UNCHANGED <<memberW, infoW>>

Ends(t) ==
  /\ pc' = [pc EXCEPT ![t] = "idle"]
  /\ op' = [op EXCEPT ![t] = NoRequest]
  /\ actor' = [actor EXCEPT ![t] = NoGuild]
  /\ target' = [target EXCEPT ![t] = NoGuild]
  /\ left' = [left EXCEPT ![t] = {}]
  /\ counted' = [counted EXCEPT ![t] = 0]
  /\ memberW' = [memberW EXCEPT ![t] = Unwritten]
  /\ infoW' = [infoW EXCEPT ![t] = Unwritten]

Aborts(t) ==
  /\ Ends(t)
  /\ outrun' = outrun \ {t}
  /\ UNCHANGED <<dbVars, ops, doubled, met, miscounted>>

Rollback(t) == pc[t] = "rollback" /\ Aborts(t)

\* A statement fails, or there is no connection to the database.
Fails(t) == pc[t] # "idle" /\ Aborts(t)

Begin(t) ==
  /\ pc[t] = "idle" /\ ops < MaxOps
  /\ \E r \in Requests :
       /\ r.kind = "Create" => /\ status[r.guild] = "none"
                               /\ \A u \in Tasks : op[u].kind = "Create" => op[u].guild # r.guild
       /\ op' = [op EXCEPT ![t] = r]
       /\ pc' = [pc EXCEPT ![t] = IF r.kind \in {"Apply", "Reject"} THEN "ask" ELSE "connect"]
  /\ ops' = ops + 1
  /\ doubled' = (doubled \/ \E u \in Tasks \ {t} : Of[u] = Of[t] /\ pc[u] # "idle")
  /\ UNCHANGED <<dbVars, actor, target, left, counted, memberW, infoW, met, outrun, miscounted>>

Connect(t) ==
  /\ pc[t] = "connect" /\ FreeConnection
  /\ pc' = [pc EXCEPT ![t] = "actor"]
  /\ UNCHANGED <<dbVars, workVars, historyVars>>

-----------------------------------------------------------------------------
(* What an operation reads, and whether it goes on.                        *)

Officer(row) == row # NoGuild /\ row.duty \in {"Commander", "Deputy"}

ActorMay(t, row) ==
  LET r == op[t] IN
  CASE r.kind = "Create" -> row = NoGuild /\ Of[t] \notin cooling
    [] r.kind \in {"SetDuty", "Fire"} -> row # NoGuild
    [] r.kind = "Accept" -> Officer(row)
    [] r.kind = "Quit" -> row # NoGuild /\ row.guild = r.guild /\ row.duty # "Commander"
    [] r.kind = "Dissolve" -> row # NoGuild /\ row.guild = r.guild /\ row.duty = "Commander"

AfterActor ==
  [SetDuty |-> "target", Fire |-> "target", Accept |-> "second",
   Quit |-> "delete", Dissolve |-> "infos", Create |-> "insert"]

\* Operations whose overlapping is remembered: an Accept and a Dissolve; a handover,
\* and the departure of the one to whom it goes.
Crossing(r, c, s, d) ==
  CASE {r.kind, s.kind} = {"Accept", "Dissolve"} -> {"stranded"}
    [] r.kind = "SetDuty" /\ r.duty = "Commander" /\ s.kind = "Quit" /\ r.who = d -> {"headless"}
    [] r.kind = "SetDuty" /\ r.duty = "Commander" /\ s.kind = "Fire" /\ r.who = s.who -> {"headless"}
    [] OTHER -> {}

Crossings(t, g) ==
  UNION {Crossing(op[t], Of[t], op[u], Of[u]) \cup Crossing(op[u], Of[u], op[t], Of[t]) :
         u \in {v \in InTx \ {t} : pc[v] # "actor" /\ actor[v] # NoGuild /\ actor[v].guild = g}}

ReadActor(t) ==
  /\ pc[t] = "actor"
  /\ LET row == Membership(Of[t]) IN
       /\ actor' = [actor EXCEPT ![t] = row]
       /\ pc' = [pc EXCEPT ![t] = IF ActorMay(t, row) THEN AfterActor[op[t].kind] ELSE "rollback"]
       /\ met' = [g \in Guilds |-> IF row # NoGuild /\ g = row.guild
                                   THEN met[g] \cup Crossings(t, g) ELSE met[g]]
  /\ UNCHANGED <<dbVars, op, target, left, counted, memberW, infoW, ops, doubled, outrun, miscounted>>

Applicant(t, row) ==
  row = NoGuild /\ op[t].who \notin cooling /\ <<actor[t].guild, op[t].who>> \in requests

DutiesFit(t, row) ==
  /\ row # NoGuild /\ row.guild = actor[t].guild
  /\ op[t].kind = "Fire" => dutyRank[actor[t].duty] < dutyRank[row.duty]
  /\ op[t].kind = "SetDuty" /\ op[t].duty = "Commander" => row.duty = "Deputy"

\* Mutant: any member may change the duties of others.
TargetMayAll(t, row) ==
  IF op[t].kind = "Accept" THEN Applicant(t, row) ELSE DutiesFit(t, row) /\ op[t].who # Of[t]

\* Mutant: commanders may change their own duty.
TargetMaySelf(t, row) ==
  IF op[t].kind = "Accept" THEN Applicant(t, row)
  ELSE DutiesFit(t, row) /\ (op[t].kind = "SetDuty" => actor[t].duty = "Commander")

TargetMay(t, row) ==
  IF op[t].kind = "Accept" THEN Applicant(t, row)
  ELSE /\ DutiesFit(t, row)
       /\ op[t].who # Of[t]
       /\ op[t].kind = "SetDuty" => actor[t].duty = "Commander"

AfterTarget(r) ==
  CASE r.kind = "Fire" -> "delete"
    [] r.kind = "Accept" -> "insert"
    [] r.kind = "SetDuty" ->
         [Commander |-> "demote", Deputy |-> "second", Ordinary |-> "promote", Recruit |-> "promote"][r.duty]

ReadTarget(t) ==
  /\ pc[t] = "target"
  /\ LET row == Membership(op[t].who) IN
       /\ target' = [target EXCEPT ![t] = row]
       /\ pc' = [pc EXCEPT ![t] = IF TargetMay(t, row) THEN AfterTarget(op[t]) ELSE "rollback"]
  /\ UNCHANGED <<dbVars, op, actor, left, counted, memberW, infoW, historyVars>>

\* GetGuildByID, CountGuildMembersByDuty and the configuration, on another connection.
RoomFor(t) ==
  LET g == Guild(t) IN
  /\ status[g] = "active"
  /\ IF op[t].kind = "Accept" THEN count[g] < MemberLimit
     ELSE target[t].duty = "Deputy" \/ Cardinality({c \in Members(g) : member[c].duty = "Deputy"}) < DeputyLimit

\* Mutant: a handler that waits for room in the guild, inside its transaction.
ReadGuildRetrying(t) ==
  /\ pc[t] = "second" /\ FreeConnection
  /\ pc' = [pc EXCEPT ![t] = IF ~RoomFor(t) THEN "second"
                             ELSE IF op[t].kind = "Accept" THEN "target" ELSE "promote"]
  /\ UNCHANGED <<dbVars, workVars, historyVars>>

ReadGuild(t) ==
  /\ pc[t] = "second" /\ FreeConnection
  /\ pc' = [pc EXCEPT ![t] = IF ~RoomFor(t) THEN "rollback"
                             ELSE IF op[t].kind = "Accept" THEN "target" ELSE "promote"]
  /\ UNCHANGED <<dbVars, workVars, historyVars>>

-----------------------------------------------------------------------------
(* What it writes.                                                         *)

\* UpdateGuildDuty: the old commander of a handover, and the duty itself.
Demote(t) ==
  /\ pc[t] = "demote"
  /\ WriteMember(t, Of[t], [guild |-> Guild(t), duty |-> "Deputy"])
  /\ pc' = [pc EXCEPT ![t] = "promote"]
  /\ UNCHANGED <<dbVars, op, actor, target, left, counted, infoW, historyVars>>

Promote(t) ==
  /\ pc[t] = "promote"
  /\ WriteMember(t, op[t].who, [guild |-> Guild(t), duty |-> op[t].duty])
  /\ pc' = [pc EXCEPT ![t] = "commit"]
  /\ UNCHANGED <<dbVars, op, actor, target, left, counted, infoW, historyVars>>

\* Whose rows an operation writes.
Subject(t) == IF op[t].kind \in {"Fire", "Accept"} THEN op[t].who ELSE Of[t]

Delete(t) ==
  /\ pc[t] = "delete"
  /\ WriteMember(t, Subject(t), NoGuild)
  /\ pc' = [pc EXCEPT ![t] = "info"]
  /\ UNCHANGED <<dbVars, op, actor, target, left, counted, infoW, historyVars>>

\* An INSERT waits for anyone who has written a row of the commander, and fails when
\* there is one.
Insert(t) ==
  LET c == Subject(t) IN
  /\ pc[t] = "insert" /\ ~MemberLocked(t, c)
  /\ IF member[c] # NoGuild
     THEN pc' = [pc EXCEPT ![t] = "rollback"] /\ UNCHANGED memberW
     ELSE /\ pc' = [pc EXCEPT ![t] = "info"]
          /\ memberW' = [memberW EXCEPT ![t][c] =
               [guild |-> Guild(t), duty |-> IF op[t].kind = "Create" THEN "Commander" ELSE "Ordinary"]]
  /\ UNCHANGED <<dbVars, op, actor, target, left, counted, infoW, historyVars>>

UpdateInfo(t) ==
  LET c == Subject(t) IN
  /\ pc[t] = "info" /\ ~InfoLocked(t, c)
  /\ infoW' = [infoW EXCEPT ![t][c] = IF op[t].kind \in {"Fire", "Quit"} THEN NoGuild ELSE Guild(t)]
  /\ pc' = [pc EXCEPT ![t] = IF op[t].kind = "Create" THEN "commit" ELSE "count"]
  /\ UNCHANGED <<dbVars, op, actor, target, left, counted, memberW, historyVars>>

\* updateGuildMemberCountTx: the members are counted as they are when the statement
\* begins, which may then wait for the row of the guild.
SeenMembers(t) ==
  {c \in Commanders : IF memberW[t][c] = Same THEN c \in Members(Guild(t)) ELSE memberW[t][c] # NoGuild}

\* Mutant: the members are counted on another connection.
CountCommitted(t) ==
  /\ pc[t] = "count"
  /\ counted' = [counted EXCEPT ![t] = Cardinality(Members(Guild(t)))]
  /\ outrun' = outrun \ {t}
  /\ pc' = [pc EXCEPT ![t] = "recount"]
  /\ UNCHANGED <<dbVars, op, actor, target, left, memberW, infoW, ops, doubled, met, miscounted>>

CountMembers(t) ==
  /\ pc[t] = "count"
  /\ counted' = [counted EXCEPT ![t] = Cardinality(SeenMembers(t))]
  /\ outrun' = outrun \ {t}
  /\ pc' = [pc EXCEPT ![t] = "recount"]
  /\ UNCHANGED <<dbVars, op, actor, target, left, memberW, infoW, ops, doubled, met, miscounted>>

\* GuildDissolve: a statement on many rows visits those that it finds when it begins.
Snapshot(t) ==
  /\ pc[t] \in {"infos", "members"}
  /\ left' = [left EXCEPT ![t] = IF pc[t] = "infos" THEN {c \in Commanders : info[c] = Guild(t)}
                                                    ELSE Members(Guild(t))]
  /\ pc' = [pc EXCEPT ![t] = IF pc[t] = "infos" THEN "infoRows" ELSE "memberRows"]
  /\ UNCHANGED <<dbVars, op, actor, target, counted, memberW, infoW, historyVars>>

ClearInfo(t) ==
  /\ pc[t] = "infoRows"
  /\ \E c \in left[t] :
       /\ ~InfoLocked(t, c)
       /\ infoW' = [infoW EXCEPT ![t][c] = IF info[c] = Guild(t) THEN NoGuild ELSE @]
       /\ left' = [left EXCEPT ![t] = @ \ {c}]
  /\ UNCHANGED <<dbVars, pc, op, actor, target, counted, memberW, historyVars>>

DeleteMember(t) ==
  /\ pc[t] = "memberRows"
  /\ \E c \in left[t] :
       /\ WriteMember(t, c, NoGuild)
       /\ left' = [left EXCEPT ![t] = @ \ {c}]
  /\ UNCHANGED <<dbVars, pc, op, actor, target, counted, infoW, historyVars>>

\* Mutant: a dissolved guild keeps its members.
EndOfInfos(t) ==
  /\ pc[t] = "infoRows" /\ left[t] = {}
  /\ pc' = [pc EXCEPT ![t] = "close"]
  /\ UNCHANGED <<dbVars, workVars, historyVars>>

EndOfRows(t) ==
  /\ pc[t] \in {"infoRows", "memberRows"} /\ left[t] = {}
  /\ pc' = [pc EXCEPT ![t] = IF pc[t] = "infoRows" THEN "members" ELSE "close"]
  /\ UNCHANGED <<dbVars, workVars, historyVars>>

\* UPDATE guilds: member_count, or deleted_at.
UpdateGuild(t) ==
  /\ pc[t] \in {"recount", "close"} /\ \A u \in Tasks : ~HasGuild(u, Guild(t))
  /\ pc' = [pc EXCEPT ![t] = "commit"]
  /\ UNCHANGED <<dbVars, workVars, historyVars>>

Commit(t) ==
  LET g == Guild(t)
      kind == op[t].kind
      changed == \E c \in Commanders : memberW[t][c] # Same /\ kind # "SetDuty"
  IN
  /\ pc[t] = "commit"
  /\ member' = [c \in Commanders |-> IF memberW[t][c] = Same THEN member[c] ELSE memberW[t][c]]
  /\ info' = [c \in Commanders |-> IF infoW[t][c] = Same THEN info[c] ELSE infoW[t][c]]
  /\ status' = [status EXCEPT ![g] = CASE kind = "Create" -> "active"
                                       [] kind = "Dissolve" -> "dissolved"
                                       [] OTHER -> @]
  /\ count' = [count EXCEPT ![g] = CASE kind = "Create" -> 1
                                     [] kind \in {"Fire", "Quit", "Accept"} -> counted[t]
                                     [] OTHER -> @]
  /\ cooling' = IF kind \in {"Quit", "Dissolve"} THEN cooling \cup {Of[t]} ELSE cooling
  /\ requests' = IF kind = "Accept" THEN requests \ {<<g, op[t].who>>} ELSE requests
  /\ outrun' = (IF changed
                THEN outrun \cup {u \in InTx : pc[u] \in {"recount", "commit"} /\ Guild(u) = g}
                ELSE outrun) \ {t}
  /\ miscounted' = IF kind \notin {"Fire", "Quit", "Accept"} THEN miscounted
                   ELSE IF t \in outrun THEN miscounted \cup {g}
                   ELSE miscounted \ {g}
  /\ Ends(t)
  /\ UNCHANGED <<ops, doubled, met>>

-----------------------------------------------------------------------------
(* Requests without a transaction, each statement on a connection of its   *)
(* own: GuildApply and RejectGuildJoinRequest.                             *)

MayPut(t) ==
  LET r == op[t] IN
  IF r.kind = "Reject" THEN Officer(Membership(Of[t]))
  ELSE /\ Membership(Of[t]) = NoGuild /\ Of[t] \notin cooling
       /\ status[r.guild] = "active" /\ count[r.guild] < MemberLimit
       /\ \/ <<r.guild, Of[t]>> \in requests
          \/ Cardinality({q \in requests : q[2] = Of[t]}) < ApplyLimit

Ask(t) ==
  /\ pc[t] = "ask" /\ FreeConnection
  /\ IF MayPut(t)
     THEN /\ pc' = [pc EXCEPT ![t] = "put"]
          /\ actor' = [actor EXCEPT ![t] = Membership(Of[t])]
          /\ UNCHANGED <<op, target, left, counted, memberW, infoW>>
     ELSE Ends(t)
  /\ UNCHANGED <<dbVars, historyVars>>

Put(t) ==
  /\ pc[t] = "put" /\ FreeConnection
  /\ requests' = IF op[t].kind = "Apply" THEN requests \cup {<<op[t].guild, Of[t]>>}
                 ELSE requests \ {<<actor[t].guild, op[t].who>>}
  /\ Ends(t)
  /\ UNCHANGED <<status, count, member, info, cooling, historyVars>>

CooldownEnds(c) ==
  /\ c \in cooling
  /\ cooling' = cooling \ {c}
  /\ UNCHANGED <<status, count, member, info, requests, pc, workVars, historyVars>>

-----------------------------------------------------------------------------
(* PostgreSQL ends one of the transactions that wait for each other.       *)

MemberWanted(t) ==
  CASE pc[t] = "insert" -> {Subject(t)}
    [] pc[t] = "demote" -> {Of[t]} \cap Members(Guild(t))
    [] pc[t] = "promote" -> {op[t].who} \cap Members(Guild(t))
    [] pc[t] = "delete" -> {Subject(t)} \cap Members(Guild(t))
    [] pc[t] = "memberRows" -> left[t] \cap Members(Guild(t))
    [] OTHER -> {}

InfoWanted(t) ==
  CASE pc[t] = "info" -> {Subject(t)}
    [] pc[t] = "infoRows" -> left[t]
    [] OTHER -> {}

WaitsFor(t, u) ==
  /\ t # u
  /\ \/ \E c \in MemberWanted(t) : memberW[u][c] # Same
     \/ \E c \in InfoWanted(t) : infoW[u][c] # Same
     \/ pc[t] \in {"recount", "close"} /\ HasGuild(u, Guild(t))

\* Each of S waits for one of S, and is waited for by one.
Circle(S) == \A u \in S : (\E v \in S : WaitsFor(u, v)) /\ (\E v \in S : WaitsFor(v, u))

DeadlockDetected(t) ==
  /\ \E S \in SUBSET InTx : t \in S /\ Circle(S)
  /\ Aborts(t)

Step(t) ==
  \/ Connect(t) \/ ReadActor(t) \/ ReadTarget(t) \/ ReadGuild(t)
  \/ Demote(t) \/ Promote(t) \/ Delete(t) \/ Insert(t) \/ UpdateInfo(t)
  \/ CountMembers(t) \/ UpdateGuild(t)
  \/ Snapshot(t) \/ ClearInfo(t) \/ DeleteMember(t) \/ EndOfRows(t)
  \/ Commit(t) \/ Rollback(t) \/ Ask(t) \/ Put(t)

Next ==
  \/ \E t \in Tasks : Begin(t) \/ Step(t) \/ Fails(t) \/ DeadlockDetected(t)
  \/ \E c \in Commanders : CooldownEnds(c)

Spec == Init /\ [][Next]_vars

\* Statements that need not wait are executed, and deadlocks are detected.
FairSpec ==
  /\ Spec
  /\ \A t \in Tasks : WF_vars(Step(t)) /\ WF_vars(DeadlockDetected(t))

-----------------------------------------------------------------------------
(* The inductive invariant.                                                *)

Places ==
  {"idle", "connect", "ask", "put", "actor", "target", "second", "demote", "promote", "delete", "insert",
   "info", "count", "recount", "infos", "infoRows", "members", "memberRows", "close", "commit", "rollback"}

TypeOK ==
  /\ status \in [Guilds -> {"none", "active", "dissolved"}]
  /\ member \in [Commanders -> Rows \cup {NoGuild}]
  /\ pc \in [Tasks -> Places]
  /\ op \in [Tasks -> Requests \cup {NoRequest}]
  /\ actor \in [Tasks -> Rows \cup {NoGuild}]
  /\ memberW \in [Tasks -> [Commanders -> Rows \cup {NoGuild, Same}]]
  /\ doubled \in BOOLEAN

\* What a handler that is at place p has: between requests, nothing of the last one;
\* later, what it has found and relies on.
Fits(t, p) ==
  /\ p \in {"idle", "connect", "ask", "actor"} => actor[t] = NoGuild
  /\ p \in {"idle", "connect", "ask", "put", "actor"} => memberW[t] = Unwritten
  /\ p = "idle" <=> op[t] = NoRequest
  /\ p \in {"connect", "actor"} => op[t].kind \notin {"Apply", "Reject"}
  /\ p \in {"ask", "put"} => op[t].kind \in {"Apply", "Reject"}
  /\ p = "target" => op[t].kind \in {"SetDuty", "Fire", "Accept"}
  /\ p = "second" => op[t].kind \in {"SetDuty", "Accept"}
  /\ p = "second" /\ op[t].kind = "SetDuty" => op[t].duty # "Commander"
  /\ p \in {"demote", "promote"} => op[t].kind = "SetDuty"
  /\ p = "delete" => op[t].kind \in {"Fire", "Quit"}
  /\ p = "insert" => op[t].kind \in {"Accept", "Create"}
  /\ op[t].kind = "SetDuty" =>
       p \in {"connect", "actor", "target", "second", "demote", "promote", "commit", "rollback"}
  /\ p \notin {"idle", "connect", "ask", "put", "actor", "rollback"} =>
       (actor[t] = NoGuild <=> op[t].kind = "Create")
  /\ op[t].kind = "SetDuty" /\ p \in {"second", "demote", "promote", "commit"} =>
       actor[t].duty = "Commander" /\ op[t].who # Of[t]

HandlersOK == \A t \in Tasks : Fits(t, pc[t])

\* A guild that has not been founded has no row but those of its founder.
FreshOK ==
  /\ \A t \in Tasks : op[t].kind = "Create" =>
       /\ status[op[t].guild] = "none"
       /\ \A u \in Tasks \ {t} : op[u].kind = "Create" => op[u].guild # op[t].guild
  /\ \A c \in Commanders : member[c] # NoGuild => status[member[c].guild] # "none"
  /\ \A t \in Tasks : actor[t] # NoGuild => status[actor[t].guild] # "none"

Leads(row, g) == row = [guild |-> g, duty |-> "Commander"]

\* t has read that its commander is the one of g, and acts on it.
Claims(t, g) == op[t].kind = "SetDuty" /\ Leads(actor[t], g)

\* Handlers write rows of their own guild, and who is about to become a commander.
WritesOK ==
  \A t \in Tasks : \A c \in Commanders :
    /\ memberW[t][c] \in Rows => memberW[t][c].guild = Guild(t)
    /\ \A g \in Guilds : Leads(memberW[t][c], g) =>
         \/ op[t].kind = "Create" /\ op[t].guild = g /\ c = Of[t]
         \/ Claims(t, g) /\ c = op[t].who /\ op[t].duty = "Commander"

\* The commander of a guild and those who act as one are the same, and one who hands
\* over has been demoted, unless the row had gone.
LeadersOK ==
  ~doubled =>
    /\ \A t, u \in Tasks : Of[t] = Of[u] /\ pc[t] # "idle" /\ pc[u] # "idle" => t = u
    /\ \A g \in Guilds :
         /\ \A c, d \in Commanders : Leads(member[c], g) /\ Leads(member[d], g) => c = d
         /\ \A t \in Tasks : \A c \in Commanders : Claims(t, g) /\ Leads(member[c], g) => c = Of[t]
         /\ \A t, u \in Tasks : Claims(t, g) /\ Claims(u, g) => t = u
         /\ \A t \in Tasks : Claims(t, g) /\ op[t].duty = "Commander" /\ pc[t] \in {"promote", "commit"}
              => memberW[t][Of[t]] # Same \/ ~Leads(member[Of[t]], g)

IndInv == TypeOK /\ HandlersOK /\ FreshOK /\ WritesOK /\ LeadersOK

-----------------------------------------------------------------------------
(* Properties.                                                             *)

Leaders(g) == {c \in Commanders : Leads(member[c], g)}

\* A guild never has two commanders, although a handover relies on duties that it
\* has read before: as long as nobody uses two sessions at once.
AtMostOneCommander ==
  ~doubled => \A g \in Guilds : \A c, d \in Leaders(g) : c = d

\* A guild is not left without a commander, unless a handover has overlapped with
\* the departure of the one to whom it goes.
NeverHeadless ==
  \A g \in Guilds :
    status[g] = "active" /\ ~doubled /\ "headless" \notin met[g] => Leaders(g) # {}

\* Nobody belongs to a guild that has been dissolved, which they could neither leave
\* nor exchange for another, unless they were accepted while it was being dissolved.
NobodyStranded ==
  \A c \in Commanders :
    member[c] # NoGuild /\ status[member[c].guild] = "dissolved"
    => "stranded" \in met[member[c].guild]

\* member_count is the number of members, unless a transaction has been committed
\* between the counting and the commit of the one that has stored it.
CountIsExact ==
  \A g \in Guilds :
    status[g] = "active" /\ g \notin miscounted => count[g] = Cardinality(Members(g))

\* Memberships and guilds are a GuildRoster: what a transaction writes is one of its
\* operations, and legal when it is committed, whatever has been committed since the
\* transaction has read what it relies on.
Roster == INSTANCE GuildRoster
ImplementsRoster == Roster!Spec

\* Every connection is held by an operation that waits for a second one.
Starved ==
  /\ Cardinality(InTx) = Connections
  /\ \A t \in InTx : pc[t] = "second"

\* The statement that t has come to need not wait.
CanStep(t) ==
  \/ pc[t] \in {"connect", "second", "ask", "put"} /\ FreeConnection
  \/ pc[t] \in {"actor", "target", "count", "infos", "members", "commit", "rollback"}
  \/ pc[t] \in {"insert", "demote", "promote", "delete"} /\ \A c \in MemberWanted(t) : ~MemberLocked(t, c)
  \/ pc[t] = "info" /\ ~InfoLocked(t, Subject(t))
  \/ pc[t] = "infoRows" /\ (left[t] = {} \/ \E c \in left[t] : ~InfoLocked(t, c))
  \/ pc[t] = "memberRows" /\ (left[t] = {} \/ \E c \in left[t] : c \notin MemberWanted(t) \/ ~MemberLocked(t, c))
  \/ pc[t] \in {"recount", "close"} /\ \A u \in Tasks : ~HasGuild(u, Guild(t))

\* t waits for u to end: for a row that u has written, or for any connection.
WaitsOn(t, u) ==
  \/ WaitsFor(t, u)
  \/ pc[t] \in {"connect", "second", "ask", "put"} /\ ~FreeConnection /\ u \in InTx

\* Handlers that wait, and for each other only, are starved or have a deadlock among
\* them that PostgreSQL detects: nobody waits for one who has ended, no transaction
\* that waits for a connection holds a row, and the pool is never exceeded.
NothingHangs ==
  \A W \in SUBSET Tasks :
    /\ \E t \in W : pc[t] # "idle"
    /\ \A t \in W : ~CanStep(t) /\ \A u \in Tasks : WaitsOn(t, u) => u \in W
    => Starved \/ \E S \in SUBSET (W \cap InTx) : S # {} /\ Circle(S)

\* Every request is answered, although transactions wait for each other's rows in
\* different orders, unless the pool is exhausted by those that need a second connection.
RequestEnds == \A t \in Tasks : pc[t] # "idle" ~> pc[t] = "idle" \/ Starved

-----------------------------------------------------------------------------
(* The inductive invariant behind the theorems on counts, dissolutions and *)
(* handovers: what holds while operations overlap, given IndInv.           *)

RecordsOK ==
  /\ count \in [Guilds -> Nat] /\ counted \in [Tasks -> Nat]
  /\ left \in [Tasks -> SUBSET Commanders]
  /\ met \in [Guilds -> SUBSET {"headless", "stranded"}]
  /\ outrun \subseteq Tasks /\ miscounted \subseteq Guilds

HandsOver(t) == op[t].kind = "SetDuty" /\ op[t].duty = "Commander"
Departs(t) == op[t].kind \in {"Fire", "Quit"}

\* Where each kind of operation may be.
Placed(t) ==
  /\ pc[t] = "demote" => op[t].duty = "Commander"
  /\ pc[t] = "commit" => op[t].kind \notin {"Apply", "Reject"}
  /\ pc[t] = "info" => op[t].kind \in {"Fire", "Quit", "Accept", "Create"}
  /\ pc[t] \in {"count", "recount"} => op[t].kind \in {"Fire", "Quit", "Accept"}
  /\ pc[t] \in {"infos", "infoRows", "members", "memberRows", "close"} => op[t].kind = "Dissolve"
  /\ pc[t] \in {"info", "commit"} /\ op[t].kind = "Create" => Leads(memberW[t][Of[t]], op[t].guild)

\* A row that a transaction has written is as it was found, and its own business.
Locked(t) ==
  \A c \in Commanders : memberW[t][c] # Same =>
    /\ op[t].kind \in {"Create", "Accept"} =>
         c = Subject(t) /\ member[c] = NoGuild /\ memberW[t][c] # NoGuild
    /\ op[t].kind \notin {"Create", "Accept"} =>
         c \in Members(Guild(t)) /\ (memberW[t][c] = NoGuild <=> op[t].kind # "SetDuty")
    /\ Departs(t) => c = Subject(t)
    /\ op[t].kind = "SetDuty" => c = op[t].who \/ (c = Of[t] /\ HandsOver(t))

\* ... and nobody else's.
LocksApart ==
  \A t, u \in Tasks : \A c \in Commanders : memberW[t][c] # Same /\ memberW[u][c] # Same => t = u

\* A count that nobody has outrun is what the commit will make true.
CountFits(t) ==
  pc[t] \in {"recount", "commit"} /\ op[t].kind \in {"Fire", "Quit", "Accept"} /\ t \notin outrun
  => counted[t] = Cardinality(SeenMembers(t))

\* Dissolving: whoever is still a member has his turn, or was accepted meanwhile.
Emptied(t) ==
  op[t].kind = "Dissolve" /\ pc[t] \in {"memberRows", "close", "commit"} =>
    \A c \in Members(Guild(t)) :
      \/ memberW[t][c] # Same
      \/ pc[t] = "memberRows" /\ c \in left[t]
      \/ "stranded" \in met[Guild(t)]

\* Accepting into a guild that has been dissolved meanwhile.
Entered(t) ==
  op[t].kind = "Accept" /\ actor[t] # NoGuild /\ status[actor[t].guild] = "dissolved"
  => "stranded" \in met[actor[t].guild]

\* Handing over: there is somebody to receive the guild.
Received(t) ==
  HandsOver(t) /\ pc[t] \in {"demote", "promote", "commit"} =>
    \/ /\ op[t].who \in Members(Guild(t))
       /\ pc[t] = "commit" => Leads(memberW[t][op[t].who], Guild(t))
    \/ "headless" \in met[Guild(t)]
    \/ status[Guild(t)] = "dissolved"

\* Who leaves does not lead.
Leaves(t) ==
  Departs(t) /\ pc[t] \in {"delete", "info", "count", "recount", "commit"} =>
    ~Leads(member[Subject(t)], Guild(t)) \/ "headless" \in met[Guild(t)]

TaskOK(t) == Placed(t) /\ Locked(t) /\ CountFits(t) /\ Emptied(t) /\ Entered(t) /\ Received(t) /\ Leaves(t)

\* What two operations in one guild have left in met.
MetOK(t, u) ==
  actor[t] # NoGuild /\ actor[u] # NoGuild /\ actor[t].guild = actor[u].guild =>
    /\ op[t].kind = "Accept" /\ op[u].kind = "Dissolve" => "stranded" \in met[actor[t].guild]
    /\ HandsOver(t) /\ Departs(u) /\ Subject(u) = op[t].who => "headless" \in met[actor[t].guild]

OverlapInv ==
  /\ RecordsOK
  /\ \A t \in Tasks : TaskOK(t)
  /\ \A t, u \in Tasks : MetOK(t, u)
  /\ LocksApart
  /\ CountIsExact /\ NobodyStranded /\ NeverHeadless

\* The inductive invariant behind ImplementsRoster: what a transaction writes.
Written(t, c) ==
  CASE op[t].kind = "Create" -> [guild |-> Guild(t), duty |-> "Commander"]
    [] op[t].kind = "Accept" -> [guild |-> Guild(t), duty |-> "Ordinary"]
    [] op[t].kind = "SetDuty" -> [guild |-> Guild(t), duty |-> IF c = op[t].who THEN op[t].duty ELSE "Deputy"]
    [] OTHER -> NoGuild

WrittenInv == \A t \in Tasks, c \in Commanders : memberW[t][c] # Same => memberW[t][c] = Written(t, c)

\* The inductive invariant behind NothingHangs: before its first write a handler holds
\* no row, and no more connections are in use than the pool has.
Unwriting == {"idle", "connect", "ask", "put", "actor", "target", "second"}

HoldsInv ==
  /\ infoW \in [Tasks -> [Commanders -> Guilds \cup {NoGuild, Same}]]
  /\ \A t \in Tasks : pc[t] \in Unwriting => memberW[t] = Unwritten /\ infoW[t] = Unwritten
  /\ Cardinality(InTx) <= Connections
=============================================================================
