------------------------- MODULE GuildMembersProofs -------------------------
(***************************************************************************)
(* A guild has one commander, for any number of commanders, guilds,        *)
(* sessions and connections.  Nothing in the schema says so, and a         *)
(* handover relies on duties that it has read and not locked: it follows   *)
(* from the handler's claim.  Who has read that it leads a guild, and acts *)
(* on it, is the only one to have read that, and its commander the only    *)
(* one who can lead that guild until it ends; when it commits a new        *)
(* commander, its own row has been demoted in the same transaction.        *)
(*                                                                         *)
(* The second half is about operations that overlap: that a guild is led,  *)
(* that nobody stays in a dissolved one, and that member_count is right.   *)
(* A transaction's rows are its own until the commit, so only a commit can *)
(* disturb the others (CommitOthers), and then met or outrun tells.        *)
(***************************************************************************)
EXTENDS GuildMembers, FiniteSetTheorems, TLAPS

Early == {"idle", "connect", "ask", "put", "actor"}

\* At p, the commander who hands over has been demoted, or had left.
Handed(t, p) ==
  ~doubled => \A g \in Guilds :
    Claims(t, g) /\ op[t].duty = "Commander" /\ p \in {"promote", "commit"}
    => memberW[t][Of[t]] # Same \/ ~Leads(member[Of[t]], g)

\* No duty or guild is mistaken for NoGuild or Same.
LEMMA RowsApart ==
  /\ NoGuild \notin Rows /\ Same \notin Rows /\ NoGuild # Same
  /\ \A g \in Guilds : Leads(NoGuild, g) = FALSE /\ Leads(Same, g) = FALSE
  /\ NoRequest \notin Requests /\ NoRequest.kind = "none"
<1>1. NoGuild \notin Rows /\ Same \notin Rows /\ NoGuild # Same
  BY GuildAssumption
<1>2. \A g \in Guilds : [guild |-> g, duty |-> "Commander"] \in Rows
  BY DEF Rows, Duties, dutyRank
<1>3. NoRequest \notin Requests /\ NoRequest.kind = "none"
  <2>1. \A r \in Requests : r.kind \in Kinds
    BY GuildAssumption
  <2> QED  BY <2>1 DEF NoRequest, Kinds
<1> QED  BY <1>1, <1>2, <1>3 DEF Leads

\* The invariant holds at first: the handlers are idle.
LEMMA InitOK == ASSUME Init PROVE IndInv
<1> USE GuildAssumption, RowsApart DEF Init
<1>1. TypeOK
  BY DEF TypeOK, Places, Unwritten
<1>2. HandlersOK
  BY DEF HandlersOK, Fits
<1>3. FreshOK
  <2>1. \A c \in Commanders : member[c] # NoGuild => member[c].guild \in Founded
    OBVIOUS
  <2> QED  BY <2>1 DEF FreshOK
<1>4. WritesOK
  BY DEF WritesOK, Unwritten
<1>5. LeadersOK
  <2>1. \A t \in Tasks, g \in Guilds : ~Claims(t, g)
    BY DEF Claims
  <2>2. ASSUME NEW g \in Guilds, NEW c \in Commanders, NEW d \in Commanders,
               Leads(member[c], g), Leads(member[d], g)
        PROVE  c = d
    <3>1. member[c] # NoGuild /\ member[c].guild = g
      BY <2>2 DEF Leads
    <3>2. g \in Founded
      BY <3>1
    <3> QED  BY <2>2, <3>2 DEF Leads
  <2> QED  BY <2>1, <2>2 DEF LeadersOK
<1> QED  BY <1>1, <1>2, <1>3, <1>4, <1>5 DEF IndInv

\* A handler that goes on to p and writes nothing.
LEMMA Moves ==
  ASSUME IndInv, NEW t \in Tasks, NEW p \in Places, pc[t] # "idle", p # "idle",
         Fits(t, p), Handed(t, p), pc' = [pc EXCEPT ![t] = p],
         status' = status, member' = member, op' = op, actor' = actor,
         memberW' = memberW, doubled' = doubled
  PROVE  IndInv'
<1> USE DEF IndInv
<1>1. TypeOK'
  BY DEF TypeOK
<1>2. HandlersOK'
  BY DEF TypeOK, HandlersOK, Fits, Unwritten
<1>3. FreshOK'
  BY DEF FreshOK
<1>4. WritesOK'
  BY DEF WritesOK, Guild, Claims, Leads
<1>5. LeadersOK'
  BY DEF TypeOK, LeadersOK, Handed, Claims, Leads
<1> QED  BY <1>1, <1>2, <1>3, <1>4, <1>5

\* A handler that goes on to p and writes a membership.
LEMMA Writes ==
  ASSUME IndInv, NEW t \in Tasks, NEW p \in Places, NEW c \in Commanders,
         NEW row \in Rows \cup {NoGuild},
         pc[t] # "idle", p \notin Early, Fits(t, p), c = Of[t] \/ Handed(t, p),
         row \in Rows => row.guild = Guild(t),
         \A g \in Guilds : Leads(row, g) =>
           \/ op[t].kind = "Create" /\ op[t].guild = g /\ c = Of[t]
           \/ Claims(t, g) /\ c = op[t].who /\ op[t].duty = "Commander",
         pc' = [pc EXCEPT ![t] = p], memberW' = [memberW EXCEPT ![t][c] = row],
         status' = status, member' = member, op' = op, actor' = actor, doubled' = doubled
  PROVE  IndInv'
<1> USE DEF IndInv
<1>1. memberW' \in [Tasks -> [Commanders -> Rows \cup {NoGuild, Same}]]
  BY DEF TypeOK
<1>2. \A u \in Tasks, d \in Commanders :
        memberW'[u][d] = IF u = t /\ d = c THEN row ELSE memberW[u][d]
  BY DEF TypeOK
<1>3. TypeOK'
  BY <1>1 DEF TypeOK
<1>4. HandlersOK'
  <2>1. \A u \in Tasks \ {t} : memberW'[u] = memberW[u]
    BY DEF TypeOK
  <2> QED  BY <2>1 DEF TypeOK, HandlersOK, Fits, Early, Unwritten
<1>5. FreshOK'
  BY DEF FreshOK
<1>6. WritesOK'
  BY <1>2 DEF WritesOK, Guild, Claims, Leads
<1>7. LeadersOK'
  <2>1. row # Same
    BY RowsApart
  <2>2. \A u \in Tasks : pc'[u] = "idle" <=> pc[u] = "idle"
    BY DEF TypeOK, Early
  <2>3. \A u \in Tasks, g \in Guilds : Claims(u, g)' <=> Claims(u, g)
    BY DEF Claims, Leads
  <2>4. ASSUME ~doubled, NEW u \in Tasks, NEW g \in Guilds,
               Claims(u, g), op[u].duty = "Commander", pc'[u] \in {"promote", "commit"}
        PROVE  memberW'[u][Of[u]] # Same \/ ~Leads(member[Of[u]], g)
    <3>1. Of[u] \in Commanders
      BY GuildAssumption
    <3>2. CASE u = t
      BY <1>2, <2>1, <2>4, <3>1, <3>2 DEF TypeOK, Handed
    <3>3. CASE u # t
      BY <1>2, <2>4, <3>1, <3>3 DEF TypeOK, LeadersOK
    <3> QED  BY <3>2, <3>3
  <2> QED  BY <2>2, <2>3, <2>4 DEF LeadersOK, Leads
<1> QED  BY <1>3, <1>4, <1>5, <1>6, <1>7

\* A handler that ends without having changed the database.
LEMMA EndsQuietly ==
  ASSUME IndInv, NEW t \in Tasks, Ends(t),
         status' = status, member' = member, doubled' = doubled
  PROVE  IndInv'
<1> USE RowsApart DEF IndInv, Ends
<1>1. TypeOK'
  BY GuildAssumption DEF TypeOK, Places, Unwritten
<1>2. HandlersOK'
  BY DEF TypeOK, HandlersOK, Fits, Unwritten
<1>3. FreshOK'
  BY DEF TypeOK, FreshOK
<1>4. WritesOK'
  BY DEF TypeOK, WritesOK, Guild, Claims, Leads, Unwritten
<1>5. LeadersOK'
  BY DEF TypeOK, LeadersOK, Claims, Leads
<1> QED  BY <1>1, <1>2, <1>3, <1>4, <1>5

-----------------------------------------------------------------------------
(* The steps.                                                              *)

\* A request is received.
LEMMA BeginOK == ASSUME IndInv, NEW t \in Tasks, Begin(t) PROVE IndInv'
<1> USE DEF IndInv
<1> PICK r \in Requests : Begin(t)!2!(r)
  BY DEF Begin
<1>1. /\ pc[t] = "idle" /\ op[t] = NoRequest /\ actor[t] = NoGuild /\ memberW[t] = Unwritten
      /\ UNCHANGED <<status, member, actor, memberW>>
      /\ doubled' = (doubled \/ \E u \in Tasks \ {t} : Of[u] = Of[t] /\ pc[u] # "idle")
  BY DEF Begin, HandlersOK, Fits, dbVars
<1>2. r # NoRequest /\ r.kind \in Kinds
  BY RowsApart, GuildAssumption
<1>3. TypeOK'
  BY <1>1 DEF TypeOK, Places
<1>4. HandlersOK'
  BY <1>1, <1>2 DEF TypeOK, HandlersOK, Fits, Kinds, Unwritten
<1>5. FreshOK'
  BY <1>1 DEF TypeOK, FreshOK
<1>6. WritesOK'
  <2>1. \A c \in Commanders : memberW[t][c] = Same
    BY <1>1 DEF Unwritten
  <2> QED  BY <1>1, <2>1, RowsApart DEF TypeOK, WritesOK, Guild, Claims, Leads
<1>7. LeadersOK'
  <2>1. \A u \in Tasks, g \in Guilds : Claims(u, g)' => u # t /\ Claims(u, g)
    BY <1>1, RowsApart DEF TypeOK, Claims, Leads
  <2>2. \A u \in Tasks \ {t} : pc'[u] = pc[u] /\ op'[u] = op[u]
    BY DEF TypeOK
  <2> SUFFICES ASSUME ~doubled' PROVE LeadersOK'
    BY DEF LeadersOK
  <2>3. ~doubled /\ \A u \in Tasks \ {t} : Of[u] = Of[t] => pc[u] = "idle"
    BY <1>1 DEF TypeOK
  <2>4. \A u, v \in Tasks : Of[u] = Of[v] /\ pc'[u] # "idle" /\ pc'[v] # "idle" => u = v
    BY <2>2, <2>3 DEF LeadersOK
  <2>5. \A g \in Guilds : \A u \in Tasks : \A c \in Commanders :
          Claims(u, g)' /\ Leads(member[c], g) => c = Of[u]
    BY <2>1, <2>3 DEF LeadersOK
  <2>6. \A g \in Guilds : \A u, v \in Tasks : Claims(u, g)' /\ Claims(v, g)' => u = v
    BY <2>1, <2>3 DEF LeadersOK
  <2>7. \A g \in Guilds : \A u \in Tasks :
          Claims(u, g)' /\ op'[u].duty = "Commander" /\ pc'[u] \in {"promote", "commit"}
          => memberW[u][Of[u]] # Same \/ ~Leads(member[Of[u]], g)
    BY <2>1, <2>2, <2>3 DEF LeadersOK
  <2> QED  BY <1>1, <2>3, <2>4, <2>5, <2>6, <2>7 DEF LeadersOK, Leads
<1> QED  BY <1>3, <1>4, <1>5, <1>6, <1>7

\* A transaction begins.
LEMMA ConnectOK == ASSUME IndInv, NEW t \in Tasks, Connect(t) PROVE IndInv'
<1>1. Fits(t, "actor") /\ Handed(t, "actor")
  BY DEF IndInv, HandlersOK, Fits, Handed, Connect
<1> QED  BY <1>1, Moves DEF Connect, dbVars, workVars, historyVars, Places

\* The handler reads its commander's membership, and may claim the guild by it.
LEMMA ReadActorOK == ASSUME IndInv, NEW t \in Tasks, ReadActor(t) PROVE IndInv'
<1> USE DEF IndInv
<1> DEFINE row == Membership(Of[t])
           p == IF ActorMay(t, row) THEN AfterActor[op[t].kind] ELSE "rollback"
<1>1. /\ pc[t] = "actor" /\ actor' = [actor EXCEPT ![t] = row] /\ pc' = [pc EXCEPT ![t] = p]
      /\ UNCHANGED <<status, member, op, memberW, doubled>>
  BY DEF ReadActor, dbVars
<1>2. /\ Of[t] \in Commanders
      /\ \/ row = NoGuild
         \/ row = member[Of[t]] /\ row \in Rows /\ status[row.guild] = "active"
  BY GuildAssumption DEF Membership, TypeOK
<1>3. actor[t] = NoGuild /\ memberW[t] = Unwritten /\ op[t] # NoRequest /\ op[t].kind \in Kinds \ {"Apply", "Reject"}
  <2>1. actor[t] = NoGuild /\ memberW[t] = Unwritten /\ op[t] # NoRequest
        /\ op[t].kind \notin {"Apply", "Reject"}
    BY <1>1 DEF HandlersOK, Fits
  <2> QED  BY <2>1, GuildAssumption DEF TypeOK
<1>4. /\ p \in {"target", "second", "delete", "infos", "insert", "rollback"}
      /\ p = "target" => op[t].kind \in {"SetDuty", "Fire"}
      /\ p = "second" => op[t].kind = "Accept"
      /\ p = "insert" => op[t].kind = "Create"
      /\ p = "delete" => op[t].kind = "Quit"
      /\ p = "infos" => op[t].kind = "Dissolve"
      /\ p # "rollback" => (row = NoGuild <=> op[t].kind = "Create")
  <2>1. CASE op[t].kind \in {"SetDuty", "Fire"}
    <3>1. ActorMay(t, row) = (row # NoGuild)
      BY <2>1 DEF ActorMay
    <3>2. AfterActor[op[t].kind] = "target"
      BY <2>1 DEF AfterActor
    <3> QED  BY <2>1, <3>1, <3>2
  <2>2. CASE op[t].kind = "Accept"
    BY <2>2 DEF AfterActor, ActorMay, Officer
  <2>3. CASE op[t].kind = "Quit"
    BY <2>3 DEF AfterActor, ActorMay
  <2>4. CASE op[t].kind = "Dissolve"
    BY <2>4 DEF AfterActor, ActorMay
  <2>5. CASE op[t].kind = "Create"
    BY <2>5 DEF AfterActor, ActorMay
  <2> QED  BY <1>3, <2>1, <2>2, <2>3, <2>4, <2>5 DEF Kinds
<1> HIDE DEF row, p
<1>5. TypeOK'
  BY <1>1, <1>2, <1>4 DEF TypeOK, Places
<1>6. HandlersOK'
  BY <1>1, <1>2, <1>3, <1>4 DEF TypeOK, HandlersOK, Fits, Unwritten
<1>7. FreshOK'
  BY <1>1, <1>2, RowsApart DEF TypeOK, FreshOK
<1>8. WritesOK'
  <2>1. \A c \in Commanders : memberW[t][c] = Same
    BY <1>3 DEF Unwritten
  <2> QED  BY <1>1, <2>1, RowsApart DEF TypeOK, WritesOK, Guild, Claims, Leads
<1>9. LeadersOK'
  <2> SUFFICES ASSUME ~doubled PROVE LeadersOK'
    BY <1>1 DEF LeadersOK
  <2>1. \A u \in Tasks : pc'[u] = "idle" <=> pc[u] = "idle"
    BY <1>1, <1>4 DEF TypeOK
  <2>2. \A u \in Tasks \ {t}, g \in Guilds : Claims(u, g)' <=> Claims(u, g)
    BY <1>1 DEF TypeOK, Claims, Leads
  <2>3. \A g \in Guilds : Claims(t, g)' => Leads(member[Of[t]], g)
    BY <1>1, <1>2, RowsApart DEF TypeOK, Claims, Leads
  <2>4. \A u \in Tasks, g \in Guilds : Claims(u, g) => pc[u] # "idle"
    BY RowsApart DEF HandlersOK, Fits, Claims
  <2>5. ASSUME NEW u \in Tasks, NEW v \in Tasks, NEW g \in Guilds, Claims(u, g)', Claims(v, g)'
        PROVE  u = v
    BY <1>1, <1>2, <2>2, <2>3, <2>4, <2>5 DEF LeadersOK
  <2>6. ASSUME NEW u \in Tasks, NEW g \in Guilds, Claims(u, g)', op[u].duty = "Commander",
               pc'[u] \in {"promote", "commit"}
        PROVE  memberW[u][Of[u]] # Same \/ ~Leads(member[Of[u]], g)
    <3>1. u # t
      BY <1>1, <1>4, <2>6 DEF TypeOK
    <3> QED  BY <1>1, <2>2, <2>6, <3>1 DEF TypeOK, LeadersOK
  <2>7. ASSUME NEW u \in Tasks, NEW g \in Guilds, NEW c \in Commanders,
               Claims(u, g)', Leads(member[c], g)
        PROVE  c = Of[u]
    BY <1>2, <2>2, <2>3, <2>7 DEF LeadersOK
  <2> QED  BY <1>1, <2>1, <2>5, <2>6, <2>7 DEF LeadersOK, Leads
<1> QED  BY <1>5, <1>6, <1>7, <1>8, <1>9

\* It reads the other membership, or the guild, and goes on if they allow it.
LEMMA ReadTargetOK == ASSUME IndInv, NEW t \in Tasks, ReadTarget(t) PROVE IndInv'
<1> DEFINE row == Membership(op[t].who)
           p == IF TargetMay(t, row) THEN AfterTarget(op[t]) ELSE "rollback"
<1>1. Fits(t, "target") /\ pc[t] = "target" /\ pc' = [pc EXCEPT ![t] = p]
  BY DEF IndInv, HandlersOK, ReadTarget
<1>2. /\ p \in {"delete", "insert", "second", "demote", "promote", "rollback"}
      /\ p = "promote" => op[t].duty # "Commander"
  <2>1. op[t].kind \in {"SetDuty", "Fire", "Accept"} /\ op[t].duty \in Duties
    BY <1>1, GuildAssumption DEF Fits, IndInv, TypeOK
  <2> QED  BY <2>1 DEF AfterTarget, Duties, dutyRank
<1>3. Fits(t, p)
  <2>1. /\ op[t] # NoRequest /\ op[t].kind \in {"SetDuty", "Fire", "Accept"}
        /\ actor[t] # NoGuild /\ op[t].duty \in Duties
    BY <1>1, GuildAssumption DEF Fits, IndInv, TypeOK
  <2>2. CASE op[t].kind = "Accept"
    <3>1. p \in {"insert", "rollback"}
      BY <2>2 DEF AfterTarget
    <3> QED  BY <1>1, <2>1, <2>2, <3>1 DEF Fits
  <2>3. CASE op[t].kind = "Fire"
    <3>1. p \in {"delete", "rollback"}
      BY <2>3 DEF AfterTarget
    <3> QED  BY <1>1, <2>1, <2>3, <3>1 DEF Fits
  <2>4. CASE op[t].kind = "SetDuty"
    <3>1. p # "rollback" => actor[t].duty = "Commander" /\ op[t].who # Of[t]
      BY <2>4 DEF TargetMay
    <3>2. /\ p \in {"second", "demote", "promote", "rollback"}
          /\ p = "second" => op[t].duty = "Deputy"
      BY <2>1, <2>4 DEF AfterTarget, Duties, dutyRank
    <3> QED  BY <1>1, <2>1, <2>4, <3>1, <3>2 DEF Fits
  <2> QED  BY <2>1, <2>2, <2>3, <2>4
<1>4. Handed(t, p)
  BY <1>2 DEF Handed
<1> HIDE DEF p
<1> QED  BY <1>1, <1>2, <1>3, <1>4, Moves DEF ReadTarget, dbVars, historyVars, Places

LEMMA ReadGuildOK == ASSUME IndInv, NEW t \in Tasks, ReadGuild(t) PROVE IndInv'
<1> DEFINE p == IF ~RoomFor(t) THEN "rollback"
                ELSE IF op[t].kind = "Accept" THEN "target" ELSE "promote"
<1>1. Fits(t, "second") /\ pc[t] = "second" /\ pc' = [pc EXCEPT ![t] = p]
  BY DEF IndInv, HandlersOK, ReadGuild
<1>2. p \in {"rollback", "target", "promote"}
  OBVIOUS
<1>3. Fits(t, p) /\ Handed(t, p)
  BY <1>1 DEF Fits, Handed, Claims
<1> HIDE DEF p
<1> QED  BY <1>1, <1>2, <1>3, Moves DEF ReadGuild, dbVars, workVars, historyVars, Places

\* UPDATE or DELETE of a membership in the handler's guild, found or not.
LEMMA WriteMemberOK ==
  ASSUME IndInv, NEW t \in Tasks, NEW p \in Places, NEW c \in Commanders,
         NEW row \in Rows \cup {NoGuild},
         pc[t] # "idle", p \notin Early, Fits(t, p),
         (c = Of[t] /\ ~Leads(row, Guild(t))) \/ Handed(t, p),
         row \in Rows => row.guild = Guild(t),
         \A g \in Guilds : Leads(row, g) =>
           Claims(t, g) /\ c = op[t].who /\ op[t].duty = "Commander",
         WriteMember(t, c, row), pc' = [pc EXCEPT ![t] = p],
         op[t].kind # "Create",
         status' = status, member' = member, op' = op, actor' = actor, doubled' = doubled
  PROVE  IndInv'
<1>1. CASE c \in Members(Guild(t))
  <2>1. memberW' = [memberW EXCEPT ![t][c] = row]
    BY <1>1 DEF WriteMember
  <2> QED  BY <2>1, Writes
<1>2. CASE c \notin Members(Guild(t))
  <2>1. memberW' = memberW
    BY <1>2 DEF WriteMember
  <2>2. Handed(t, p)
    <3>1. CASE c = Of[t]
      <4>1. ASSUME NEW g \in Guilds, Claims(t, g) PROVE ~Leads(member[Of[t]], g)
        <5>1. Guild(t) = g
          BY <4>1 DEF Claims, Leads, Guild
        <5> QED  BY <1>2, <3>1, <5>1, RowsApart DEF Members, Leads
      <4> QED  BY <4>1 DEF Handed
    <3> QED  BY <3>1
  <2> QED  BY <2>1, <2>2, Moves DEF Early
<1> QED  BY <1>1, <1>2

\* What a handler has when it writes for the guild that it belongs to.
LEMMA WriterOK ==
  ASSUME IndInv, NEW t \in Tasks, op[t].kind # "Create",
         pc[t] \in {"demote", "promote", "delete", "insert", "memberRows"}
  PROVE  /\ op[t] \in Requests /\ actor[t] \in Rows /\ Guild(t) = actor[t].guild
         /\ Guild(t) \in Guilds /\ op[t].who \in Commanders /\ op[t].duty \in Duties
         /\ Of[t] \in Commanders /\ Subject(t) \in Commanders
<1>1. op[t] \in Requests /\ actor[t] \in Rows
  BY DEF IndInv, TypeOK, HandlersOK, Fits
<1> QED  BY <1>1, GuildAssumption DEF Guild, Subject, Rows

\* The commander who hands over becomes a deputy.
LEMMA DemoteOK == ASSUME IndInv, NEW t \in Tasks, Demote(t) PROVE IndInv'
<1> DEFINE row == [guild |-> Guild(t), duty |-> "Deputy"]
<1>1. pc[t] = "demote" /\ Fits(t, "demote") /\ op[t].kind = "SetDuty"
  BY DEF Demote, IndInv, HandlersOK, Fits
<1>2. Guild(t) \in Guilds /\ Of[t] \in Commanders
  BY <1>1, WriterOK
<1>3. row \in Rows /\ row.guild = Guild(t) /\ \A g : ~Leads(row, g)
  BY <1>2 DEF Rows, Duties, dutyRank, Leads
<1>4. Fits(t, "promote")
  BY <1>1 DEF Fits
<1>5. WriteMember(t, Of[t], row)
  BY DEF Demote
<1> HIDE DEF row
<1> QED  BY <1>1, <1>2, <1>3, <1>4, <1>5, WriteMemberOK DEF Demote, dbVars, historyVars, Places, Early

\* A member receives its duty; a new commander, after the old one has been demoted.
LEMMA PromoteOK == ASSUME IndInv, NEW t \in Tasks, Promote(t) PROVE IndInv'
<1> DEFINE row == [guild |-> Guild(t), duty |-> op[t].duty]
<1>1. pc[t] = "promote" /\ Fits(t, "promote") /\ op[t].kind = "SetDuty"
  BY DEF Promote, IndInv, HandlersOK, Fits
<1>2. /\ op[t].who \in Commanders /\ op[t].duty \in Duties /\ Guild(t) \in Guilds
      /\ actor[t] \in Rows /\ Guild(t) = actor[t].guild /\ actor[t].duty = "Commander"
  BY <1>1, WriterOK DEF Fits
<1>3. row \in Rows /\ row.guild = Guild(t)
  BY <1>2 DEF Rows
<1>4. \A g \in Guilds : Leads(row, g) => Claims(t, g) /\ op[t].duty = "Commander"
  BY <1>1, <1>2 DEF Claims, Leads, Rows
<1>5. Fits(t, "commit")
  BY <1>1 DEF Fits
<1>6. WriteMember(t, op[t].who, row)
  BY DEF Promote
<1>7. Handed(t, "commit")
  <2> SUFFICES ASSUME ~doubled, NEW g \in Guilds, Claims(t, g), op[t].duty = "Commander"
               PROVE  memberW[t][Of[t]] # Same \/ ~Leads(member[Of[t]], g)
    BY DEF Handed
  <2>1. \A h \in Guilds : \A u \in Tasks :
          Claims(u, h) /\ op[u].duty = "Commander" /\ pc[u] = "promote"
          => memberW[u][Of[u]] # Same \/ ~Leads(member[Of[u]], h)
    BY DEF IndInv, LeadersOK
  <2>2. pc[t] = "promote"
    BY <1>1
  <2> QED  BY <2>1, <2>2, Zenon
<1> HIDE DEF row
<1>8. PICK p \in Places : p = "commit"
  BY DEF Places
<1>9. /\ pc[t] # "idle" /\ p \notin Early /\ Fits(t, p) /\ Handed(t, p) /\ pc' = [pc EXCEPT ![t] = p]
      /\ op[t].kind # "Create" /\ row \in Rows \cup {NoGuild}
      /\ status' = status /\ member' = member /\ op' = op /\ actor' = actor /\ doubled' = doubled
  BY <1>1, <1>3, <1>5, <1>7, <1>8 DEF Promote, dbVars, historyVars, Early
<1> QED  BY <1>2, <1>3, <1>4, <1>6, <1>9, WriteMemberOK

\* A member leaves, or is fired.
LEMMA DeleteOK == ASSUME IndInv, NEW t \in Tasks, Delete(t) PROVE IndInv'
<1>1. pc[t] = "delete" /\ Fits(t, "delete") /\ op[t].kind \in {"Fire", "Quit"}
  BY DEF Delete, IndInv, HandlersOK, Fits
<1>2. Fits(t, "info") /\ Handed(t, "info")
  BY <1>1 DEF Fits, Handed
<1>3. PICK row \in Rows \cup {NoGuild} : row = NoGuild
  OBVIOUS
<1>4. row \notin Rows /\ \A g \in Guilds : ~Leads(row, g)
  BY <1>3, RowsApart
<1>5. WriteMember(t, Subject(t), row) /\ Subject(t) \in Commanders
  BY <1>1, <1>3, WriterOK DEF Delete
<1> QED  BY <1>1, <1>2, <1>4, <1>5, WriteMemberOK DEF Delete, dbVars, historyVars, Places, Early

\* The rows of a dissolved guild's members are deleted one after the other.
LEMMA DeleteMemberOK == ASSUME IndInv, NEW t \in Tasks, DeleteMember(t) PROVE IndInv'
<1>1. /\ pc[t] = "memberRows" /\ Fits(t, "memberRows") /\ Handed(t, "memberRows")
      /\ pc' = [pc EXCEPT ![t] = "memberRows"]
  BY DEF DeleteMember, IndInv, HandlersOK, Handed, TypeOK
<1>2. PICK p \in Places, row \in Rows \cup {NoGuild} : p = "memberRows" /\ row = NoGuild
  BY DEF Places
<1>3. PICK c \in left[t] : WriteMember(t, c, row)
  BY <1>2 DEF DeleteMember
<1>4. row \notin Rows /\ \A g \in Guilds : ~Leads(row, g)
  BY <1>2, RowsApart
<1>5. /\ UNCHANGED <<status, member, op, actor, doubled>>
      /\ pc[t] # "idle" /\ p \notin Early /\ Fits(t, p) /\ Handed(t, p) /\ pc' = [pc EXCEPT ![t] = p]
  BY <1>1, <1>2 DEF DeleteMember, dbVars, historyVars, Early
<1>6. CASE memberW' = memberW
  BY <1>5, <1>6, Moves DEF Early
<1>7. CASE c \in Commanders /\ memberW' = [memberW EXCEPT ![t][c] = row]
  BY <1>4, <1>5, <1>7, Writes
<1> QED  BY <1>3, <1>6, <1>7 DEF WriteMember, Members

\* An applicant becomes a member, a founder the commander of a new guild.
LEMMA InsertOK == ASSUME IndInv, NEW t \in Tasks, Insert(t) PROVE IndInv'
<1> DEFINE c == Subject(t)
           row == [guild |-> Guild(t),
                   duty |-> IF op[t].kind = "Create" THEN "Commander" ELSE "Ordinary"]
<1>1. pc[t] = "insert" /\ Fits(t, "insert") /\ op[t].kind \in {"Accept", "Create"}
  BY DEF Insert, IndInv, HandlersOK, Fits
<1>2. c \in Commanders /\ Guild(t) \in Guilds
  <2>1. op[t] \in Requests
    BY <1>1 DEF Fits, IndInv, TypeOK
  <2> QED  BY <1>1, <2>1, WriterOK, GuildAssumption DEF Guild, Subject
<1>3. Fits(t, "info") /\ Handed(t, "info") /\ Fits(t, "rollback") /\ Handed(t, "rollback")
  BY <1>1 DEF Fits, Handed
<1>4. row \in Rows /\ row.guild = Guild(t)
  BY <1>2 DEF Rows, Duties, dutyRank
<1>5. \A g \in Guilds : Leads(row, g) => op[t].kind = "Create" /\ op[t].guild = g /\ c = Of[t]
  BY <1>1 DEF Leads, Guild, Subject
<1>6. UNCHANGED <<status, member, op, actor, doubled>>
  BY DEF Insert, dbVars, historyVars
<1>7. \/ pc' = [pc EXCEPT ![t] = "rollback"] /\ memberW' = memberW
      \/ pc' = [pc EXCEPT ![t] = "info"] /\ memberW' = [memberW EXCEPT ![t][c] = row]
  BY DEF Insert
<1> HIDE DEF c, row
<1>8. CASE pc' = [pc EXCEPT ![t] = "rollback"] /\ memberW' = memberW
  BY <1>1, <1>3, <1>6, <1>8, Moves DEF Places
<1>9. CASE pc' = [pc EXCEPT ![t] = "info"] /\ memberW' = [memberW EXCEPT ![t][c] = row]
  <2>1. PICK p \in Places : p = "info"
    BY DEF Places
  <2>2. pc[t] # "idle" /\ p \notin Early /\ Fits(t, p) /\ Handed(t, p) /\ pc' = [pc EXCEPT ![t] = p]
    BY <1>1, <1>3, <1>9, <2>1 DEF Early
  <2> QED  BY <1>2, <1>4, <1>5, <1>6, <1>9, <2>2, Writes
<1> QED  BY <1>7, <1>8, <1>9

\* The statements on the other tables, and those that visit many rows.
LEMMA OthersOK ==
  ASSUME IndInv, NEW t \in Tasks,
         UpdateInfo(t) \/ CountMembers(t) \/ Snapshot(t) \/ ClearInfo(t) \/ EndOfRows(t) \/ UpdateGuild(t)
  PROVE  IndInv'
<1>1. /\ pc[t] \in {"info", "count", "recount", "infos", "infoRows", "members", "memberRows", "close"}
      /\ UNCHANGED <<status, member, op, actor, memberW, doubled>>
  BY DEF UpdateInfo, CountMembers, Snapshot, ClearInfo, EndOfRows, UpdateGuild, dbVars, workVars, historyVars
<1>2. PICK p \in {"count", "recount", "infoRows", "members", "memberRows", "close", "commit"} :
        pc' = [pc EXCEPT ![t] = p]
  <2>1. ASSUME ClearInfo(t) PROVE pc' = [pc EXCEPT ![t] = "infoRows"]
    BY <2>1 DEF ClearInfo, IndInv, TypeOK
  <2> QED  BY <2>1 DEF UpdateInfo, CountMembers, Snapshot, EndOfRows, UpdateGuild
<1>3. Fits(t, pc[t])
  BY DEF IndInv, HandlersOK
<1>4. Fits(t, p) /\ op[t].kind # "SetDuty"
  BY <1>1, <1>3 DEF Fits
<1>5. Handed(t, p)
  BY <1>4 DEF Handed, Claims
<1> QED  BY <1>1, <1>2, <1>4, <1>5, Moves DEF Places

\* A request that needs no transaction, or a transaction that is given up.
LEMMA QuietOK ==
  ASSUME IndInv, NEW t \in Tasks,
         Rollback(t) \/ Fails(t) \/ DeadlockDetected(t) \/ Put(t)
  PROVE  IndInv'
<1>1. Ends(t) /\ UNCHANGED <<status, member, doubled>>
  BY DEF Rollback, Fails, DeadlockDetected, Put, Aborts, dbVars, historyVars
<1> QED  BY <1>1, EndsQuietly

LEMMA AskOK == ASSUME IndInv, NEW t \in Tasks, Ask(t) PROVE IndInv'
<1> USE DEF IndInv
<1>1. UNCHANGED <<status, member, doubled>>
  BY DEF Ask, dbVars, historyVars
<1>2. CASE ~MayPut(t)
  BY <1>1, <1>2, EndsQuietly DEF Ask
<1>3. CASE MayPut(t)
  <2> DEFINE row == Membership(Of[t])
  <2>1. /\ pc[t] = "ask" /\ pc' = [pc EXCEPT ![t] = "put"] /\ actor' = [actor EXCEPT ![t] = row]
        /\ UNCHANGED <<op, memberW>>
    BY <1>3 DEF Ask
  <2>2. row = NoGuild \/ (row \in Rows /\ status[row.guild] = "active")
    BY GuildAssumption DEF Membership, TypeOK
  <2>3. op[t].kind \in {"Apply", "Reject"} /\ memberW[t] = Unwritten /\ op[t] # NoRequest
    BY <2>1 DEF HandlersOK, Fits
  <2> HIDE DEF row
  <2>4. TypeOK'
    BY <1>1, <2>1, <2>2 DEF TypeOK, Places
  <2>5. HandlersOK'
    BY <1>1, <2>1, <2>2, <2>3 DEF TypeOK, HandlersOK, Fits, Unwritten
  <2>6. FreshOK'
    BY <1>1, <2>1, <2>2, RowsApart DEF TypeOK, FreshOK
  <2>7. WritesOK'
    <3>1. \A c \in Commanders : memberW[t][c] = Same
      BY <2>3 DEF Unwritten
    <3> QED  BY <1>1, <2>1, <2>3, <3>1, RowsApart DEF TypeOK, WritesOK, Guild, Claims, Leads
  <2>8. LeadersOK'
    <3>1. \A u \in Tasks, g \in Guilds : Claims(u, g)' <=> Claims(u, g)
      BY <2>1, <2>3 DEF TypeOK, Claims, Leads
    <3>2. \A u \in Tasks : /\ pc'[u] = "idle" <=> pc[u] = "idle"
                           /\ pc'[u] \in {"promote", "commit"} => pc'[u] = pc[u]
      BY <2>1 DEF TypeOK
    <3> QED  BY <1>1, <2>1, <3>1, <3>2 DEF LeadersOK, Leads
  <2> QED  BY <2>4, <2>5, <2>6, <2>7, <2>8
<1> QED  BY <1>2, <1>3

\* What a transaction has written becomes visible.  The commander who hands over is
\* no longer in the way, and nobody else has claimed the guild.
LEMMA CommitOK == ASSUME IndInv, NEW t \in Tasks, Commit(t) PROVE IndInv'
<1> USE DEF IndInv
<1> DEFINE g == Guild(t)
<1>1. /\ pc[t] = "commit" /\ Fits(t, "commit") /\ op[t] \in Requests
      /\ op[t].kind = "Create" => g = op[t].guild /\ g \in Guilds
      /\ op[t].kind # "Create" => actor[t] \in Rows /\ g = actor[t].guild /\ g \in Guilds
  <2>1. pc[t] = "commit" /\ Fits(t, "commit") /\ op[t] \in Requests
    BY DEF Commit, HandlersOK, Fits, TypeOK
  <2> QED  BY <2>1, GuildAssumption DEF Fits, TypeOK, Guild, Rows
<1>2. \A c \in Commanders :
        member'[c] = IF memberW[t][c] = Same THEN member[c] ELSE memberW[t][c]
  BY DEF Commit
<1>3. status' = [status EXCEPT ![g] = CASE op[t].kind = "Create" -> "active"
                                        [] op[t].kind = "Dissolve" -> "dissolved"
                                        [] OTHER -> @]
  BY DEF Commit
<1>4. Ends(t) /\ doubled' = doubled
  BY DEF Commit
<1>5. /\ \A h \in Guilds : h # g => status'[h] = status[h]
      /\ status'[g] # "none"
      /\ status' \in [Guilds -> {"none", "active", "dissolved"}]
  <2>1. op[t].kind # "Create" => status[g] # "none"
    BY <1>1, RowsApart DEF FreshOK
  <2>2. CASE op[t].kind = "Create"
    BY <1>1, <1>3, <2>2 DEF TypeOK
  <2>3. CASE op[t].kind = "Dissolve"
    BY <1>1, <1>3, <2>3 DEF TypeOK
  <2>4. CASE op[t].kind \notin {"Create", "Dissolve"}
    <3>1. status' = status
      BY <1>3, <2>4 DEF TypeOK
    <3> QED  BY <1>1, <2>1, <2>4, <3>1 DEF TypeOK
  <2> QED  BY <2>2, <2>3, <2>4
<1>6. \A u \in Tasks \ {t} : /\ pc'[u] = pc[u] /\ op'[u] = op[u] /\ actor'[u] = actor[u]
                             /\ memberW'[u] = memberW[u]
  BY <1>4 DEF Ends, TypeOK
<1>7. pc'[t] = "idle" /\ op'[t] = NoRequest /\ actor'[t] = NoGuild /\ memberW'[t] = Unwritten
  BY <1>4 DEF Ends, TypeOK
<1> HIDE DEF g
<1>8. TypeOK'
  <2>1. member' \in [Commanders -> Rows \cup {NoGuild}]
    BY DEF Commit, TypeOK
  <2> QED  BY <1>4, <1>5, <2>1, RowsApart, GuildAssumption DEF Ends, TypeOK, Places, Unwritten
<1>9. HandlersOK'
  BY <1>6, <1>7, RowsApart DEF HandlersOK, Fits, Unwritten
<1>10. FreshOK'
  <2>1. ASSUME NEW u \in Tasks, op'[u].kind = "Create"
        PROVE  /\ status'[op'[u].guild] = "none"
               /\ \A v \in Tasks \ {u} : op'[v].kind = "Create" => op'[v].guild # op'[u].guild
    <3>1. u # t /\ op[u] \in Requests /\ op[u].kind = "Create"
      BY <1>6, <1>7, <2>1, RowsApart DEF TypeOK
    <3>2. status[op[u].guild] = "none" /\ op[u].guild \in Guilds
      BY <3>1, GuildAssumption DEF FreshOK
    <3>3. op[u].guild # g
      BY <1>1, <3>1, <3>2, RowsApart DEF FreshOK
    <3> QED  BY <1>5, <1>6, <1>7, <3>1, <3>2, <3>3, RowsApart DEF FreshOK
  <2>2. ASSUME NEW c \in Commanders, member'[c] # NoGuild PROVE status'[member'[c].guild] # "none"
    <3>1. CASE memberW[t][c] = Same
      <4>1. member'[c] = member[c] /\ member[c].guild \in Guilds
        BY <1>2, <2>2, <3>1 DEF TypeOK, Rows
      <4> QED  BY <1>5, <2>2, <4>1 DEF FreshOK
    <3>2. CASE memberW[t][c] # Same
      <4>1. member'[c] = memberW[t][c] /\ memberW[t][c] \in Rows
        BY <1>2, <2>2, <3>2 DEF TypeOK
      <4> QED  BY <1>5, <4>1 DEF WritesOK, g
    <3> QED  BY <3>1, <3>2
  <2>3. ASSUME NEW u \in Tasks, actor'[u] # NoGuild PROVE status'[actor'[u].guild] # "none"
    <3>1. actor'[u] = actor[u] /\ actor[u].guild \in Guilds
      BY <1>6, <1>7, <2>3 DEF TypeOK, Rows
    <3> QED  BY <1>5, <2>3, <3>1 DEF FreshOK
  <2> QED  BY <2>1, <2>2, <2>3 DEF FreshOK
<1>11. WritesOK'
  <2>1. \A c \in Commanders : memberW'[t][c] = Same
    BY <1>7 DEF Unwritten
  <2> QED  BY <1>6, <2>1, RowsApart DEF WritesOK, Guild, Claims, Leads
<1>12. LeadersOK'
  <2> SUFFICES ASSUME ~doubled PROVE LeadersOK'
    BY <1>4 DEF LeadersOK
  <2>1. \A u \in Tasks, h \in Guilds : Claims(u, h)' <=> u # t /\ Claims(u, h)
    BY <1>6, <1>7, RowsApart DEF Claims, Leads
  <2>2. ASSUME NEW h \in Guilds, NEW c \in Commanders, Leads(memberW[t][c], h)
        PROVE  /\ \A u \in Tasks \ {t} : ~Claims(u, h)
               /\ \A d \in Commanders : Leads(member'[d], h) => d = c
    <3>1. CASE op[t].kind = "Create"
      <4>1. op[t].guild = h /\ c = Of[t]
        BY <2>2, <3>1 DEF WritesOK, Claims
      <4>2. status[h] = "none"
        BY <3>1, <4>1 DEF FreshOK
      <4>3. \A u \in Tasks : ~Claims(u, h)
        BY <4>2, RowsApart DEF FreshOK, Claims, Leads
      <4>4. \A d \in Commanders : ~Leads(member[d], h)
        BY <4>2, RowsApart DEF FreshOK, Leads
      <4>5. \A d \in Commanders : Leads(memberW[t][d], h) => d = c
        BY <3>1, <4>1 DEF WritesOK, Claims
      <4> QED  BY <1>2, <4>3, <4>4, <4>5
    <3>2. CASE op[t].kind # "Create"
      <4>1. Claims(t, h) /\ c = op[t].who /\ op[t].duty = "Commander"
        BY <2>2, <3>2 DEF WritesOK
      <4>2. \A u \in Tasks \ {t} : ~Claims(u, h)
        BY <4>1 DEF LeadersOK
      <4>3. memberW[t][Of[t]] # Same \/ ~Leads(member[Of[t]], h)
        BY <1>1, <4>1 DEF LeadersOK
      <4>4. \A d \in Commanders : Leads(member[d], h) => d = Of[t]
        BY <4>1 DEF LeadersOK
      <4>5. \A d \in Commanders : Leads(memberW[t][d], h) => d = c
        BY <3>2, <4>1 DEF WritesOK
      <4> QED  BY <1>2, <4>2, <4>3, <4>4, <4>5
    <3> QED  BY <3>1, <3>2
  <2>3. \A h \in Guilds, c \in Commanders :
          Leads(member'[c], h) => Leads(member[c], h) \/ Leads(memberW[t][c], h)
    BY <1>2
  <2>4. \A h \in Guilds : \A c, d \in Commanders : Leads(member'[c], h) /\ Leads(member'[d], h) => c = d
    BY <2>2, <2>3 DEF LeadersOK
  <2>5. \A h \in Guilds : \A u \in Tasks \ {t} : \A c \in Commanders :
          Claims(u, h) /\ Leads(member'[c], h) => c = Of[u]
    BY <2>2, <2>3 DEF LeadersOK
  <2>6. ASSUME NEW h \in Guilds, NEW u \in Tasks \ {t}, Claims(u, h), op[u].duty = "Commander",
               pc[u] \in {"promote", "commit"}
        PROVE  memberW[u][Of[u]] # Same \/ ~Leads(member'[Of[u]], h)
    <3>1. Of[u] \in Commanders
      BY GuildAssumption
    <3> QED  BY <2>2, <2>3, <2>6, <3>1 DEF LeadersOK
  <2>7. \A u, v \in Tasks : Of[u] = Of[v] /\ pc'[u] # "idle" /\ pc'[v] # "idle" => u = v
    BY <1>6, <1>7 DEF LeadersOK
  <2>8. \A h \in Guilds : \A u, v \in Tasks : Claims(u, h)' /\ Claims(v, h)' => u = v
    BY <2>1 DEF LeadersOK
  <2>9. \A h \in Guilds : \A u \in Tasks : \A c \in Commanders :
          Claims(u, h)' /\ Leads(member'[c], h) => c = Of[u]
    BY <2>1, <2>5
  <2>10. \A h \in Guilds : \A u \in Tasks :
           Claims(u, h)' /\ op'[u].duty = "Commander" /\ pc'[u] \in {"promote", "commit"}
           => memberW'[u][Of[u]] # Same \/ ~Leads(member'[Of[u]], h)
    BY <1>6, <2>1, <2>6
  <2> QED  BY <2>4, <2>7, <2>8, <2>9, <2>10 DEF LeadersOK, Leads
<1> QED  BY <1>8, <1>9, <1>10, <1>11, <1>12

-----------------------------------------------------------------------------
(* The theorems.                                                           *)

LEMMA StepOK == ASSUME IndInv, NEW t \in Tasks, Step(t) PROVE IndInv'
BY ConnectOK, ReadActorOK, ReadTargetOK, ReadGuildOK, DemoteOK, PromoteOK, DeleteOK, InsertOK,
   OthersOK, DeleteMemberOK, CommitOK, QuietOK, AskOK
DEF Step

\* Whatever the handlers do, their claims are exclusive and their writes in order.
THEOREM Invariance == Spec => []IndInv
<1>1. Init => IndInv
  BY InitOK
<1>2. IndInv /\ [Next]_vars => IndInv'
  <2> SUFFICES ASSUME IndInv, [Next]_vars PROVE IndInv'
    OBVIOUS
  <2>1. CASE Next
    <3>1. ASSUME NEW t \in Tasks, Begin(t) PROVE IndInv'
      BY <3>1, BeginOK
    <3>2. ASSUME NEW t \in Tasks, Step(t) PROVE IndInv'
      BY <3>2, StepOK
    <3>3. ASSUME NEW t \in Tasks, Fails(t) \/ DeadlockDetected(t) PROVE IndInv'
      BY <3>3, QuietOK
    <3>4. ASSUME NEW c \in Commanders, CooldownEnds(c) PROVE IndInv'
      <4>1. UNCHANGED <<status, member, pc, op, actor, memberW, doubled>>
        BY <3>4 DEF CooldownEnds, workVars, historyVars
      <4> QED  BY <4>1 DEF IndInv, TypeOK, HandlersOK, Fits, FreshOK, WritesOK, LeadersOK,
                           Guild, Claims, Leads
    <3> QED  BY <2>1, <3>1, <3>2, <3>3, <3>4 DEF Next
  <2>2. CASE UNCHANGED vars
    <3>1. UNCHANGED <<status, member, pc, op, actor, memberW, doubled>>
      BY <2>2 DEF vars, dbVars, workVars, historyVars
    <3> QED  BY <3>1 DEF IndInv, TypeOK, HandlersOK, Fits, FreshOK, WritesOK, LeadersOK,
                         Guild, Claims, Leads
  <2> QED  BY <2>1, <2>2
<1> QED  BY <1>1, <1>2, PTL DEF Spec

\* A guild never has two commanders, unless two sessions of one have been busy at once.
THEOREM OneCommander == Spec => []AtMostOneCommander
<1>1. IndInv => AtMostOneCommander
  BY DEF IndInv, LeadersOK, AtMostOneCommander, Leaders
<1> QED  BY <1>1, Invariance, PTL

-----------------------------------------------------------------------------
(* What holds while operations overlap.  A step of one handler that        *)
(* commits nothing has to be looked at for that handler only.              *)

\* All but t are where they were.
OthersStay(t) ==
  \A u \in Tasks \ {t} :
    /\ pc'[u] = pc[u] /\ op'[u] = op[u] /\ actor'[u] = actor[u] /\ memberW'[u] = memberW[u]
    /\ left'[u] = left[u] /\ counted'[u] = counted[u] /\ (u \in outrun' <=> u \in outrun)

NothingCommitted == UNCHANGED <<status, count, member, miscounted>> /\ (doubled => doubled')

MetGrows == \A g \in Guilds : met[g] \subseteq met'[g]

\* A handler that acts for the guild that its commander belongs to.
LEMMA GuildOK ==
  ASSUME IndInv, NEW t \in Tasks, op[t].kind # "Create",
         pc[t] \notin {"idle", "connect", "ask", "put", "actor", "rollback"}
  PROVE  actor[t] \in Rows /\ Guild(t) = actor[t].guild /\ Guild(t) \in Guilds
<1>1. actor[t] \in Rows
  BY DEF IndInv, TypeOK, HandlersOK, Fits
<1> QED  BY <1>1 DEF Guild, Rows

LEMMA OthersKeep ==
  ASSUME IndInv, OverlapInv, NEW t \in Tasks, NothingCommitted, MetGrows, OthersStay(t),
         NEW u \in Tasks \ {t}
  PROVE  TaskOK(u)'
<1> USE DEF OthersStay, NothingCommitted
<1>1. TaskOK(u)
  BY DEF OverlapInv
<1>2. Guild(u)' = Guild(u) /\ Subject(u)' = Subject(u)
  BY DEF Guild, Subject
<1>3. Placed(u)' /\ Entered(u)'
  <2>1. actor[u] # NoGuild => actor[u].guild \in Guilds
    BY DEF IndInv, TypeOK, Rows
  <2> QED  BY <1>1, <2>1 DEF TaskOK, Placed, Entered, Leads, MetGrows
<1>4. Locked(u)'
  BY <1>1, <1>2 DEF TaskOK, Locked, Departs, HandsOver, Members
<1>5. CountFits(u)'
  <2>1. SeenMembers(u)' = SeenMembers(u)
    BY <1>2 DEF SeenMembers, Members
  <2> QED  BY <1>1, <2>1 DEF TaskOK, CountFits
<1>6. Emptied(u)'
  BY <1>1, <1>2, GuildOK DEF TaskOK, Emptied, Members, MetGrows
<1>7. Received(u)'
  BY <1>1, <1>2, GuildOK DEF TaskOK, Received, HandsOver, Members, Leads, MetGrows
<1>8. Leaves(u)'
  BY <1>1, <1>2, GuildOK DEF TaskOK, Leaves, Departs, Leads, MetGrows
<1> QED  BY <1>3, <1>4, <1>5, <1>6, <1>7, <1>8 DEF TaskOK

LEMMA Local ==
  ASSUME IndInv, OverlapInv, NEW t \in Tasks, NothingCommitted, MetGrows, OthersStay(t),
         RecordsOK', TaskOK(t)',
         \A u \in Tasks : MetOK(t, u)' /\ MetOK(u, t)',
         \A u \in Tasks \ {t} : \A c \in Commanders : memberW'[t][c] # Same => memberW[u][c] = Same
  PROVE  OverlapInv'
<1>1. \A u \in Tasks : TaskOK(u)'
  BY OthersKeep
<1>2. ASSUME NEW u \in Tasks, NEW v \in Tasks
      PROVE  MetOK(u, v)'
  <2>1. CASE u # t /\ v # t
    <3>1. MetOK(u, v)
      BY DEF OverlapInv
    <3>2. Subject(v)' = Subject(v)
      BY <2>1 DEF Subject, OthersStay
    <3>3. actor[u] # NoGuild => actor[u].guild \in Guilds
      BY DEF IndInv, TypeOK, Rows
    <3> QED  BY <2>1, <3>1, <3>2, <3>3 DEF MetOK, OthersStay, HandsOver, Departs, MetGrows
  <2> QED  BY <2>1
<1>3. LocksApart'
  BY DEF OverlapInv, LocksApart, OthersStay
<1>4. CountIsExact' /\ NeverHeadless'
  BY DEF OverlapInv, NothingCommitted, CountIsExact, NeverHeadless, Members, Leaders, Leads, MetGrows
<1>5. NobodyStranded'
  <2>1. \A c \in Commanders : member[c] # NoGuild => member[c].guild \in Guilds
    BY DEF IndInv, TypeOK, Rows
  <2> QED  BY <2>1 DEF OverlapInv, NothingCommitted, NobodyStranded, MetGrows
<1> QED  BY <1>1, <1>2, <1>3, <1>4, <1>5 DEF OverlapInv

\* A handler that goes on to p and writes no membership.
LEMMA MovesLocal ==
  ASSUME IndInv, OverlapInv, NEW t \in Tasks, NothingCommitted, met' = met, OthersStay(t),
         op' = op, actor' = actor, memberW' = memberW, RecordsOK',
         Placed(t)', CountFits(t)', Emptied(t)', Received(t)', Leaves(t)'
  PROVE  OverlapInv'
<1>1. Guild(t)' = Guild(t) /\ \A u \in Tasks : Subject(u)' = Subject(u)
  BY DEF Guild, Subject
<1>2. TaskOK(t)'
  <2>1. Locked(t) /\ Entered(t)
    BY DEF OverlapInv, TaskOK
  <2>2. Locked(t)' /\ Entered(t)'
    BY <1>1, <2>1 DEF Locked, Entered, Departs, HandsOver, Members, NothingCommitted
  <2> QED  BY <2>2 DEF TaskOK
<1>3. \A u, v \in Tasks : MetOK(u, v)'
  BY <1>1 DEF OverlapInv, MetOK, HandsOver, Departs
<1>4. \A u \in Tasks \ {t} : \A c \in Commanders : memberW'[t][c] # Same => memberW[u][c] = Same
  BY DEF OverlapInv, LocksApart
<1> QED  BY <1>2, <1>3, <1>4, Local DEF MetGrows

\* A handler that goes on to p and writes a membership that nobody else has written.
LEMMA WritesLocal ==
  ASSUME IndInv, OverlapInv, NEW t \in Tasks, NothingCommitted, met' = met, OthersStay(t),
         op' = op, actor' = actor, RecordsOK', NEW c \in Commanders, NEW row,
         ~MemberLocked(t, c), memberW' = [memberW EXCEPT ![t][c] = row],
         Placed(t)', Locked(t)', CountFits(t)', Emptied(t)', Received(t)', Leaves(t)'
  PROVE  OverlapInv'
<1>1. \A u \in Tasks : Subject(u)' = Subject(u)
  BY DEF Subject
<1>2. TaskOK(t)'
  <2>1. Entered(t)'
    BY DEF OverlapInv, TaskOK, Entered, NothingCommitted
  <2> QED  BY <2>1 DEF TaskOK
<1>3. \A u, v \in Tasks : MetOK(u, v)'
  BY <1>1 DEF OverlapInv, MetOK, HandsOver, Departs
<1>4. \A u \in Tasks \ {t} : \A d \in Commanders : memberW'[t][d] # Same => memberW[u][d] = Same
  <2>1. \A d \in Commanders : d # c => memberW'[t][d] = memberW[t][d]
    BY DEF IndInv, TypeOK
  <2> QED  BY <2>1 DEF OverlapInv, LocksApart, MemberLocked
<1> QED  BY <1>2, <1>3, <1>4, Local DEF MetGrows

-----------------------------------------------------------------------------
(* The steps, once more.                                                   *)

LEMMA InitOverlap == ASSUME Init PROVE OverlapInv
<1> USE GuildAssumption, RowsApart DEF Init
<1>1. RecordsOK
  <2>1. \A g \in Guilds : Cardinality(Members(g)) \in Nat
    <3>1. \A g \in Guilds : IsFiniteSet(Members(g))
      BY FS_Subset DEF Members
    <3> QED  BY <3>1, FS_CardinalityType
  <2> QED  BY <2>1 DEF RecordsOK
<1>2. ASSUME NEW t \in Tasks PROVE TaskOK(t)
  <2>1. pc[t] = "idle" /\ op[t].kind = "none" /\ \A c \in Commanders : memberW[t][c] = Same
    BY DEF Unwritten
  <2> QED  BY <2>1 DEF TaskOK, Placed, Locked, CountFits, Emptied, Entered, Received, Leaves, HandsOver, Departs
<1>3. \A t, u \in Tasks : MetOK(t, u)
  BY DEF MetOK
<1>4. LocksApart
  BY DEF LocksApart, Unwritten
<1>5. CountIsExact
  BY DEF CountIsExact
<1>6. NobodyStranded
  BY DEF NobodyStranded
<1>7. NeverHeadless
  BY DEF NeverHeadless, Leaders, Leads
<1> QED  BY <1>1, <1>2, <1>3, <1>4, <1>5, <1>6, <1>7 DEF OverlapInv

\* A request is received; a handler ends without having changed the database.
LEMMA BeginOverlap == ASSUME IndInv, OverlapInv, NEW t \in Tasks, Begin(t) PROVE OverlapInv'
<1>1. /\ actor'[t] = NoGuild /\ pc'[t] \in {"connect", "ask"}
      /\ \A c \in Commanders : memberW'[t][c] = Same
  BY DEF Begin, IndInv, TypeOK, HandlersOK, Fits, Unwritten, dbVars
<1>2. RecordsOK'
  BY DEF OverlapInv, RecordsOK, Begin, dbVars
<1>3. NothingCommitted /\ met' = met /\ OthersStay(t)
  <2>1. status' = status /\ count' = count /\ member' = member /\ miscounted' = miscounted /\ met' = met
        /\ (doubled => doubled')
    BY DEF Begin, dbVars
  <2>2. OthersStay(t)
    BY DEF Begin, OthersStay, IndInv, TypeOK
  <2> QED  BY <2>1, <2>2 DEF NothingCommitted
<1>4. TaskOK(t)'
  BY <1>1 DEF TaskOK, Placed, Locked, CountFits, Emptied, Entered, Received, Leaves
<1>5. \A u \in Tasks : MetOK(t, u)' /\ MetOK(u, t)'
  BY <1>1 DEF MetOK
<1> QED  BY <1>1, <1>2, <1>3, <1>4, <1>5, Local DEF MetGrows

LEMMA EndsOverlap ==
  ASSUME IndInv, OverlapInv, NEW t \in Tasks, Ends(t), NothingCommitted, met' = met,
         outrun' \in {outrun, outrun \ {t}}
  PROVE  OverlapInv'
<1>1. /\ actor'[t] = NoGuild /\ pc'[t] = "idle"
      /\ \A c \in Commanders : memberW'[t][c] = Same
  BY DEF Ends, IndInv, TypeOK, Unwritten
<1>2. RecordsOK'
  BY DEF OverlapInv, RecordsOK, Ends, NothingCommitted
<1>3. OthersStay(t)
  BY DEF Ends, OthersStay, IndInv, TypeOK, OverlapInv, RecordsOK
<1>4. TaskOK(t)'
  BY <1>1 DEF TaskOK, Placed, Locked, CountFits, Emptied, Entered, Received, Leaves
<1>5. \A u \in Tasks : MetOK(t, u)' /\ MetOK(u, t)'
  BY <1>1 DEF MetOK
<1> QED  BY <1>1, <1>2, <1>3, <1>4, <1>5, Local DEF MetGrows

LEMMA QuietOverlap ==
  ASSUME IndInv, OverlapInv, NEW t \in Tasks,
         Rollback(t) \/ Fails(t) \/ DeadlockDetected(t) \/ Put(t)
  PROVE  OverlapInv'
<1>1. Ends(t) /\ NothingCommitted /\ met' = met /\ outrun' \in {outrun, outrun \ {t}}
  BY DEF Rollback, Fails, DeadlockDetected, Put, Aborts, NothingCommitted, dbVars, historyVars
<1> QED  BY <1>1, EndsOverlap

LEMMA AskOverlap == ASSUME IndInv, OverlapInv, NEW t \in Tasks, Ask(t) PROVE OverlapInv'
<1>1. NothingCommitted /\ met' = met /\ outrun' = outrun
  BY DEF Ask, NothingCommitted, dbVars, historyVars
<1>2. CASE ~MayPut(t)
  BY <1>1, <1>2, EndsOverlap DEF Ask
<1>3. CASE MayPut(t)
  <2>1. /\ pc[t] = "ask" /\ pc' = [pc EXCEPT ![t] = "put"]
        /\ UNCHANGED <<op, left, counted, memberW>>
        /\ actor' = [actor EXCEPT ![t] = Membership(Of[t])]
    BY <1>3 DEF Ask
  <2>2. op[t].kind \in {"Apply", "Reject"} /\ memberW[t] = Unwritten
    BY <2>1 DEF IndInv, HandlersOK, Fits
  <2>3. OthersStay(t)
    BY <1>1, <2>1 DEF OthersStay, IndInv, TypeOK
  <2>4. RecordsOK'
    BY <1>1, <2>1 DEF OverlapInv, RecordsOK, NothingCommitted
  <2>5. pc'[t] = "put" /\ \A c \in Commanders : memberW'[t][c] = Same
    BY <2>1, <2>2 DEF IndInv, TypeOK, Unwritten
  <2>6. TaskOK(t)'
    BY <2>1, <2>2, <2>5 DEF TaskOK, Placed, Locked, CountFits, Emptied, Entered, Received, Leaves, HandsOver, Departs
  <2>7. \A u \in Tasks : MetOK(t, u)' /\ MetOK(u, t)'
    BY <2>1, <2>2 DEF MetOK, HandsOver, Departs
  <2> QED  BY <1>1, <2>3, <2>4, <2>5, <2>6, <2>7, Local DEF MetGrows
<1> QED  BY <1>2, <1>3

LEMMA ConnectOverlap == ASSUME IndInv, OverlapInv, NEW t \in Tasks, Connect(t) PROVE OverlapInv'
<1>1. pc'[t] = "actor" /\ UNCHANGED <<dbVars, workVars, historyVars>>
  BY DEF Connect, IndInv, TypeOK
<1>2. NothingCommitted /\ met' = met /\ OthersStay(t) /\ RecordsOK'
  BY DEF Connect, NothingCommitted, OthersStay, OverlapInv, RecordsOK, IndInv, TypeOK, dbVars, workVars, historyVars
<1>3. Placed(t)' /\ CountFits(t)' /\ Emptied(t)' /\ Received(t)' /\ Leaves(t)'
  BY <1>1 DEF Placed, CountFits, Emptied, Received, Leaves
<1> QED  BY <1>1, <1>2, <1>3, MovesLocal DEF workVars

\* The other membership is read: a handover finds a member, and who is fired does not
\* lead.
LEMMA ReadTargetOverlap == ASSUME IndInv, OverlapInv, NEW t \in Tasks, ReadTarget(t) PROVE OverlapInv'
<1> DEFINE row == Membership(op[t].who)
           p == IF TargetMay(t, row) THEN AfterTarget(op[t]) ELSE "rollback"
<1>1. /\ pc[t] = "target" /\ pc'[t] = p
      /\ UNCHANGED <<dbVars, op, actor, left, counted, memberW, infoW, historyVars>>
  BY DEF ReadTarget, IndInv, TypeOK
<1>2. NothingCommitted /\ met' = met /\ OthersStay(t) /\ RecordsOK'
  BY DEF ReadTarget, NothingCommitted, OthersStay, OverlapInv, RecordsOK, IndInv, TypeOK, dbVars, historyVars
<1>3. /\ op[t].kind \in {"SetDuty", "Fire", "Accept"} /\ op[t] \in Requests
      /\ actor[t] \in Rows /\ Guild(t) = actor[t].guild
  BY <1>1 DEF IndInv, TypeOK, HandlersOK, Fits, Guild
<1>4. op[t].who \in Commanders /\ op[t].duty \in Duties
  BY <1>3, GuildAssumption
<1>5. /\ p \in {"delete", "insert", "second", "demote", "promote", "rollback"}
      /\ p = "delete" => op[t].kind = "Fire" /\ DutiesFit(t, row)
      /\ p \in {"demote", "promote"} => op[t].kind = "SetDuty" /\ DutiesFit(t, row)
      /\ p = "demote" => op[t].duty = "Commander"
  BY <1>3, <1>4 DEF AfterTarget, TargetMay, Duties, dutyRank
<1>6. DutiesFit(t, row) => row = member[op[t].who] /\ op[t].who \in Members(Guild(t))
  BY <1>3, <1>4 DEF DutiesFit, Membership, Members
<1> HIDE DEF p
<1>7. Guild(t)' = Guild(t) /\ Subject(t)' = Subject(t) /\ Members(Guild(t))' = Members(Guild(t))
  BY <1>1 DEF Guild, Subject, Members, dbVars
<1>8. Placed(t)' /\ CountFits(t)' /\ Emptied(t)'
  BY <1>1, <1>3, <1>5 DEF Placed, CountFits, Emptied
<1>9. Received(t)'
  BY <1>1, <1>5, <1>6, <1>7 DEF Received, HandsOver
<1>10. Leaves(t)'
  <2> SUFFICES ASSUME Departs(t)', pc'[t] \in {"delete", "info", "count", "recount", "commit"}
               PROVE  ~Leads(member'[Subject(t)'], Guild(t)')
    BY DEF Leaves
  <2>1. op[t].kind = "Fire" /\ DutiesFit(t, row)
    BY <1>1, <1>5
  <2>2. dutyRank[actor[t].duty] < dutyRank[row.duty]
    BY <2>1 DEF DutiesFit
  <2>3. row.duty # "Commander"
    <3>1. actor[t].duty \in Duties
      BY <1>3 DEF Rows
    <3> QED  BY <2>2, <3>1 DEF Duties, dutyRank
  <2>4. Subject(t) = op[t].who
    BY <2>1 DEF Subject
  <2> QED  BY <1>1, <1>6, <1>7, <2>1, <2>3, <2>4 DEF Leads, dbVars
<1> QED  BY <1>1, <1>2, <1>8, <1>9, <1>10, MovesLocal

LEMMA ReadGuildOverlap == ASSUME IndInv, OverlapInv, NEW t \in Tasks, ReadGuild(t) PROVE OverlapInv'
<1>1. /\ pc[t] = "second" /\ pc'[t] \in {"rollback", "target", "promote"}
      /\ pc'[t] = "promote" => op[t].kind # "Accept"
      /\ UNCHANGED <<dbVars, workVars, historyVars>>
  BY DEF ReadGuild, IndInv, TypeOK
<1>2. NothingCommitted /\ met' = met /\ OthersStay(t) /\ RecordsOK'
  BY DEF ReadGuild, NothingCommitted, OthersStay, OverlapInv, RecordsOK, IndInv, TypeOK, dbVars, workVars, historyVars
<1>3. op[t].kind \in {"SetDuty", "Accept"} /\ ~HandsOver(t)
  BY <1>1 DEF IndInv, HandlersOK, Fits, HandsOver
<1>4. Placed(t)' /\ CountFits(t)' /\ Emptied(t)' /\ Received(t)' /\ Leaves(t)'
  BY <1>1, <1>3 DEF Placed, CountFits, Emptied, Received, Leaves, HandsOver, Departs, workVars
<1> QED  BY <1>1, <1>2, <1>4, MovesLocal DEF workVars

\* The statements on the other tables, and those that visit many rows.
LEMMA UpdateInfoOverlap == ASSUME IndInv, OverlapInv, NEW t \in Tasks, UpdateInfo(t) PROVE OverlapInv'
<1>1. /\ pc[t] = "info" /\ pc'[t] = IF op[t].kind = "Create" THEN "commit" ELSE "count"
      /\ UNCHANGED <<dbVars, op, actor, target, left, counted, memberW, historyVars>>
  BY DEF UpdateInfo, IndInv, TypeOK
<1>2. NothingCommitted /\ met' = met /\ OthersStay(t) /\ RecordsOK'
  BY DEF UpdateInfo, NothingCommitted, OthersStay, OverlapInv, RecordsOK, IndInv, TypeOK, dbVars, historyVars
<1>3. Placed(t) /\ Leaves(t) /\ op[t].kind \in {"Fire", "Quit", "Accept", "Create"}
  BY <1>1 DEF OverlapInv, TaskOK, Placed
<1>4. Guild(t)' = Guild(t) /\ Subject(t)' = Subject(t)
  BY <1>1 DEF Guild, Subject
<1>5. Placed(t)'
  BY <1>1, <1>3 DEF Placed, Leads
<1>6. CountFits(t)' /\ Emptied(t)' /\ Received(t)'
  BY <1>1, <1>3 DEF CountFits, Emptied, Received, HandsOver
<1>7. Leaves(t)'
  BY <1>1, <1>2, <1>3, <1>4 DEF Leaves, Departs, Leads, dbVars
<1> QED  BY <1>1, <1>2, <1>5, <1>6, <1>7, MovesLocal

LEMMA CountMembersOverlap == ASSUME IndInv, OverlapInv, NEW t \in Tasks, CountMembers(t) PROVE OverlapInv'
<1>1. /\ pc[t] = "count" /\ pc'[t] = "recount"
      /\ UNCHANGED <<dbVars, op, actor, target, left, memberW, infoW, ops, doubled, met, miscounted>>
      /\ counted' = [counted EXCEPT ![t] = Cardinality(SeenMembers(t))] /\ outrun' = outrun \ {t}
  BY DEF CountMembers, IndInv, TypeOK
<1>2. Cardinality(SeenMembers(t)) \in Nat
  <2>1. IsFiniteSet(SeenMembers(t))
    BY FS_Subset, GuildAssumption DEF SeenMembers
  <2> QED  BY <2>1, FS_CardinalityType
<1>3. RecordsOK'
  BY <1>1, <1>2 DEF OverlapInv, RecordsOK, dbVars
<1>4. NothingCommitted /\ met' = met /\ OthersStay(t)
  BY <1>1 DEF CountMembers, NothingCommitted, OthersStay, OverlapInv, RecordsOK, IndInv, TypeOK, dbVars
<1>5. Leaves(t) /\ op[t].kind \in {"Fire", "Quit", "Accept"}
  BY <1>1 DEF OverlapInv, TaskOK, Placed
<1>6. Guild(t)' = Guild(t) /\ Subject(t)' = Subject(t)
  BY <1>1 DEF Guild, Subject
<1>7. CountFits(t)'
  <2>1. SeenMembers(t)' = SeenMembers(t)
    BY <1>1, <1>6 DEF SeenMembers, Members, dbVars
  <2>2. counted'[t] = Cardinality(SeenMembers(t))
    BY <1>1 DEF OverlapInv, RecordsOK
  <2> QED  BY <2>1, <2>2 DEF CountFits
<1>8. Placed(t)' /\ Emptied(t)' /\ Received(t)'
  BY <1>1, <1>5 DEF Placed, Emptied, Received, HandsOver
<1>9. Leaves(t)'
  BY <1>1, <1>4, <1>5, <1>6 DEF Leaves, Departs, Leads, dbVars
<1> QED  BY <1>1, <1>3, <1>4, <1>7, <1>8, <1>9, MovesLocal

\* Every row that there is has its turn.
LEMMA SnapshotOverlap == ASSUME IndInv, OverlapInv, NEW t \in Tasks, Snapshot(t) PROVE OverlapInv'
<1>1. /\ pc[t] \in {"infos", "members"} /\ pc'[t] = IF pc[t] = "infos" THEN "infoRows" ELSE "memberRows"
      /\ UNCHANGED <<dbVars, op, actor, target, counted, memberW, infoW, historyVars>>
  BY DEF Snapshot, IndInv, TypeOK
<1>2. NothingCommitted /\ met' = met /\ OthersStay(t) /\ RecordsOK'
  <2>1. left' \in [Tasks -> SUBSET Commanders]
    BY DEF Snapshot, Members, OverlapInv, RecordsOK
  <2>2. NothingCommitted /\ met' = met /\ OthersStay(t)
    BY <1>1 DEF Snapshot, NothingCommitted, OthersStay, OverlapInv, RecordsOK, IndInv, TypeOK, dbVars, historyVars
  <2> QED  BY <1>1, <2>1, <2>2 DEF OverlapInv, RecordsOK, dbVars, historyVars
<1>3. op[t].kind = "Dissolve"
  BY <1>1 DEF OverlapInv, TaskOK, Placed
<1>4. Guild(t)' = Guild(t) /\ Members(Guild(t))' = Members(Guild(t))
  BY <1>1 DEF Guild, Members, dbVars
<1>5. Emptied(t)'
  <2>1. pc[t] = "members" => left'[t] = Members(Guild(t))
    BY DEF Snapshot, OverlapInv, RecordsOK
  <2> QED  BY <1>1, <1>4, <2>1 DEF Emptied
<1>6. Placed(t)' /\ CountFits(t)' /\ Received(t)' /\ Leaves(t)'
  BY <1>1, <1>3 DEF Placed, CountFits, Received, Leaves, HandsOver, Departs
<1> QED  BY <1>1, <1>2, <1>5, <1>6, MovesLocal

LEMMA ClearInfoOverlap == ASSUME IndInv, OverlapInv, NEW t \in Tasks, ClearInfo(t) PROVE OverlapInv'
<1>1. /\ pc[t] = "infoRows" /\ UNCHANGED <<dbVars, pc, op, actor, target, counted, memberW, historyVars>>
  BY DEF ClearInfo
<1>2. NothingCommitted /\ met' = met /\ OthersStay(t) /\ RecordsOK'
  <2>1. left' \in [Tasks -> SUBSET Commanders]
    BY DEF ClearInfo, OverlapInv, RecordsOK
  <2>2. NothingCommitted /\ met' = met /\ OthersStay(t)
    BY <1>1 DEF ClearInfo, NothingCommitted, OthersStay, OverlapInv, RecordsOK, dbVars, historyVars
  <2> QED  BY <1>1, <2>1, <2>2 DEF OverlapInv, RecordsOK, dbVars, historyVars
<1>3. op[t].kind = "Dissolve"
  BY <1>1 DEF OverlapInv, TaskOK, Placed
<1>4. Placed(t)' /\ CountFits(t)' /\ Emptied(t)' /\ Received(t)' /\ Leaves(t)'
  BY <1>1, <1>3 DEF Placed, CountFits, Emptied, Received, Leaves, HandsOver, Departs
<1> QED  BY <1>1, <1>2, <1>4, MovesLocal

\* ... and has had it when the statement ends.
LEMMA EndOfRowsOverlap == ASSUME IndInv, OverlapInv, NEW t \in Tasks, EndOfRows(t) PROVE OverlapInv'
<1>1. /\ pc[t] \in {"infoRows", "memberRows"} /\ pc'[t] = IF pc[t] = "infoRows" THEN "members" ELSE "close"
      /\ left[t] = {} /\ UNCHANGED <<dbVars, workVars, historyVars>>
  BY DEF EndOfRows, IndInv, TypeOK
<1>2. NothingCommitted /\ met' = met /\ OthersStay(t) /\ RecordsOK'
  BY DEF EndOfRows, NothingCommitted, OthersStay, OverlapInv, RecordsOK, IndInv, TypeOK, dbVars, workVars, historyVars
<1>3. op[t].kind = "Dissolve" /\ Emptied(t)
  BY <1>1 DEF OverlapInv, TaskOK, Placed
<1>4. Guild(t)' = Guild(t) /\ Members(Guild(t))' = Members(Guild(t))
  BY <1>1 DEF Guild, Members, dbVars, workVars
<1>5. Emptied(t)'
  BY <1>1, <1>2, <1>3, <1>4 DEF Emptied, workVars
<1>6. Placed(t)' /\ CountFits(t)' /\ Received(t)' /\ Leaves(t)'
  BY <1>1, <1>3 DEF Placed, CountFits, Received, Leaves, HandsOver, Departs, workVars
<1> QED  BY <1>1, <1>2, <1>5, <1>6, MovesLocal DEF workVars

LEMMA UpdateGuildOverlap == ASSUME IndInv, OverlapInv, NEW t \in Tasks, UpdateGuild(t) PROVE OverlapInv'
<1>1. /\ pc[t] \in {"recount", "close"} /\ pc'[t] = "commit" /\ UNCHANGED <<dbVars, workVars, historyVars>>
  BY DEF UpdateGuild, IndInv, TypeOK
<1>2. NothingCommitted /\ met' = met /\ OthersStay(t) /\ RecordsOK'
  BY DEF UpdateGuild, NothingCommitted, OthersStay, OverlapInv, RecordsOK, IndInv, TypeOK, dbVars, workVars, historyVars
<1>3. /\ op[t].kind \in {"Fire", "Quit", "Accept", "Dissolve"}
      /\ pc[t] = "close" <=> op[t].kind = "Dissolve"
      /\ CountFits(t) /\ Emptied(t) /\ Leaves(t)
  BY <1>1 DEF OverlapInv, TaskOK, Placed
<1>4. /\ Guild(t)' = Guild(t) /\ Subject(t)' = Subject(t) /\ Members(Guild(t))' = Members(Guild(t))
      /\ SeenMembers(t)' = SeenMembers(t)
  BY <1>1 DEF Guild, Subject, Members, SeenMembers, dbVars, workVars
<1>5. CountFits(t)'
  BY <1>1, <1>3, <1>4 DEF CountFits, workVars, historyVars
<1>6. Emptied(t)'
  BY <1>1, <1>2, <1>3, <1>4 DEF Emptied, workVars
<1>7. Placed(t)' /\ Received(t)'
  BY <1>1, <1>3 DEF Placed, Received, HandsOver, workVars
<1>8. Leaves(t)'
  BY <1>1, <1>2, <1>3, <1>4 DEF Leaves, Departs, Leads, dbVars, workVars
<1> QED  BY <1>1, <1>2, <1>5, <1>6, <1>7, <1>8, MovesLocal DEF workVars

-----------------------------------------------------------------------------
(* The steps that write a membership.                                      *)

LEMMA DemoteOverlap == ASSUME IndInv, OverlapInv, NEW t \in Tasks, Demote(t) PROVE OverlapInv'
<1> DEFINE row == [guild |-> Guild(t), duty |-> "Deputy"]
<1>1. /\ pc[t] = "demote" /\ pc'[t] = "promote" /\ WriteMember(t, Of[t], row)
      /\ UNCHANGED <<dbVars, op, actor, target, left, counted, infoW, historyVars>>
  BY DEF Demote, IndInv, TypeOK
<1>2. NothingCommitted /\ met' = met /\ OthersStay(t) /\ RecordsOK'
  BY DEF Demote, WriteMember, NothingCommitted, OthersStay, OverlapInv, RecordsOK, IndInv, TypeOK, dbVars, historyVars
<1>3. op[t].kind = "SetDuty" /\ op[t].duty = "Commander" /\ Locked(t) /\ Received(t)
  BY <1>1 DEF IndInv, HandlersOK, Fits, OverlapInv, TaskOK, Placed
<1>4. Guild(t) \in Guilds /\ Of[t] \in Commanders
  BY <1>1, <1>3, WriterOK
<1>5. Guild(t)' = Guild(t) /\ Members(Guild(t))' = Members(Guild(t))
  BY <1>1 DEF Guild, Members, dbVars
<1>6. Placed(t)' /\ CountFits(t)' /\ Emptied(t)' /\ Leaves(t)'
  BY <1>1, <1>3 DEF Placed, CountFits, Emptied, Leaves, Departs
<1>7. Received(t)'
  BY <1>1, <1>2, <1>3, <1>5 DEF Received, HandsOver, dbVars
<1>8. CASE Of[t] \in Members(Guild(t))
  <2>1. ~MemberLocked(t, Of[t]) /\ memberW' = [memberW EXCEPT ![t][Of[t]] = row]
    BY <1>1, <1>8 DEF WriteMember
  <2>2. \A c \in Commanders : memberW'[t][c] = IF c = Of[t] THEN row ELSE memberW[t][c]
    BY <2>1 DEF IndInv, TypeOK
  <2>3. row # NoGuild
    BY <1>4, GuildAssumption DEF Rows, Duties, dutyRank
  <2>4. Locked(t)'
    BY <1>1, <1>3, <1>5, <1>8, <2>2, <2>3 DEF Locked, HandsOver, Departs
  <2> QED  BY <1>1, <1>2, <1>4, <1>6, <1>7, <2>1, <2>4, WritesLocal
<1>9. CASE Of[t] \notin Members(Guild(t))
  BY <1>1, <1>2, <1>6, <1>7, <1>9, MovesLocal DEF WriteMember
<1> QED  BY <1>8, <1>9

LEMMA PromoteOverlap == ASSUME IndInv, OverlapInv, NEW t \in Tasks, Promote(t) PROVE OverlapInv'
<1> DEFINE row == [guild |-> Guild(t), duty |-> op[t].duty]
<1>1. /\ pc[t] = "promote" /\ pc'[t] = "commit" /\ WriteMember(t, op[t].who, row)
      /\ UNCHANGED <<dbVars, op, actor, target, left, counted, infoW, historyVars>>
  BY DEF Promote, IndInv, TypeOK
<1>2. NothingCommitted /\ met' = met /\ OthersStay(t) /\ RecordsOK'
  BY DEF Promote, WriteMember, NothingCommitted, OthersStay, OverlapInv, RecordsOK, IndInv, TypeOK, dbVars, historyVars
<1>3. op[t].kind = "SetDuty" /\ Locked(t) /\ Received(t)
  BY <1>1 DEF IndInv, HandlersOK, Fits, OverlapInv, TaskOK
<1>4. Guild(t) \in Guilds /\ op[t].who \in Commanders /\ op[t].duty \in Duties
  BY <1>1, <1>3, WriterOK
<1>5. Guild(t)' = Guild(t) /\ Members(Guild(t))' = Members(Guild(t))
  BY <1>1 DEF Guild, Members, dbVars
<1>6. Placed(t)' /\ CountFits(t)' /\ Emptied(t)' /\ Leaves(t)'
  BY <1>1, <1>3 DEF Placed, CountFits, Emptied, Leaves, Departs
<1>7. CASE op[t].who \in Members(Guild(t))
  <2>1. ~MemberLocked(t, op[t].who) /\ memberW' = [memberW EXCEPT ![t][op[t].who] = row]
    BY <1>1, <1>7 DEF WriteMember
  <2>2. \A c \in Commanders : memberW'[t][c] = IF c = op[t].who THEN row ELSE memberW[t][c]
    BY <2>1 DEF IndInv, TypeOK
  <2>3. row # NoGuild
    BY <1>4, GuildAssumption DEF Rows
  <2>4. Locked(t)'
    BY <1>1, <1>3, <1>5, <1>7, <2>2, <2>3 DEF Locked, HandsOver, Departs
  <2>5. Received(t)'
    BY <1>1, <1>4, <1>5, <1>7, <2>2 DEF Received, HandsOver, Leads
  <2> QED  BY <1>1, <1>2, <1>4, <1>6, <2>1, <2>4, <2>5, WritesLocal
<1>8. CASE op[t].who \notin Members(Guild(t))
  <2>1. Received(t)'
    BY <1>1, <1>2, <1>3, <1>5, <1>8 DEF Received, HandsOver, dbVars
  <2> QED  BY <1>1, <1>2, <1>6, <1>8, <2>1, MovesLocal DEF WriteMember
<1> QED  BY <1>7, <1>8

LEMMA DeleteOverlap == ASSUME IndInv, OverlapInv, NEW t \in Tasks, Delete(t) PROVE OverlapInv'
<1>1. /\ pc[t] = "delete" /\ pc'[t] = "info" /\ WriteMember(t, Subject(t), NoGuild)
      /\ UNCHANGED <<dbVars, op, actor, target, left, counted, infoW, historyVars>>
  BY DEF Delete, IndInv, TypeOK
<1>2. NothingCommitted /\ met' = met /\ OthersStay(t) /\ RecordsOK'
  BY DEF Delete, WriteMember, NothingCommitted, OthersStay, OverlapInv, RecordsOK, IndInv, TypeOK, dbVars, historyVars
<1>3. op[t].kind \in {"Fire", "Quit"} /\ Locked(t) /\ Leaves(t)
  BY <1>1 DEF IndInv, HandlersOK, Fits, OverlapInv, TaskOK
<1>4. Subject(t) \in Commanders
  BY <1>1, <1>3, WriterOK
<1>5. Guild(t)' = Guild(t) /\ Subject(t)' = Subject(t) /\ Members(Guild(t))' = Members(Guild(t))
  BY <1>1 DEF Guild, Subject, Members, dbVars
<1>6. Placed(t)' /\ CountFits(t)' /\ Emptied(t)' /\ Received(t)'
  BY <1>1, <1>3 DEF Placed, CountFits, Emptied, Received, HandsOver
<1>7. Leaves(t)'
  BY <1>1, <1>2, <1>3, <1>5 DEF Leaves, Departs, Leads, dbVars
<1>8. CASE Subject(t) \in Members(Guild(t))
  <2>1. ~MemberLocked(t, Subject(t)) /\ memberW' = [memberW EXCEPT ![t][Subject(t)] = NoGuild]
    BY <1>1, <1>8 DEF WriteMember
  <2>2. \A c \in Commanders : memberW'[t][c] = IF c = Subject(t) THEN NoGuild ELSE memberW[t][c]
    BY <2>1 DEF IndInv, TypeOK
  <2>3. Locked(t)'
    BY <1>1, <1>3, <1>5, <1>8, <2>2 DEF Locked, HandsOver, Departs
  <2> QED  BY <1>1, <1>2, <1>4, <1>6, <1>7, <2>1, <2>3, WritesLocal
<1>9. CASE Subject(t) \notin Members(Guild(t))
  BY <1>1, <1>2, <1>6, <1>7, <1>9, MovesLocal DEF WriteMember
<1> QED  BY <1>8, <1>9

LEMMA DeleteMemberOverlap == ASSUME IndInv, OverlapInv, NEW t \in Tasks, DeleteMember(t) PROVE OverlapInv'
<1>1. pc[t] = "memberRows" /\ UNCHANGED <<dbVars, pc, op, actor, target, counted, infoW, historyVars>>
  BY DEF DeleteMember
<1>2. PICK c \in left[t] : WriteMember(t, c, NoGuild) /\ left' = [left EXCEPT ![t] = @ \ {c}]
  BY DEF DeleteMember
<1>3. NothingCommitted /\ met' = met /\ OthersStay(t) /\ RecordsOK'
  <2>1. OthersStay(t)
    BY <1>1, <1>2 DEF WriteMember, OthersStay, OverlapInv, RecordsOK, IndInv, TypeOK, historyVars
  <2>2. left' \in [Tasks -> SUBSET Commanders]
    BY <1>2 DEF OverlapInv, RecordsOK
  <2> QED  BY <1>1, <2>1, <2>2 DEF NothingCommitted, OverlapInv, RecordsOK, dbVars, historyVars
<1>4. op[t].kind = "Dissolve" /\ Locked(t) /\ Emptied(t)
  BY <1>1 DEF OverlapInv, TaskOK, Placed
<1>5. Guild(t)' = Guild(t) /\ Members(Guild(t))' = Members(Guild(t)) /\ left'[t] = left[t] \ {c}
  BY <1>1, <1>2 DEF Guild, Members, dbVars, OverlapInv, RecordsOK
<1>6. Placed(t)' /\ CountFits(t)' /\ Received(t)' /\ Leaves(t)'
  BY <1>1, <1>4 DEF Placed, CountFits, Received, Leaves, HandsOver, Departs
<1>7. CASE c \in Members(Guild(t))
  <2>1. c \in Commanders /\ ~MemberLocked(t, c) /\ memberW' = [memberW EXCEPT ![t][c] = NoGuild]
    BY <1>2, <1>7 DEF WriteMember, Members
  <2>2. \A d \in Commanders : memberW'[t][d] = IF d = c THEN NoGuild ELSE memberW[t][d]
    BY <2>1 DEF IndInv, TypeOK
  <2>3. Locked(t)'
    BY <1>1, <1>4, <1>5, <1>7, <2>2 DEF Locked, Departs
  <2>4. Emptied(t)'
    BY <1>1, <1>3, <1>4, <1>5, <2>1, <2>2, RowsApart DEF Emptied, Members
  <2> QED  BY <1>1, <1>3, <1>6, <2>1, <2>3, <2>4, WritesLocal
<1>8. CASE c \notin Members(Guild(t))
  <2>1. memberW' = memberW
    BY <1>2, <1>8 DEF WriteMember
  <2>2. Emptied(t)'
    BY <1>1, <1>3, <1>4, <1>5, <1>8, <2>1 DEF Emptied
  <2> QED  BY <1>1, <1>3, <1>6, <2>1, <2>2, MovesLocal
<1> QED  BY <1>7, <1>8

LEMMA InsertOverlap == ASSUME IndInv, OverlapInv, NEW t \in Tasks, Insert(t) PROVE OverlapInv'
<1> DEFINE c == Subject(t)
           row == [guild |-> Guild(t),
                   duty |-> IF op[t].kind = "Create" THEN "Commander" ELSE "Ordinary"]
<1>1. /\ pc[t] = "insert" /\ ~MemberLocked(t, c)
      /\ UNCHANGED <<dbVars, op, actor, target, left, counted, infoW, historyVars>>
      /\ \/ pc'[t] = "rollback" /\ memberW' = memberW
         \/ pc'[t] = "info" /\ member[c] = NoGuild /\ memberW' = [memberW EXCEPT ![t][c] = row]
  BY DEF Insert, IndInv, TypeOK
<1>2. NothingCommitted /\ met' = met /\ OthersStay(t) /\ RecordsOK'
  BY DEF Insert, NothingCommitted, OthersStay, OverlapInv, RecordsOK, IndInv, TypeOK, dbVars, historyVars
<1>3. op[t].kind \in {"Accept", "Create"} /\ op[t] \in Requests /\ Locked(t)
  BY <1>1 DEF IndInv, TypeOK, HandlersOK, Fits, OverlapInv, TaskOK
<1>4. c \in Commanders /\ Guild(t) \in Guilds
  BY <1>1, <1>3, WriterOK, GuildAssumption DEF Guild, Subject
<1>5. Guild(t)' = Guild(t) /\ Subject(t)' = Subject(t)
  BY <1>1 DEF Guild, Subject
<1>6. CountFits(t)' /\ Emptied(t)' /\ Received(t)' /\ Leaves(t)'
  BY <1>1, <1>3 DEF CountFits, Emptied, Received, Leaves, HandsOver, Departs
<1>7. CASE pc'[t] = "rollback" /\ memberW' = memberW
  <2>1. Placed(t)'
    BY <1>7 DEF Placed
  <2> QED  BY <1>1, <1>2, <1>6, <1>7, <2>1, MovesLocal
<1>8. CASE pc'[t] = "info" /\ member[c] = NoGuild /\ memberW' = [memberW EXCEPT ![t][c] = row]
  <2>1. \A d \in Commanders : memberW'[t][d] = IF d = c THEN row ELSE memberW[t][d]
    BY <1>8 DEF IndInv, TypeOK
  <2>2. row # NoGuild
    BY <1>4, GuildAssumption DEF Rows, Duties, dutyRank
  <2>3. Locked(t)'
    BY <1>1, <1>3, <1>5, <1>8, <2>1, <2>2 DEF Locked, Departs, dbVars
  <2>4. Placed(t)'
    BY <1>1, <1>3, <1>4, <1>8, <2>1 DEF Placed, Leads, Guild, Subject
  <2> QED  BY <1>1, <1>2, <1>4, <1>6, <1>8, <2>3, <2>4, WritesLocal
<1> QED  BY <1>1, <1>7, <1>8

-----------------------------------------------------------------------------
(* The guild is read, and what overlaps in it remembered.                  *)

LEMMA CrossingsOK ==
  ASSUME IndInv, NEW t \in Tasks, NEW g \in Guilds
  PROVE  /\ Crossings(t, g) \subseteq {"headless", "stranded"}
         /\ \A u \in Tasks \ {t} : actor[u] # NoGuild /\ actor[u].guild = g =>
              /\ op[t].kind = "Accept" /\ op[u].kind = "Dissolve" => "stranded" \in Crossings(t, g)
              /\ op[u].kind = "Accept" /\ op[t].kind = "Dissolve" => "stranded" \in Crossings(t, g)
              /\ HandsOver(t) /\ Departs(u) /\ Subject(u) = op[t].who => "headless" \in Crossings(t, g)
              /\ HandsOver(u) /\ Departs(t) /\ Subject(t) = op[u].who => "headless" \in Crossings(t, g)
<1> DEFINE Met(u) == Crossing(op[t], Of[t], op[u], Of[u]) \cup Crossing(op[u], Of[u], op[t], Of[t])
           There == {v \in InTx \ {t} : pc[v] # "actor" /\ actor[v] # NoGuild /\ actor[v].guild = g}
<1>1. Crossings(t, g) = UNION {Met(u) : u \in There}
  BY DEF Crossings
<1>2. \A r, c, s, d : /\ Crossing(r, c, s, d) \subseteq {"headless", "stranded"}
                      /\ {r.kind, s.kind} = {"Accept", "Dissolve"} => "stranded" \in Crossing(r, c, s, d)
                      /\ r.kind = "SetDuty" /\ r.duty = "Commander" /\ s.kind = "Quit" /\ r.who = d
                         => "headless" \in Crossing(r, c, s, d)
                      /\ r.kind = "SetDuty" /\ r.duty = "Commander" /\ s.kind = "Fire" /\ r.who = s.who
                         => "headless" \in Crossing(r, c, s, d)
  <2> TAKE r, c, s, d
  <2>1. CASE {r.kind, s.kind} = {"Accept", "Dissolve"}
    <3>1. Crossing(r, c, s, d) = {"stranded"}
      BY <2>1 DEF Crossing
    <3>2. r.kind # "SetDuty"
      BY <2>1
    <3> QED  BY <2>1, <3>1, <3>2
  <2>2. CASE {r.kind, s.kind} # {"Accept", "Dissolve"}
    BY <2>2 DEF Crossing
  <2> QED  BY <2>1, <2>2
<1>3. ASSUME NEW u \in Tasks \ {t}, actor[u] # NoGuild, actor[u].guild = g,
             op[u].kind \in {"Accept", "Dissolve", "SetDuty", "Fire", "Quit"}
      PROVE  Met(u) \subseteq Crossings(t, g)
  <2>1. pc[u] \notin {"idle", "connect", "ask", "put", "actor"}
    BY <1>3 DEF IndInv, HandlersOK, Fits
  <2>2. u \in There
    BY <1>3, <2>1 DEF InTx
  <2> HIDE DEF Met, There
  <2> QED  BY <1>1, <2>2
<1>4. Crossings(t, g) \subseteq {"headless", "stranded"}
  <2>1. \A u : Met(u) \subseteq {"headless", "stranded"}
    BY <1>2
  <2> HIDE DEF Met, There
  <2> QED  BY <1>1, <2>1
<1>5. ASSUME NEW u \in Tasks \ {t}, actor[u] # NoGuild, actor[u].guild = g
      PROVE  /\ op[t].kind = "Accept" /\ op[u].kind = "Dissolve" => "stranded" \in Crossings(t, g)
             /\ op[u].kind = "Accept" /\ op[t].kind = "Dissolve" => "stranded" \in Crossings(t, g)
  <2> SUFFICES ASSUME {op[t].kind, op[u].kind} = {"Accept", "Dissolve"}
               PROVE  "stranded" \in Crossings(t, g)
    OBVIOUS
  <2>1. "stranded" \in Crossing(op[t], Of[t], op[u], Of[u])
    BY <1>2
  <2>2. op[u].kind \in {"Accept", "Dissolve"}
    OBVIOUS
  <2>3. "stranded" \in Met(u)
    BY <2>1
  <2> HIDE DEF Met
  <2> QED  BY <1>3, <1>5, <2>2, <2>3
<1>6. ASSUME NEW u \in Tasks \ {t}, actor[u] # NoGuild, actor[u].guild = g,
             HandsOver(t), Departs(u), Subject(u) = op[t].who
      PROVE  "headless" \in Crossings(t, g)
  <2>1. "headless" \in Crossing(op[t], Of[t], op[u], Of[u])
    BY <1>2, <1>6 DEF HandsOver, Departs, Subject
  <2>2. op[u].kind \in {"Fire", "Quit"} /\ "headless" \in Met(u)
    BY <1>6, <2>1 DEF Departs
  <2> HIDE DEF Met
  <2> QED  BY <1>3, <1>6, <2>2
<1>7. ASSUME NEW u \in Tasks \ {t}, actor[u] # NoGuild, actor[u].guild = g,
             HandsOver(u), Departs(t), Subject(t) = op[u].who
      PROVE  "headless" \in Crossings(t, g)
  <2>1. "headless" \in Crossing(op[u], Of[u], op[t], Of[t])
    BY <1>2, <1>7 DEF HandsOver, Departs, Subject
  <2>2. op[u].kind = "SetDuty" /\ "headless" \in Met(u)
    BY <1>7, <2>1 DEF HandsOver
  <2> HIDE DEF Met
  <2> QED  BY <1>3, <1>7, <2>2
<1> QED  BY <1>4, <1>5, <1>6, <1>7

LEMMA ReadActorOverlap == ASSUME IndInv, OverlapInv, NEW t \in Tasks, ReadActor(t) PROVE OverlapInv'
<1> DEFINE row == Membership(Of[t])
           p == IF ActorMay(t, row) THEN AfterActor[op[t].kind] ELSE "rollback"
<1>1. /\ pc[t] = "actor" /\ pc'[t] = p /\ actor'[t] = row
      /\ met' = [g \in Guilds |-> IF row # NoGuild /\ g = row.guild
                                  THEN met[g] \cup Crossings(t, g) ELSE met[g]]
      /\ UNCHANGED <<dbVars, op, target, left, counted, memberW, infoW, ops, doubled, outrun, miscounted>>
  BY DEF ReadActor, IndInv, TypeOK
<1>2. NothingCommitted /\ MetGrows /\ OthersStay(t)
  <2>1. MetGrows
    BY <1>1 DEF MetGrows
  <2>2. NothingCommitted /\ OthersStay(t)
    BY <1>1 DEF ReadActor, NothingCommitted, OthersStay, IndInv, TypeOK, dbVars
  <2> QED  BY <2>1, <2>2
<1>3. RecordsOK'
  <2>1. met' \in [Guilds -> SUBSET {"headless", "stranded"}]
    BY <1>1, CrossingsOK DEF OverlapInv, RecordsOK
  <2> QED  BY <1>1, <2>1 DEF OverlapInv, RecordsOK, dbVars
<1>4. row # NoGuild => /\ row = member[Of[t]] /\ row \in Rows /\ status[row.guild] = "active"
                       /\ row.guild \in Guilds
  BY GuildAssumption DEF Membership, IndInv, TypeOK, Rows
<1>5. op[t].kind \in Kinds \ {"Apply", "Reject"} /\ memberW[t] = Unwritten
  <2>1. op[t] # NoRequest /\ op[t].kind \notin {"Apply", "Reject"} /\ memberW[t] = Unwritten
    BY <1>1 DEF IndInv, HandlersOK, Fits
  <2> QED  BY <2>1, GuildAssumption DEF IndInv, TypeOK
<1>6. /\ p \in {"target", "second", "delete", "infos", "insert", "rollback"}
      /\ p = "delete" => op[t].kind = "Quit" /\ row # NoGuild /\ row.duty # "Commander"
      /\ p = "infos" => op[t].kind = "Dissolve"
  <2>1. CASE op[t].kind \in {"SetDuty", "Fire"}
    <3>1. ActorMay(t, row) = (row # NoGuild) /\ AfterActor[op[t].kind] = "target"
      BY <2>1 DEF ActorMay, AfterActor
    <3> QED  BY <3>1
  <2>2. CASE op[t].kind = "Accept"
    BY <2>2 DEF AfterActor, ActorMay, Officer
  <2>3. CASE op[t].kind = "Quit"
    BY <2>3 DEF AfterActor, ActorMay
  <2>4. CASE op[t].kind = "Dissolve"
    BY <2>4 DEF AfterActor, ActorMay
  <2>5. CASE op[t].kind = "Create"
    BY <2>5 DEF AfterActor, ActorMay
  <2> QED  BY <1>5, <2>1, <2>2, <2>3, <2>4, <2>5 DEF Kinds
<1> HIDE DEF row, p
<1>7. \A c \in Commanders : memberW'[t][c] = Same
  BY <1>1, <1>5 DEF Unwritten
<1>8. TaskOK(t)'
  <2>1. Placed(t)' /\ Locked(t)' /\ CountFits(t)' /\ Emptied(t)' /\ Received(t)'
    BY <1>1, <1>6, <1>7 DEF Placed, Locked, CountFits, Emptied, Received
  <2>2. Entered(t)'
    BY <1>1, <1>4 DEF Entered, dbVars
  <2>3. Leaves(t)'
    <3>1. CASE pc'[t] = "delete"
      BY <1>1, <1>4, <1>6, <3>1 DEF Leaves, Leads, Subject, dbVars
    <3>2. CASE pc'[t] # "delete"
      BY <1>1, <1>6, <3>2 DEF Leaves
    <3> QED  BY <3>1, <3>2
  <2> QED  BY <2>1, <2>2, <2>3 DEF TaskOK
<1>9. ASSUME NEW u \in Tasks PROVE MetOK(t, u)' /\ MetOK(u, t)'
  <2>1. CASE u = t
    BY <2>1 DEF MetOK, HandsOver, Departs
  <2>2. CASE u # t
    <3> SUFFICES ASSUME row # NoGuild, actor[u] # NoGuild, actor[u].guild = row.guild
                 PROVE  MetOK(t, u)' /\ MetOK(u, t)'
      BY <1>1, <1>2, <2>2 DEF MetOK, OthersStay
    <3>1. Crossings(t, row.guild) \subseteq met'[row.guild]
      BY <1>1, <1>4
    <3>2. /\ op[t].kind = "Accept" /\ op[u].kind = "Dissolve" => "stranded" \in Crossings(t, row.guild)
          /\ op[u].kind = "Accept" /\ op[t].kind = "Dissolve" => "stranded" \in Crossings(t, row.guild)
          /\ HandsOver(t) /\ Departs(u) /\ Subject(u) = op[t].who => "headless" \in Crossings(t, row.guild)
          /\ HandsOver(u) /\ Departs(t) /\ Subject(t) = op[u].who => "headless" \in Crossings(t, row.guild)
      BY <1>4, <2>2, CrossingsOK
    <3>3. /\ actor'[t] = row /\ actor'[u] = actor[u] /\ op' = op
          /\ Subject(t)' = Subject(t) /\ Subject(u)' = Subject(u)
      BY <1>1, <1>2, <2>2 DEF OthersStay, Subject
    <3> QED  BY <3>1, <3>2, <3>3 DEF MetOK, HandsOver, Departs
  <2> QED  BY <2>1, <2>2
<1> QED  BY <1>2, <1>3, <1>7, <1>8, <1>9, Local

-----------------------------------------------------------------------------
(* The commit.                                                             *)

\* It changes the memberships of one guild; the rows it writes are as it found them.
LEMMA CommitRows ==
  ASSUME IndInv, OverlapInv, NEW t \in Tasks, Commit(t), NEW g, g = Guild(t)
  PROVE  /\ g \in Guilds /\ pc[t] = "commit" /\ op[t] \in Requests
         /\ op[t].kind \in {"SetDuty", "Fire", "Quit", "Dissolve", "Accept", "Create"}
         /\ op[t].kind # "Create" => actor[t] \in Rows /\ actor[t].guild = g
         /\ \A c \in Commanders :
              /\ memberW[t][c] = Same => member'[c] = member[c]
              /\ memberW[t][c] # Same =>
                   /\ member'[c] = memberW[t][c]
                   /\ member'[c] = NoGuild \/ member'[c].guild = g
                   /\ member[c] = NoGuild \/ member[c].guild = g
         /\ op[t].kind = "SetDuty" => \A c \in Commanders : memberW[t][c] # Same =>
              member[c] # NoGuild /\ member'[c] # NoGuild
         /\ op[t].kind \in {"Accept", "Create"} => \A c \in Commanders : memberW[t][c] # Same =>
              member[c] = NoGuild /\ member'[c] # NoGuild
         /\ op[t].kind \in {"Fire", "Quit", "Dissolve"} => \A c \in Commanders : memberW[t][c] # Same =>
              member[c] # NoGuild /\ member'[c] = NoGuild
         /\ op[t].kind = "Create" => status[g] = "none"
<1>1. pc[t] = "commit" /\ op[t] \in Requests
  BY DEF Commit, IndInv, TypeOK, HandlersOK, Fits
<1>2. op[t].kind \in {"SetDuty", "Fire", "Quit", "Dissolve", "Accept", "Create"}
  <2>1. op[t].kind \in Kinds
    BY <1>1, GuildAssumption
  <2> QED  BY <1>1, <2>1 DEF Kinds, OverlapInv, TaskOK, Placed
<1>3. /\ op[t].kind # "Create" => actor[t] \in Rows /\ actor[t].guild = g /\ g \in Guilds
      /\ op[t].kind = "Create" => g \in Guilds /\ status[g] = "none"
  BY <1>1, GuildOK, GuildAssumption DEF Guild, IndInv, FreshOK
<1>4. Locked(t)
  BY DEF OverlapInv, TaskOK
<1>5. ASSUME NEW c \in Commanders, memberW[t][c] # Same
      PROVE  /\ member'[c] = memberW[t][c]
             /\ member'[c] = NoGuild \/ member'[c].guild = g
             /\ member[c] = NoGuild \/ member[c].guild = g
             /\ op[t].kind = "SetDuty" => member[c] # NoGuild /\ member'[c] # NoGuild
             /\ op[t].kind \in {"Accept", "Create"} => member[c] = NoGuild /\ member'[c] # NoGuild
             /\ op[t].kind \in {"Fire", "Quit", "Dissolve"} => member[c] # NoGuild /\ member'[c] = NoGuild
  <2>1. member'[c] = memberW[t][c]
    BY <1>5 DEF Commit
  <2>2. member'[c] = NoGuild \/ member'[c].guild = g
    BY <1>5, <2>1 DEF IndInv, TypeOK, WritesOK
  <2> QED  BY <1>2, <1>4, <1>5, <2>1, <2>2 DEF Locked, Members
<1>6. \A c \in Commanders : memberW[t][c] = Same => member'[c] = member[c]
  BY DEF Commit
<1> QED  BY <1>1, <1>2, <1>3, <1>5, <1>6

LEMMA CommitMembers ==
  ASSUME IndInv, OverlapInv, NEW t \in Tasks, Commit(t), NEW g, g = Guild(t)
  PROVE  /\ \A h \in Guilds : h # g => Members(h)' = Members(h)
         /\ op[t].kind = "SetDuty" => Members(g)' = Members(g)
         /\ op[t].kind \in {"Fire", "Quit", "Dissolve"} => Members(g)' \subseteq Members(g)
         /\ Members(g)' = SeenMembers(t)
         /\ op[t].kind = "Create" => Members(g)' = {Of[t]}
<1>1. \A h \in Guilds : h # g => Members(h)' = Members(h)
  BY CommitRows DEF Members
<1>2. op[t].kind = "SetDuty" => Members(g)' = Members(g)
  BY CommitRows DEF Members
<1>3. op[t].kind \in {"Fire", "Quit", "Dissolve"} => Members(g)' \subseteq Members(g)
  BY CommitRows DEF Members
<1>4. Members(g)' = SeenMembers(t)
  BY CommitRows DEF Members, SeenMembers
<1>5. ASSUME op[t].kind = "Create" PROVE SeenMembers(t) = {Of[t]}
  <2>1. Members(g) = {}
    BY <1>5, CommitRows DEF Members, IndInv, FreshOK
  <2>2. pc[t] = "commit" /\ Locked(t) /\ Placed(t)
    BY CommitRows DEF OverlapInv, TaskOK
  <2>3. \A c \in Commanders : memberW[t][c] # Same => c = Of[t]
    BY <1>5, <2>2 DEF Locked, Subject
  <2>4. Of[t] \in Commanders /\ memberW[t][Of[t]] # Same /\ memberW[t][Of[t]] # NoGuild
    <3>1. Leads(memberW[t][Of[t]], op[t].guild) /\ op[t].guild \in Guilds
      BY <1>5, <2>2, CommitRows, GuildAssumption DEF Placed
    <3> QED  BY <3>1, RowsApart, GuildAssumption
  <2> QED  BY <2>1, <2>3, <2>4 DEF SeenMembers
<1> QED  BY <1>1, <1>2, <1>3, <1>4, <1>5

\* ... and nothing of the other handlers, nor the status of another guild.
LEMMA CommitStatus ==
  ASSUME IndInv, OverlapInv, NEW t \in Tasks, Commit(t), NEW g, g = Guild(t)
  PROVE  /\ \A h \in Guilds : h # g => status'[h] = status[h] /\ count'[h] = count[h]
         /\ op[t].kind = "Create" => status'[g] = "active" /\ count'[g] = 1
         /\ op[t].kind = "Dissolve" => status'[g] = "dissolved" /\ count'[g] = count[g]
         /\ op[t].kind = "SetDuty" => status'[g] = status[g] /\ count'[g] = count[g]
         /\ op[t].kind \in {"Fire", "Quit", "Accept"} => status'[g] = status[g] /\ count'[g] = counted[t]
         /\ met' = met /\ doubled' = doubled
         /\ \A u \in Tasks \ {t} :
              /\ pc'[u] = pc[u] /\ op'[u] = op[u] /\ actor'[u] = actor[u] /\ memberW'[u] = memberW[u]
              /\ left'[u] = left[u] /\ counted'[u] = counted[u]
         /\ pc'[t] = "idle" /\ actor'[t] = NoGuild /\ \A c \in Commanders : memberW'[t][c] = Same
<1>1. g \in Guilds
  BY CommitRows
<1>2. /\ \A h \in Guilds : h # g => status'[h] = status[h]
      /\ op[t].kind = "Create" => status'[g] = "active"
      /\ op[t].kind = "Dissolve" => status'[g] = "dissolved"
      /\ op[t].kind \notin {"Create", "Dissolve"} => status'[g] = status[g]
  BY <1>1 DEF Commit, IndInv, TypeOK
<1>3. /\ \A h \in Guilds : h # g => count'[h] = count[h]
      /\ op[t].kind = "Create" => count'[g] = 1
      /\ op[t].kind \in {"Fire", "Quit", "Accept"} => count'[g] = counted[t]
      /\ op[t].kind \in {"SetDuty", "Dissolve"} => count'[g] = count[g]
  BY <1>1 DEF Commit, OverlapInv, RecordsOK
<1>4. met' = met /\ doubled' = doubled /\ Ends(t)
  BY DEF Commit
<1>5. /\ \A u \in Tasks \ {t} :
           /\ pc'[u] = pc[u] /\ op'[u] = op[u] /\ actor'[u] = actor[u] /\ memberW'[u] = memberW[u]
           /\ left'[u] = left[u] /\ counted'[u] = counted[u]
      /\ pc'[t] = "idle" /\ actor'[t] = NoGuild /\ \A c \in Commanders : memberW'[t][c] = Same
  BY <1>4 DEF Ends, IndInv, TypeOK, OverlapInv, RecordsOK, Unwritten
<1> QED  BY <1>2, <1>3, <1>4, <1>5

\* What the others rely on is still true, or what has overlapped is remembered.
LEMMA CommitOthers ==
  ASSUME IndInv, OverlapInv, NEW t \in Tasks, Commit(t), NEW g, g = Guild(t), NEW u \in Tasks \ {t}
  PROVE  TaskOK(u)'
<1>1. /\ pc'[u] = pc[u] /\ op'[u] = op[u] /\ actor'[u] = actor[u] /\ memberW'[u] = memberW[u]
      /\ left'[u] = left[u] /\ counted'[u] = counted[u] /\ met' = met
  BY CommitStatus
<1>2. Guild(u)' = Guild(u) /\ Subject(u)' = Subject(u)
  BY <1>1 DEF Guild, Subject
<1>3. TaskOK(u) /\ MetOK(t, u) /\ MetOK(u, t)
  BY DEF OverlapInv
<1>4. g \in Guilds /\ (op[t].kind # "Create" => actor[t] # NoGuild /\ actor[t].guild = g)
  BY CommitRows, RowsApart
<1>5. ASSUME actor[u] # NoGuild, actor[u].guild = g PROVE op[t].kind # "Create"
  BY <1>5, CommitRows DEF IndInv, FreshOK
<1>6. Placed(u)'
  BY <1>1, <1>3 DEF TaskOK, Placed, Leads
<1>7. Locked(u)'
  <2>1. \A c \in Commanders : memberW[u][c] # Same => member'[c] = member[c]
    BY CommitRows DEF OverlapInv, LocksApart
  <2>2. Locked(u)
    BY <1>3 DEF TaskOK
  <2>3. \A c \in Commanders : memberW[u][c] # Same => (c \in Members(Guild(u))' <=> c \in Members(Guild(u)))
    BY <1>2, <2>1 DEF Members
  <2> QED  BY <1>1, <1>2, <2>1, <2>2, <2>3 DEF Locked, HandsOver, Departs
<1>8. CountFits(u)'
  <2> SUFFICES ASSUME pc[u] \in {"recount", "commit"}, op[u].kind \in {"Fire", "Quit", "Accept"}, u \notin outrun'
               PROVE  counted[u] = Cardinality(SeenMembers(u)')
    BY <1>1 DEF CountFits
  <2>1. Guild(u) \in Guilds
    BY GuildOK
  <2>2. Members(Guild(u))' = Members(Guild(u))
    <3>1. CASE Guild(u) # g
      BY <1>2, <2>1, <3>1, CommitRows DEF Members
    <3>2. CASE Guild(u) = g
      <4>1. u \in InTx
        BY DEF InTx
      <4>2. op[t].kind = "SetDuty" \/ \A c \in Commanders : memberW[t][c] = Same
        BY <3>2, <4>1 DEF Commit
      <4> QED  BY <1>2, <4>2, CommitRows DEF Members
    <3> QED  BY <3>1, <3>2
  <2>3. SeenMembers(u)' = SeenMembers(u)
    BY <1>1, <1>2, <2>2 DEF SeenMembers
  <2>4. u \notin outrun
    BY DEF Commit
  <2> QED  BY <1>3, <2>3, <2>4 DEF TaskOK, CountFits
<1>9. Emptied(u)'
  <2> SUFFICES ASSUME op[u].kind = "Dissolve", pc[u] \in {"memberRows", "close", "commit"},
                      NEW c \in Commanders, member'[c] # NoGuild, member'[c].guild = Guild(u)
               PROVE  \/ memberW[u][c] # Same
                      \/ pc[u] = "memberRows" /\ c \in left[u]
                      \/ "stranded" \in met[Guild(u)]
    BY <1>1, <1>2 DEF Emptied, Members
  <2>1. actor[u] \in Rows /\ Guild(u) = actor[u].guild /\ Guild(u) \in Guilds
    BY GuildOK
  <2>2. CASE c \in Members(Guild(u))
    BY <1>3, <2>2 DEF TaskOK, Emptied
  <2>3. CASE c \notin Members(Guild(u))
    <3>1. memberW[t][c] # Same /\ Guild(u) = g /\ member[c] = NoGuild
      BY <2>3, CommitRows DEF Members
    <3>2. op[t].kind = "Accept"
      BY <1>5, <2>1, <3>1, CommitRows, RowsApart
    <3> QED  BY <1>3, <1>4, <2>1, <3>1, <3>2, RowsApart DEF MetOK
  <2> QED  BY <2>2, <2>3
<1>10. Entered(u)'
  <2> SUFFICES ASSUME op[u].kind = "Accept", actor[u] # NoGuild, status'[actor[u].guild] = "dissolved"
               PROVE  "stranded" \in met[actor[u].guild]
    BY <1>1 DEF Entered
  <2>1. actor[u].guild \in Guilds
    BY DEF IndInv, TypeOK, Rows
  <2>2. CASE status[actor[u].guild] = "dissolved"
    BY <1>3, <2>2 DEF TaskOK, Entered
  <2>3. CASE status[actor[u].guild] # "dissolved"
    <3>1. actor[u].guild = g /\ op[t].kind = "Dissolve"
      BY <1>5, <2>1, <2>3, CommitStatus, CommitRows
    <3> QED  BY <1>3, <1>4, <3>1 DEF MetOK
  <2> QED  BY <2>2, <2>3
<1>11. Received(u)'
  <2> SUFFICES ASSUME HandsOver(u), pc[u] \in {"demote", "promote", "commit"}
               PROVE  \/ /\ op[u].who \in Members(Guild(u))'
                         /\ pc[u] = "commit" => Leads(memberW[u][op[u].who], Guild(u))
                      \/ "headless" \in met[Guild(u)]
                      \/ status'[Guild(u)] = "dissolved"
    BY <1>1, <1>2 DEF Received, HandsOver, Leads
  <2>1. actor[u] \in Rows /\ Guild(u) = actor[u].guild /\ Guild(u) \in Guilds
    BY GuildOK DEF HandsOver
  <2>2. CASE status[Guild(u)] = "dissolved"
    BY <1>5, <2>1, <2>2, CommitStatus, CommitRows, RowsApart
  <2>3. CASE /\ op[u].who \in Members(Guild(u))
             /\ pc[u] = "commit" => Leads(memberW[u][op[u].who], Guild(u))
    <3>1. CASE op[u].who \in Members(Guild(u))'
      BY <2>3, <3>1
    <3>2. CASE op[u].who \notin Members(Guild(u))'
      <4>1. op[u].who \in Commanders /\ member[op[u].who] # NoGuild /\ member[op[u].who].guild = Guild(u)
        BY <2>3 DEF Members
      <4>2. memberW[t][op[u].who] # Same /\ Guild(u) = g /\ member'[op[u].who] = NoGuild
        BY <1>2, <3>2, <4>1, CommitRows DEF Members
      <4>3. op[t].kind \in {"Fire", "Quit", "Dissolve"}
        BY <4>1, <4>2, CommitRows
      <4>4. CASE op[t].kind = "Dissolve"
        BY <4>2, <4>4, CommitStatus
      <4>5. CASE Departs(t)
        <5>1. Subject(t) = op[u].who
          BY <4>1, <4>2, <4>5 DEF OverlapInv, TaskOK, Locked
        <5> QED  BY <1>3, <1>4, <2>1, <4>2, <4>3, <4>5, <5>1, RowsApart DEF MetOK, Departs
      <4> QED  BY <4>3, <4>4, <4>5 DEF Departs
    <3> QED  BY <3>1, <3>2
  <2> QED  BY <1>3, <2>2, <2>3 DEF TaskOK, Received
<1>12. Leaves(u)'
  <2> SUFFICES ASSUME Departs(u), pc[u] \in {"delete", "info", "count", "recount", "commit"},
                      Leads(member'[Subject(u)], Guild(u))
               PROVE  "headless" \in met[Guild(u)]
    BY <1>1, <1>2 DEF Leaves, Departs, Leads
  <2>1. actor[u] \in Rows /\ Guild(u) = actor[u].guild /\ Guild(u) \in Guilds
    BY GuildOK DEF Departs
  <2>2. Subject(u) \in Commanders
    BY GuildAssumption DEF IndInv, TypeOK, HandlersOK, Fits, Subject
  <2>3. CASE Leads(member[Subject(u)], Guild(u))
    BY <1>3, <2>3 DEF TaskOK, Leaves
  <2>4. CASE ~Leads(member[Subject(u)], Guild(u))
    <3>1. memberW[t][Subject(u)] # Same /\ Leads(memberW[t][Subject(u)], Guild(u))
      BY <2>2, <2>4, CommitRows
    <3>2. op[t].kind # "Create"
      <4> SUFFICES ASSUME op[t].kind = "Create" PROVE FALSE
        OBVIOUS
      <4>1. Guild(u) = g
        BY <2>1, <2>2, <3>1 DEF IndInv, WritesOK, Guild, Claims
      <4> QED  BY <1>5, <2>1, <4>1, RowsApart
    <3>3. Claims(t, Guild(u)) /\ Subject(u) = op[t].who /\ op[t].duty = "Commander"
      BY <2>1, <2>2, <3>1, <3>2 DEF IndInv, WritesOK
    <3>4. HandsOver(t) /\ actor[t] # NoGuild /\ actor[t].guild = Guild(u)
      BY <1>4, <3>2, <3>3 DEF HandsOver, Claims, Leads
    <3> QED  BY <1>3, <2>1, <3>3, <3>4, RowsApart DEF MetOK
  <2> QED  BY <2>3, <2>4
<1> QED  BY <1>6, <1>7, <1>8, <1>9, <1>10, <1>11, <1>12 DEF TaskOK

\* What has been counted is stored, and true unless somebody has committed since.
LEMMA CommitCounts ==
  ASSUME IndInv, OverlapInv, NEW t \in Tasks, Commit(t), NEW g, g = Guild(t)
  PROVE  CountIsExact'
<1> SUFFICES ASSUME NEW h \in Guilds, status'[h] = "active", h \notin miscounted'
             PROVE  count'[h] = Cardinality(Members(h)')
  BY DEF CountIsExact
<1>1. g \in Guilds /\ pc[t] = "commit"
      /\ op[t].kind \in {"SetDuty", "Fire", "Quit", "Dissolve", "Accept", "Create"}
  BY CommitRows
<1>2. miscounted' = IF op[t].kind \notin {"Fire", "Quit", "Accept"} THEN miscounted
                    ELSE IF t \in outrun THEN miscounted \cup {g} ELSE miscounted \ {g}
  BY DEF Commit
<1>3. CASE h # g
  <2>1. status[h] = "active" /\ h \notin miscounted /\ count'[h] = count[h] /\ Members(h)' = Members(h)
    BY <1>2, <1>3, CommitStatus, CommitMembers
  <2> QED  BY <2>1 DEF OverlapInv, CountIsExact
<1>4. CASE h = g /\ op[t].kind = "Create"
  <2>1. count'[g] = 1 /\ Members(g)' = {Of[t]}
    BY <1>4, CommitStatus, CommitMembers
  <2>2. Cardinality({Of[t]}) = 1
    BY FS_Singleton
  <2> QED  BY <1>4, <2>1, <2>2
<1>5. CASE h = g /\ op[t].kind = "SetDuty"
  <2>1. status[h] = "active" /\ h \notin miscounted /\ count'[h] = count[h] /\ Members(h)' = Members(h)
    BY <1>2, <1>5, CommitStatus, CommitMembers
  <2> QED  BY <2>1 DEF OverlapInv, CountIsExact
<1>6. CASE h = g /\ op[t].kind \in {"Fire", "Quit", "Accept"}
  <2>1. t \notin outrun
    BY <1>2, <1>6
  <2>2. counted[t] = Cardinality(SeenMembers(t))
    BY <1>1, <1>6, <2>1 DEF OverlapInv, TaskOK, CountFits
  <2> QED  BY <1>6, <2>2, CommitStatus, CommitMembers
<1>7. CASE h = g /\ op[t].kind = "Dissolve"
  BY <1>7, CommitStatus
<1> QED  BY <1>1, <1>3, <1>4, <1>5, <1>6, <1>7

\* Those who are left when a guild is dissolved, or enter it then, were accepted meanwhile.
LEMMA CommitStrands ==
  ASSUME IndInv, OverlapInv, NEW t \in Tasks, Commit(t), NEW g, g = Guild(t)
  PROVE  NobodyStranded'
<1> SUFFICES ASSUME NEW c \in Commanders, member'[c] # NoGuild,
                    NEW h, h = member'[c].guild, status'[h] = "dissolved"
             PROVE  "stranded" \in met[h]
  BY CommitStatus DEF NobodyStranded
<1>1. g \in Guilds /\ pc[t] = "commit"
      /\ op[t].kind \in {"SetDuty", "Fire", "Quit", "Dissolve", "Accept", "Create"}
  BY CommitRows
<1>2. op[t].kind # "Create" => actor[t] # NoGuild /\ actor[t].guild = g
  BY CommitRows, RowsApart
<1>3. CASE memberW[t][c] = Same
  <2>1. member[c] # NoGuild /\ member[c].guild = h /\ h \in Guilds
    BY <1>3, CommitRows DEF IndInv, TypeOK, Rows
  <2>2. CASE status[h] = "dissolved"
    BY <2>1, <2>2 DEF OverlapInv, NobodyStranded
  <2>3. CASE status[h] # "dissolved"
    <3>1. h = g /\ op[t].kind = "Dissolve"
      BY <1>1, <2>1, <2>3, CommitStatus
    <3> QED  BY <1>1, <1>3, <2>1, <3>1 DEF OverlapInv, TaskOK, Emptied, Members
  <2> QED  BY <2>2, <2>3
<1>4. CASE memberW[t][c] # Same
  <2>1. h = g /\ op[t].kind \in {"SetDuty", "Accept", "Create"}
    BY <1>1, <1>4, CommitRows
  <2>2. op[t].kind # "Create" /\ status[h] = "dissolved"
    BY <2>1, CommitStatus
  <2>3. CASE op[t].kind = "SetDuty"
    <3>1. member[c] # NoGuild /\ member[c].guild = h
      BY <1>4, <2>1, <2>3, CommitRows
    <3> QED  BY <2>2, <3>1 DEF OverlapInv, NobodyStranded
  <2>4. CASE op[t].kind = "Accept"
    BY <1>2, <2>1, <2>2, <2>4 DEF OverlapInv, TaskOK, Entered
  <2> QED  BY <2>1, <2>2, <2>3, <2>4
<1> QED  BY <1>3, <1>4

\* Whoever leads is overwritten only by a handover, and then there is a new commander.
LEMMA CommitLeads ==
  ASSUME IndInv, OverlapInv, NEW t \in Tasks, Commit(t), NEW g, g = Guild(t)
  PROVE  NeverHeadless'
<1> SUFFICES ASSUME NEW h \in Guilds, status'[h] = "active", ~doubled, "headless" \notin met[h]
             PROVE  \E c \in Commanders : Leads(member'[c], h)
  BY CommitStatus DEF NeverHeadless, Leaders
<1>1. g \in Guilds /\ pc[t] = "commit"
      /\ op[t].kind \in {"SetDuty", "Fire", "Quit", "Dissolve", "Accept", "Create"}
  BY CommitRows
<1>2. CASE h = g /\ op[t].kind = "Create"
  <2>1. Of[t] \in Commanders /\ Leads(memberW[t][Of[t]], g)
    BY <1>1, <1>2, GuildAssumption DEF OverlapInv, TaskOK, Placed, Guild
  <2>2. memberW[t][Of[t]] # Same
    BY <1>1, <2>1, RowsApart
  <2> QED  BY <1>2, <2>1, <2>2, CommitRows
<1>3. CASE h # g \/ op[t].kind # "Create"
  <2>1. status[h] = "active" /\ (h = g => op[t].kind # "Dissolve")
    BY <1>3, <1>1, CommitStatus
  <2>2. PICK c \in Commanders : Leads(member[c], h)
    BY <2>1 DEF OverlapInv, NeverHeadless, Leaders
  <2>3. CASE memberW[t][c] = Same
    BY <2>2, <2>3, CommitRows
  <2>4. CASE memberW[t][c] # Same
    <3>1. member[c] # NoGuild /\ member[c].guild = h
      BY <2>2, RowsApart DEF Leads
    <3>2. h = g /\ op[t].kind \in {"SetDuty", "Fire", "Quit"}
      BY <1>1, <1>3, <2>1, <2>4, <3>1, CommitRows
    <3>3. Locked(t) /\ Received(t) /\ Leaves(t)
      BY DEF OverlapInv, TaskOK
    <3>4. CASE Departs(t)
      BY <1>1, <2>2, <2>4, <3>2, <3>3, <3>4 DEF Locked, Leaves
    <3>5. CASE HandsOver(t)
      <4>1. op[t].who \in Commanders /\ Leads(memberW[t][op[t].who], h)
        BY <1>1, <2>1, <3>2, <3>3, <3>5 DEF Received, Members
      <4>2. memberW[t][op[t].who] # Same
        BY <4>1, RowsApart
      <4> QED  BY <4>1, <4>2, CommitRows
    <3>6. CASE op[t].kind = "SetDuty" /\ ~HandsOver(t)
      <4>1. c = op[t].who
        BY <2>4, <3>3, <3>6 DEF Locked
      <4>2. actor[t].duty = "Commander" /\ op[t].who # Of[t]
        BY <1>1, <3>6 DEF IndInv, HandlersOK, Fits
      <4>3. Claims(t, h)
        <5>1. actor[t] \in Rows /\ actor[t].guild = h
          BY <3>2, <3>6, CommitRows
        <5> QED  BY <3>6, <4>2, <5>1 DEF Claims, Leads, Rows
      <4>4. c = Of[t]
        BY <2>2, <4>3 DEF IndInv, LeadersOK
      <4> QED  BY <4>1, <4>2, <4>4
    <3> QED  BY <3>2, <3>4, <3>5, <3>6 DEF Departs
  <2> QED  BY <2>3, <2>4
<1> QED  BY <1>2, <1>3

LEMMA CommitOverlap == ASSUME IndInv, OverlapInv, NEW t \in Tasks, Commit(t) PROVE OverlapInv'
<1> PICK g : g = Guild(t)
  OBVIOUS
<1>1. RecordsOK'
  <2>1. count' \in [Guilds -> Nat]
    BY DEF Commit, OverlapInv, RecordsOK
  <2>2. counted' \in [Tasks -> Nat] /\ left' \in [Tasks -> SUBSET Commanders]
    BY DEF Commit, Ends, OverlapInv, RecordsOK
  <2>3. outrun' \subseteq Tasks
    BY DEF Commit, InTx, OverlapInv, RecordsOK
  <2>4. miscounted' \subseteq Guilds
    <3>1. g \in Guilds
      BY CommitRows
    <3> QED  BY <3>1 DEF Commit, OverlapInv, RecordsOK
  <2> QED  BY <2>1, <2>2, <2>3, <2>4, CommitStatus DEF OverlapInv, RecordsOK
<1>2. /\ \A u \in Tasks \ {t} : op'[u] = op[u] /\ actor'[u] = actor[u] /\ memberW'[u] = memberW[u]
      /\ pc'[t] = "idle" /\ actor'[t] = NoGuild /\ met' = met
      /\ \A c \in Commanders : memberW'[t][c] = Same
  BY CommitStatus
<1>3. ASSUME NEW u \in Tasks PROVE TaskOK(u)'
  <2>1. CASE u = t
    BY <1>2, <2>1 DEF TaskOK, Placed, Locked, CountFits, Emptied, Entered, Received, Leaves
  <2>2. CASE u # t
    BY <2>2, CommitOthers
  <2> QED  BY <2>1, <2>2
<1>4. ASSUME NEW u \in Tasks, NEW v \in Tasks PROVE MetOK(u, v)'
  <2>1. CASE u = t \/ v = t
    BY <1>2, <2>1 DEF MetOK
  <2>2. CASE u # t /\ v # t
    <3>1. MetOK(u, v)
      BY DEF OverlapInv
    <3>2. Subject(v)' = Subject(v)
      BY <1>2, <2>2 DEF Subject
    <3> QED  BY <1>2, <2>2, <3>1, <3>2 DEF MetOK, HandsOver, Departs
  <2> QED  BY <2>1, <2>2
<1>5. LocksApart'
  <2>1. \A u, v \in Tasks, c \in Commanders :
          memberW'[u][c] # Same /\ memberW'[v][c] # Same => u # t /\ v # t
    BY <1>2
  <2> QED  BY <1>2, <2>1 DEF OverlapInv, LocksApart
<1> QED  BY <1>1, <1>3, <1>4, <1>5, CommitCounts, CommitStrands, CommitLeads DEF OverlapInv

-----------------------------------------------------------------------------
(* The theorems on counts, dissolutions and handovers.                     *)

LEMMA StepOverlap == ASSUME IndInv, OverlapInv, NEW t \in Tasks, Step(t) PROVE OverlapInv'
BY ConnectOverlap, ReadActorOverlap, ReadTargetOverlap, ReadGuildOverlap, DemoteOverlap, PromoteOverlap,
   DeleteOverlap, InsertOverlap, UpdateInfoOverlap, CountMembersOverlap, UpdateGuildOverlap,
   SnapshotOverlap, ClearInfoOverlap, DeleteMemberOverlap, EndOfRowsOverlap, CommitOverlap,
   QuietOverlap, AskOverlap
DEF Step

\* Nothing that OverlapInv is about changes.
LEMMA StaysOverlap ==
  ASSUME OverlapInv,
         UNCHANGED <<status, count, member, pc, op, actor, left, counted, memberW, doubled, met, outrun, miscounted>>
  PROVE  OverlapInv'
<1>1. RecordsOK'
  BY DEF OverlapInv, RecordsOK
<1>2. \A t \in Tasks : TaskOK(t)'
  <2>1. \A t \in Tasks : Guild(t)' = Guild(t) /\ Subject(t)' = Subject(t)
    BY DEF Guild, Subject
  <2>2. \A t \in Tasks : Placed(t)' /\ Locked(t)' /\ Emptied(t)' /\ Entered(t)' /\ Received(t)' /\ Leaves(t)'
    BY <2>1 DEF OverlapInv, TaskOK, Placed, Locked, Emptied, Entered, Received, Leaves, HandsOver,
                Departs, Members, Leads
  <2>3. \A t \in Tasks : CountFits(t)'
    BY <2>1 DEF OverlapInv, TaskOK, CountFits, SeenMembers, Members
  <2> QED  BY <2>2, <2>3 DEF TaskOK
<1>3. \A t, u \in Tasks : MetOK(t, u)'
  BY DEF OverlapInv, MetOK, HandsOver, Departs, Subject
<1>4. LocksApart' /\ CountIsExact' /\ NobodyStranded' /\ NeverHeadless'
  BY DEF OverlapInv, LocksApart, CountIsExact, NobodyStranded, NeverHeadless, Members, Leaders, Leads
<1> QED  BY <1>1, <1>2, <1>3, <1>4 DEF OverlapInv

\* Rows are locked from their writing to the commit, a count that nobody has outrun is
\* that of the members there will be, and operations that cross are remembered.
THEOREM OverlapInvariance == Spec => []OverlapInv
<1>1. Init => OverlapInv
  BY InitOverlap
<1>2. IndInv /\ OverlapInv /\ [Next]_vars => OverlapInv'
  <2> SUFFICES ASSUME IndInv, OverlapInv, [Next]_vars PROVE OverlapInv'
    OBVIOUS
  <2>1. CASE Next
    <3>1. ASSUME NEW t \in Tasks, Begin(t) PROVE OverlapInv'
      BY <3>1, BeginOverlap
    <3>2. ASSUME NEW t \in Tasks, Step(t) PROVE OverlapInv'
      BY <3>2, StepOverlap
    <3>3. ASSUME NEW t \in Tasks, Fails(t) \/ DeadlockDetected(t) PROVE OverlapInv'
      BY <3>3, QuietOverlap
    <3>4. ASSUME NEW c \in Commanders, CooldownEnds(c) PROVE OverlapInv'
      BY <3>4, StaysOverlap DEF CooldownEnds, workVars, historyVars
    <3> QED  BY <2>1, <3>1, <3>2, <3>3, <3>4 DEF Next
  <2>2. CASE UNCHANGED vars
    BY <2>2, StaysOverlap DEF vars, dbVars, workVars, historyVars
  <2> QED  BY <2>1, <2>2
<1> QED  BY <1>1, <1>2, Invariance, PTL DEF Spec

\* A guild is not left without a commander, unless a handover has overlapped with the
\* departure of the one to whom it goes, or two sessions of one commander were busy at once.
THEOREM GuildsAreLed == Spec => []NeverHeadless
<1>1. OverlapInv => NeverHeadless
  BY DEF OverlapInv
<1> QED  BY <1>1, OverlapInvariance, PTL

\* Nobody is a member of a dissolved guild, unless accepted while it was being dissolved.
THEOREM NoneStranded == Spec => []NobodyStranded
<1>1. OverlapInv => NobodyStranded
  BY DEF OverlapInv
<1> QED  BY <1>1, OverlapInvariance, PTL

\* member_count is the number of members, unless it was counted before another commit.
THEOREM CountsAreExact == Spec => []CountIsExact
<1>1. OverlapInv => CountIsExact
  BY DEF OverlapInv
<1> QED  BY <1>1, OverlapInvariance, PTL

-----------------------------------------------------------------------------
(* Nothing hangs: who waits does so for a handler that goes on, or there is  *)
(* a deadlock to be detected, or the pool is exhausted.                      *)

Outside == {"idle", "connect", "ask", "put"}

\* A handler goes to p with the rows it had, or takes the connection that is free.
LEMMA HoldsStays ==
  ASSUME IndInv, HoldsInv, NEW t \in Tasks, NEW p, pc' = [pc EXCEPT ![t] = p],
         p \in Outside \/ t \in InTx \/ FreeConnection,
         infoW' \in [Tasks -> [Commanders -> Guilds \cup {NoGuild, Same}]],
         p \in Unwriting => memberW'[t] = Unwritten /\ infoW'[t] = Unwritten,
         \A u \in Tasks \ {t} : memberW'[u] = memberW[u] /\ infoW'[u] = infoW[u]
  PROVE  HoldsInv'
<1>1. pc'[t] = p /\ \A u \in Tasks \ {t} : pc'[u] = pc[u]
  BY DEF IndInv, TypeOK
<1>2. IsFiniteSet(InTx) /\ Cardinality(InTx) \in Nat
  <2>1. InTx \in SUBSET Tasks
    BY DEF InTx
  <2> QED  BY <2>1, GuildAssumption, FS_Subset, FS_CardinalityType
<1>3. Cardinality(InTx)' <= Connections
  <2>1. CASE p \in Outside \/ t \in InTx
    <3>1. InTx' \in SUBSET InTx
      BY <1>1, <2>1 DEF InTx, Outside
    <3>2. Cardinality(InTx') <= Cardinality(InTx) /\ Cardinality(InTx') \in Nat
      BY <1>2, <3>1, FS_Subset, FS_CardinalityType
    <3> QED  BY <1>2, <3>2, GuildAssumption DEF HoldsInv
  <2>2. CASE p \notin Outside /\ t \notin InTx
    <3>1. InTx' = InTx \cup {t}
      BY <1>1, <2>2 DEF InTx, Outside
    <3>2. Cardinality(InTx') = Cardinality(InTx) + 1
      BY <1>2, <2>2, <3>1, FS_AddElement
    <3> QED  BY <1>2, <2>2, <3>2, GuildAssumption DEF FreeConnection
  <2> QED  BY <2>1, <2>2
<1>4. \A u \in Tasks : pc'[u] \in Unwriting => memberW'[u] = Unwritten /\ infoW'[u] = Unwritten
  BY <1>1 DEF HoldsInv
<1> QED  BY <1>3, <1>4 DEF HoldsInv, Unwritten

\* Nothing that HoldsInv is about changes.
LEMMA HoldsUnchanged ==
  ASSUME HoldsInv, UNCHANGED <<pc, memberW, infoW>>
  PROVE  HoldsInv'
BY DEF HoldsInv, InTx

LEMMA HoldsEnds == ASSUME IndInv, HoldsInv, NEW t \in Tasks, Ends(t) PROVE HoldsInv'
<1>1. /\ infoW' \in [Tasks -> [Commanders -> Guilds \cup {NoGuild, Same}]]
      /\ memberW'[t] = Unwritten /\ infoW'[t] = Unwritten
      /\ \A u \in Tasks \ {t} : memberW'[u] = memberW[u] /\ infoW'[u] = infoW[u]
  BY DEF Ends, Unwritten, HoldsInv, IndInv, TypeOK
<1> QED  BY <1>1, HoldsStays DEF Ends, Outside

\* A handler that reads, or waits, and writes nothing.
LEMMA HoldsReads ==
  ASSUME IndInv, HoldsInv, NEW t \in Tasks, NEW p, pc' = [pc EXCEPT ![t] = p],
         p \in Outside \/ t \in InTx \/ FreeConnection, p \in Unwriting => pc[t] \in Unwriting,
         UNCHANGED <<memberW, infoW>>
  PROVE  HoldsInv'
BY HoldsStays DEF HoldsInv

\* A handler that writes a membership.
LEMMA HoldsWrites ==
  ASSUME IndInv, HoldsInv, NEW t \in Tasks, NEW p, pc' = [pc EXCEPT ![t] = p],
         t \in InTx, p \notin Unwriting, infoW' = infoW,
         \A u \in Tasks \ {t} : memberW'[u] = memberW[u]
  PROVE  HoldsInv'
BY HoldsStays DEF HoldsInv

LEMMA HoldsWriteMember ==
  ASSUME IndInv, HoldsInv, NEW t \in Tasks, NEW p, pc' = [pc EXCEPT ![t] = p],
         t \in InTx, p \notin Unwriting, infoW' = infoW, NEW c, NEW row, WriteMember(t, c, row)
  PROVE  HoldsInv'
<1>1. \A u \in Tasks \ {t} : memberW'[u] = memberW[u]
  BY DEF WriteMember, IndInv, TypeOK
<1> QED  BY <1>1, HoldsWrites

\* A handler that writes a row of guild_user_infos.
LEMMA HoldsWritesInfo ==
  ASSUME IndInv, HoldsInv, NEW t \in Tasks, NEW p, pc' = [pc EXCEPT ![t] = p],
         t \in InTx, p \notin Unwriting, memberW' = memberW,
         NEW c \in Commanders, NEW g \in Guilds \cup {NoGuild, Same}, infoW' = [infoW EXCEPT ![t][c] = g]
  PROVE  HoldsInv'
<1>1. infoW' \in [Tasks -> [Commanders -> Guilds \cup {NoGuild, Same}]]
  BY DEF HoldsInv
<1>2. \A u \in Tasks \ {t} : infoW'[u] = infoW[u]
  BY DEF HoldsInv
<1> QED  BY <1>1, <1>2, HoldsStays

LEMMA HoldsStep == ASSUME IndInv, OverlapInv, HoldsInv, NEW t \in Tasks, Step(t) PROVE HoldsInv'
<1>1. pc \in [Tasks -> Places] /\ pc = [pc EXCEPT ![t] = pc[t]]
  BY DEF IndInv, TypeOK
<1>2. CASE Connect(t)
  BY <1>2, HoldsReads DEF Connect, workVars, Unwriting
<1>3. CASE ReadActor(t)
  BY <1>3, HoldsReads DEF ReadActor, InTx, Unwriting
<1>4. CASE ReadTarget(t)
  BY <1>4, HoldsReads DEF ReadTarget, InTx, Unwriting
<1>5. CASE ReadGuild(t)
  BY <1>5, HoldsReads DEF ReadGuild, InTx, Unwriting, workVars
<1>6. CASE Demote(t)
  BY <1>6, HoldsWriteMember DEF Demote, InTx, Unwriting
<1>7. CASE Promote(t)
  BY <1>7, HoldsWriteMember DEF Promote, InTx, Unwriting
<1>8. CASE Delete(t)
  BY <1>8, HoldsWriteMember DEF Delete, InTx, Unwriting
<1>9. CASE Insert(t)
  <2>1. pc[t] = "insert" /\ infoW' = infoW /\ t \in InTx
    BY <1>9 DEF Insert, InTx
  <2>2. CASE member[Subject(t)] # NoGuild
    BY <1>9, <2>1, <2>2, HoldsReads DEF Insert, Unwriting
  <2>3. CASE member[Subject(t)] = NoGuild
    <3>1. pc' = [pc EXCEPT ![t] = "info"] /\ \A u \in Tasks \ {t} : memberW'[u] = memberW[u]
      BY <1>9, <2>3 DEF Insert, IndInv, TypeOK
    <3> QED  BY <2>1, <3>1, HoldsWrites DEF Unwriting
  <2> QED  BY <2>2, <2>3
<1>10. CASE UpdateInfo(t)
  <2>1. /\ pc[t] = "info" /\ t \in InTx /\ memberW' = memberW
        /\ pc' = [pc EXCEPT ![t] = IF op[t].kind = "Create" THEN "commit" ELSE "count"]
        /\ infoW' = [infoW EXCEPT ![t][Subject(t)] = IF op[t].kind \in {"Fire", "Quit"} THEN NoGuild ELSE Guild(t)]
    BY <1>10 DEF UpdateInfo, InTx
  <2>2. op[t] \in Requests /\ Subject(t) \in Commanders
    <3>1. op[t] \in Requests
      BY <2>1 DEF IndInv, TypeOK, HandlersOK, Fits
    <3> QED  BY <3>1, GuildAssumption DEF Subject
  <2>3. Guild(t) \in Guilds
    <3>1. CASE op[t].kind = "Create"
      BY <2>2, <3>1, GuildAssumption DEF Guild
    <3>2. CASE op[t].kind # "Create"
      BY <2>1, <3>2, GuildOK
    <3> QED  BY <3>1, <3>2
  <2>4. PICK g \in Guilds \cup {NoGuild, Same} : infoW' = [infoW EXCEPT ![t][Subject(t)] = g]
    BY <2>1, <2>3
  <2>5. PICK p \in {"commit", "count"} : pc' = [pc EXCEPT ![t] = p]
    BY <2>1
  <2> QED  BY <2>1, <2>2, <2>4, <2>5, HoldsWritesInfo DEF Unwriting
<1>11. CASE CountMembers(t)
  BY <1>11, HoldsReads DEF CountMembers, InTx, Unwriting
<1>12. CASE UpdateGuild(t)
  BY <1>12, HoldsReads DEF UpdateGuild, InTx, Unwriting, workVars
<1>13. CASE Snapshot(t)
  BY <1>13, HoldsReads DEF Snapshot, InTx, Unwriting
<1>14. CASE ClearInfo(t)
  <2>1. pc[t] = "infoRows" /\ t \in InTx /\ memberW' = memberW /\ pc' = pc /\ left[t] \subseteq Commanders
    BY <1>14 DEF ClearInfo, InTx, OverlapInv, RecordsOK
  <2>2. PICK c \in left[t] : infoW' = [infoW EXCEPT ![t][c] = IF info[c] = Guild(t) THEN NoGuild ELSE @]
    BY <1>14 DEF ClearInfo
  <2>3. PICK g \in Guilds \cup {NoGuild, Same} : infoW' = [infoW EXCEPT ![t][c] = g]
    BY <2>1, <2>2 DEF HoldsInv
  <2> QED  BY <1>1, <2>1, <2>3, HoldsWritesInfo DEF Unwriting
<1>15. CASE DeleteMember(t)
  <2>1. PICK c \in left[t] : WriteMember(t, c, NoGuild)
    BY <1>15 DEF DeleteMember
  <2>2. pc[t] = "memberRows" /\ pc' = pc /\ infoW' = infoW /\ t \in InTx
    BY <1>15 DEF DeleteMember, InTx
  <2> QED  BY <1>1, <2>1, <2>2, HoldsWriteMember DEF Unwriting
<1>16. CASE EndOfRows(t)
  BY <1>16, HoldsReads DEF EndOfRows, InTx, Unwriting, workVars
<1>17. CASE Commit(t) \/ Rollback(t) \/ Put(t)
  BY <1>17, HoldsEnds DEF Commit, Rollback, Aborts, Put
<1>18. CASE Ask(t)
  <2>1. CASE MayPut(t)
    BY <1>18, <2>1, HoldsReads DEF Ask, Outside, Unwriting
  <2>2. CASE ~MayPut(t)
    BY <1>18, <2>2, HoldsEnds DEF Ask
  <2> QED  BY <2>1, <2>2
<1> QED
  BY <1>2, <1>3, <1>4, <1>5, <1>6, <1>7, <1>8, <1>9, <1>10, <1>11, <1>12, <1>13, <1>14, <1>15, <1>16,
     <1>17, <1>18
  DEF Step

\* A handler holds no row before its first write, nor after it has ended, and the pool is
\* never exceeded.
THEOREM HoldsInvariance == Spec => []HoldsInv
<1>1. ASSUME Init PROVE HoldsInv
  <2>1. InTx = {}
    BY <1>1 DEF Init, InTx
  <2>2. Cardinality(InTx) <= Connections
    BY <2>1, FS_EmptySet, GuildAssumption
  <2> QED  BY <1>1, <2>2 DEF Init, HoldsInv, Unwritten
<1>2. IndInv /\ OverlapInv /\ HoldsInv /\ [Next]_vars => HoldsInv'
  <2> SUFFICES ASSUME IndInv, OverlapInv, HoldsInv, [Next]_vars PROVE HoldsInv'
    OBVIOUS
  <2>1. CASE Next
    <3>1. ASSUME NEW t \in Tasks, Begin(t) PROVE HoldsInv'
      <4>1. PICK r \in Requests : pc' = [pc EXCEPT ![t] = IF r.kind \in {"Apply", "Reject"} THEN "ask" ELSE "connect"]
        BY <3>1 DEF Begin
      <4> QED  BY <3>1, <4>1, HoldsReads DEF Begin, Outside, Unwriting
    <3>2. ASSUME NEW t \in Tasks, Step(t) PROVE HoldsInv'
      BY <3>2, HoldsStep
    <3>3. ASSUME NEW t \in Tasks, Fails(t) \/ DeadlockDetected(t) PROVE HoldsInv'
      BY <3>3, HoldsEnds DEF Fails, DeadlockDetected, Aborts
    <3>4. ASSUME NEW c \in Commanders, CooldownEnds(c) PROVE HoldsInv'
      BY <3>4, HoldsUnchanged DEF CooldownEnds, workVars
    <3> QED  BY <2>1, <3>1, <3>2, <3>3, <3>4 DEF Next
  <2>2. CASE UNCHANGED vars
    BY <2>2, HoldsUnchanged DEF vars, workVars
  <2> QED  BY <2>1, <2>2
<1> QED  BY <1>1, <1>2, Invariance, OverlapInvariance, PTL DEF Spec

\* Where each waits for another, some wait in a circle: the smallest set closed under
\* waiting leaves nobody out that nobody waits for.
LEMMA CircleExists ==
  ASSUME NEW R, IsFiniteSet(R), R # {}, \A u \in R : \E v \in R : WaitsFor(u, v)
  PROVE  \E S \in SUBSET R : S # {} /\ Circle(S)
<1> DEFINE Closed == {S \in SUBSET R : S # {} /\ \A u \in S : \E v \in S : WaitsFor(u, v)}
<1>1. R \in Closed /\ Closed \subseteq FiniteSubsetsOf(R)
  BY FS_Subset DEF FiniteSubsetsOf
<1>2. PICK S \in Closed : \A T \in Closed : <<T, S>> \notin StrictSubsetOrdering(R)
  <2> HIDE DEF Closed
  <2> QED  BY <1>1, WFMin, FS_StrictSubsetOrderingWellFounded
<1>3. ASSUME NEW v \in S, \A u \in S : ~WaitsFor(u, v) PROVE FALSE
  <2>1. \E w \in S : WaitsFor(v, w) /\ w # v
    BY <1>3 DEF WaitsFor
  <2>2. S \ {v} \in Closed
    BY <1>3, <2>1
  <2>3. <<S \ {v}, S>> \in StrictSubsetOrdering(R)
    BY DEF StrictSubsetOrdering
  <2> QED  BY <1>2, <2>2, <2>3
<1> QED  BY <1>3 DEF Circle

\* Who has to wait and is not waiting for a connection waits for somebody's row.
LEMMA WaitsForSomebody ==
  ASSUME IndInv, OverlapInv, NEW t \in Tasks, pc[t] # "idle", ~CanStep(t),
         pc[t] \notin {"connect", "second", "ask", "put"}
  PROVE  \E u \in Tasks : WaitsFor(t, u)
<1>1. /\ pc[t] \in {"insert", "demote", "promote", "delete", "info", "infoRows", "memberRows", "recount", "close"}
      /\ left[t] \subseteq Commanders
  BY DEF IndInv, TypeOK, Places, CanStep, OverlapInv, RecordsOK
<1>2. CASE pc[t] \in {"insert", "demote", "promote", "delete"}
  BY <1>2 DEF CanStep, MemberLocked, WaitsFor
<1>3. CASE pc[t] = "info"
  BY <1>3 DEF CanStep, InfoLocked, WaitsFor, InfoWanted
<1>4. CASE pc[t] = "infoRows"
  BY <1>4 DEF CanStep, InfoLocked, WaitsFor, InfoWanted
<1>5. CASE pc[t] = "memberRows"
  BY <1>5 DEF CanStep, MemberLocked, WaitsFor
<1>6. CASE pc[t] \in {"recount", "close"}
  <2>1. \A u \in Tasks : HasGuild(u, Guild(t)) => u # t
    BY <1>6 DEF HasGuild
  <2> QED  BY <1>6, <2>1 DEF CanStep, WaitsFor
<1> QED  BY <1>1, <1>2, <1>3, <1>4, <1>5, <1>6

\* Nobody waits for the row of one who is not yet, or not any more, writing.
LEMMA WaitedForWrites ==
  ASSUME IndInv, OverlapInv, HoldsInv, NEW t \in Tasks, NEW u \in Tasks, WaitsFor(t, u)
  PROVE  pc[u] \notin Unwriting
<1> SUFFICES ASSUME pc[u] \in Unwriting PROVE FALSE
  OBVIOUS
<1>1. memberW[u] = Unwritten /\ infoW[u] = Unwritten /\ pc[u] # "commit"
  BY DEF HoldsInv, Unwriting
<1>2. MemberWanted(t) \subseteq Commanders /\ InfoWanted(t) \subseteq Commanders
  <2>1. left[t] \subseteq Commanders
    BY DEF OverlapInv, RecordsOK
  <2>2. pc[t] \in {"insert", "info"} => Subject(t) \in Commanders
    BY GuildAssumption DEF IndInv, TypeOK, HandlersOK, Fits, Subject
  <2>3. Members(Guild(t)) \subseteq Commanders
    BY DEF Members
  <2>4. MemberWanted(t) \subseteq Commanders
    BY <2>1, <2>2, <2>3 DEF MemberWanted
  <2>5. InfoWanted(t) \subseteq Commanders
    BY <2>1, <2>2 DEF InfoWanted
  <2> QED  BY <2>4, <2>5
<1> QED  BY <1>1, <1>2 DEF WaitsFor, HasGuild, Unwritten

\* Handlers that wait, and for each other only, are starved or have a deadlock among them.
THEOREM NothingHangsForever == Spec => []NothingHangs
<1>1. IndInv /\ OverlapInv /\ HoldsInv => NothingHangs
  <2> SUFFICES ASSUME IndInv, OverlapInv, HoldsInv, NEW W \in SUBSET Tasks,
                      NEW b \in W, pc[b] # "idle",
                      \A t \in W : ~CanStep(t) /\ \A u \in Tasks : WaitsOn(t, u) => u \in W
               PROVE  Starved \/ \E S \in SUBSET (W \cap InTx) : S # {} /\ Circle(S)
    BY DEF NothingHangs
  <2> DEFINE R == {t \in W : pc[t] \notin {"idle", "connect", "second", "ask", "put"}}
  <2>1. ASSUME NEW t \in W, NEW u \in Tasks, WaitsFor(t, u) PROVE u \in R
    BY <2>1, WaitedForWrites DEF WaitsOn, Unwriting
  <2>2. \A t \in R : \E u \in R : WaitsFor(t, u)
    BY <2>1, WaitsForSomebody
  <2>3. R \subseteq W \cap InTx
    BY DEF InTx
  <2>4. CASE R # {}
    <3>1. IsFiniteSet(R)
      BY FS_Subset, GuildAssumption
    <3>2. \E S \in SUBSET R : S # {} /\ Circle(S)
      <4> HIDE DEF R
      <4> QED  BY <2>2, <2>4, <3>1, CircleExists
    <3> QED  BY <2>3, <3>2
  <2>5. CASE R = {}
    <3>1. pc[b] \in {"connect", "second", "ask", "put"} /\ ~FreeConnection
      BY <2>5 DEF CanStep
    <3>2. InTx \subseteq W
      BY <3>1 DEF WaitsOn, InTx
    <3>3. \A t \in InTx : pc[t] = "second"
      BY <2>5, <3>2 DEF InTx
    <3>4. Cardinality(InTx) \in Nat
      BY FS_Subset, FS_CardinalityType, GuildAssumption DEF InTx
    <3>5. Cardinality(InTx) = Connections
      BY <3>1, <3>4, GuildAssumption DEF HoldsInv, FreeConnection
    <3> QED  BY <3>3, <3>5 DEF Starved
  <2> QED  BY <2>4, <2>5
<1> QED  BY <1>1, Invariance, OverlapInvariance, HoldsInvariance, PTL

-----------------------------------------------------------------------------
(* The refinement of GuildRoster.                                          *)

\* Only t writes, and what it should.
LEMMA WrittenStays ==
  ASSUME WrittenInv, NEW t \in Tasks,
         \A u \in Tasks \ {t} : op'[u] = op[u] /\ actor'[u] = actor[u] /\ memberW'[u] = memberW[u],
         \A c \in Commanders : memberW'[t][c] # Same => memberW'[t][c] = Written(t, c)'
  PROVE  WrittenInv'
<1>1. ASSUME NEW u \in Tasks, u # t, NEW c \in Commanders, memberW'[u][c] # Same
      PROVE  memberW'[u][c] = Written(u, c)'
  <2>1. Written(u, c)' = Written(u, c)
    BY <1>1 DEF Written, Guild
  <2> QED  BY <1>1, <2>1 DEF WrittenInv
<1> QED  BY <1>1 DEF WrittenInv

\* t writes the row of c, or none.
LEMMA WrittenWrites ==
  ASSUME IndInv, WrittenInv, NEW t \in Tasks, NEW c, op' = op, actor' = actor,
         memberW' = memberW \/ memberW' = [memberW EXCEPT ![t][c] = Written(t, c)]
  PROVE  WrittenInv'
<1>1. \A d \in Commanders : Written(t, d)' = Written(t, d)
  BY DEF Written, Guild
<1>2. /\ \A u \in Tasks \ {t} : memberW'[u] = memberW[u]
      /\ \A d \in Commanders : memberW'[t][d] \in {memberW[t][d], Written(t, d)}
  BY DEF IndInv, TypeOK
<1>3. \A d \in Commanders : memberW'[t][d] # Same => memberW'[t][d] = Written(t, d)'
  BY <1>1, <1>2 DEF WrittenInv
<1> QED  BY <1>2, <1>3, WrittenStays

\* t has written nothing yet, or has ended.
LEMMA WrittenNothing ==
  ASSUME WrittenInv, NEW t \in Tasks, memberW'[t] = Unwritten,
         \A u \in Tasks \ {t} : op'[u] = op[u] /\ actor'[u] = actor[u] /\ memberW'[u] = memberW[u]
  PROVE  WrittenInv'
BY WrittenStays DEF Unwritten

LEMMA WrittenEnds == ASSUME IndInv, WrittenInv, NEW t \in Tasks, Ends(t) PROVE WrittenInv'
<1>1. /\ memberW'[t] = Unwritten
      /\ \A u \in Tasks \ {t} : op'[u] = op[u] /\ actor'[u] = actor[u] /\ memberW'[u] = memberW[u]
  BY DEF Ends, IndInv, TypeOK
<1> QED  BY <1>1, WrittenNothing

LEMMA WrittenStep == ASSUME IndInv, OverlapInv, WrittenInv, NEW t \in Tasks, Step(t) PROVE WrittenInv'
<1>1. CASE Connect(t) \/ ReadTarget(t) \/ ReadGuild(t) \/ UpdateInfo(t) \/ CountMembers(t) \/ UpdateGuild(t)
           \/ Snapshot(t) \/ ClearInfo(t) \/ EndOfRows(t)
  <2>1. op' = op /\ actor' = actor /\ memberW' = memberW
    BY <1>1
    DEF Connect, ReadTarget, ReadGuild, UpdateInfo, CountMembers, UpdateGuild, Snapshot, ClearInfo, EndOfRows, workVars
  <2> QED  BY <2>1, WrittenWrites
<1>2. CASE ReadActor(t)
  <2>1. /\ memberW'[t] = Unwritten
        /\ \A u \in Tasks \ {t} : op'[u] = op[u] /\ actor'[u] = actor[u] /\ memberW'[u] = memberW[u]
    BY <1>2 DEF ReadActor, IndInv, TypeOK, HandlersOK, Fits
  <2> QED  BY <2>1, WrittenNothing
<1>3. CASE Demote(t)
  <2>1. op[t].kind = "SetDuty" /\ Of[t] # op[t].who
    BY <1>3 DEF Demote, IndInv, HandlersOK, Fits
  <2>2. Written(t, Of[t]) = [guild |-> Guild(t), duty |-> "Deputy"]
    BY <2>1 DEF Written
  <2> QED  BY <1>3, <2>2, WrittenWrites DEF Demote, WriteMember
<1>4. CASE Promote(t)
  <2>1. op[t].kind = "SetDuty"
    BY <1>4 DEF Promote, IndInv, HandlersOK, Fits
  <2>2. Written(t, op[t].who) = [guild |-> Guild(t), duty |-> op[t].duty]
    BY <2>1 DEF Written
  <2> QED  BY <1>4, <2>2, WrittenWrites DEF Promote, WriteMember
<1>5. CASE Delete(t)
  <2>1. op[t].kind \in {"Fire", "Quit"}
    BY <1>5 DEF Delete, IndInv, HandlersOK, Fits
  <2>2. Written(t, Subject(t)) = NoGuild
    BY <2>1 DEF Written
  <2> QED  BY <1>5, <2>2, WrittenWrites DEF Delete, WriteMember
<1>6. CASE DeleteMember(t)
  <2>1. op[t].kind = "Dissolve" /\ op' = op /\ actor' = actor
    BY <1>6 DEF DeleteMember, OverlapInv, TaskOK, Placed
  <2>2. PICK c : WriteMember(t, c, NoGuild)
    BY <1>6 DEF DeleteMember
  <2>3. Written(t, c) = NoGuild
    BY <2>1 DEF Written
  <2> QED  BY <2>1, <2>2, <2>3, WrittenWrites DEF WriteMember
<1>7. CASE Insert(t)
  <2>1. op[t].kind \in {"Accept", "Create"}
    BY <1>7 DEF Insert, IndInv, HandlersOK, Fits
  <2>2. Written(t, Subject(t)) = [guild |-> Guild(t), duty |-> IF op[t].kind = "Create" THEN "Commander" ELSE "Ordinary"]
    BY <2>1 DEF Written
  <2> QED  BY <1>7, <2>2, WrittenWrites DEF Insert
<1>8. CASE Commit(t) \/ Rollback(t) \/ Put(t)
  BY <1>8, WrittenEnds DEF Commit, Rollback, Aborts, Put
<1>9. CASE Ask(t)
  <2>1. CASE MayPut(t)
    <3>1. /\ memberW'[t] = Unwritten
          /\ \A u \in Tasks \ {t} : op'[u] = op[u] /\ actor'[u] = actor[u] /\ memberW'[u] = memberW[u]
      BY <1>9, <2>1 DEF Ask, IndInv, TypeOK, HandlersOK, Fits
    <3> QED  BY <3>1, WrittenNothing
  <2>2. CASE ~MayPut(t)
    BY <1>9, <2>2, WrittenEnds DEF Ask
  <2> QED  BY <2>1, <2>2
<1> QED  BY <1>1, <1>2, <1>3, <1>4, <1>5, <1>6, <1>7, <1>8, <1>9 DEF Step

LEMMA WrittenUnchanged ==
  ASSUME WrittenInv, UNCHANGED <<op, actor, memberW>>
  PROVE  WrittenInv'
BY DEF WrittenInv, Written, Guild

\* A transaction has written exactly the rows that its operation is about.
THEOREM WrittenInvariance == Spec => []WrittenInv
<1>1. Init => WrittenInv
  BY DEF Init, WrittenInv, Unwritten
<1>2. IndInv /\ OverlapInv /\ WrittenInv /\ [Next]_vars => WrittenInv'
  <2> SUFFICES ASSUME IndInv, OverlapInv, WrittenInv, [Next]_vars PROVE WrittenInv'
    OBVIOUS
  <2>1. CASE Next
    <3>1. ASSUME NEW t \in Tasks, Begin(t) PROVE WrittenInv'
      <4>1. /\ memberW'[t] = Unwritten
            /\ \A u \in Tasks \ {t} : op'[u] = op[u] /\ actor'[u] = actor[u] /\ memberW'[u] = memberW[u]
        BY <3>1 DEF Begin, IndInv, TypeOK, HandlersOK, Fits
      <4> QED  BY <4>1, WrittenNothing
    <3>2. ASSUME NEW t \in Tasks, Step(t) PROVE WrittenInv'
      BY <3>2, WrittenStep
    <3>3. ASSUME NEW t \in Tasks, Fails(t) \/ DeadlockDetected(t) PROVE WrittenInv'
      BY <3>3, WrittenEnds DEF Fails, DeadlockDetected, Aborts
    <3>4. ASSUME NEW c \in Commanders, CooldownEnds(c) PROVE WrittenInv'
      BY <3>4, WrittenUnchanged DEF CooldownEnds, workVars
    <3> QED  BY <2>1, <3>1, <3>2, <3>3, <3>4 DEF Next
  <2>2. CASE UNCHANGED vars
    BY <2>2, WrittenUnchanged DEF vars, workVars
  <2> QED  BY <2>1, <2>2
<1> QED  BY <1>1, <1>2, Invariance, OverlapInvariance, PTL DEF Spec

LEMMA RosterInit == ASSUME Init PROVE Roster!Init
<1>1. status \in [Guilds -> {"none", "active"}] /\ doubled = FALSE /\ met = [g \in Guilds |-> {}]
  BY DEF Init
<1>2. /\ member \in [Commanders -> [guild : Guilds, duty : Duties] \cup {NoGuild}]
      /\ \A c \in Commanders : member[c] # NoGuild => status[member[c].guild] = "active"
  BY GuildAssumption DEF Init, Rows
<1>3. ASSUME NEW g \in Guilds, status[g] = "active"
      PROVE  \E c \in Commanders : \A d \in Commanders : Roster!Leads(d, g) <=> d = c
  BY <1>3, GuildAssumption DEF Init, Roster!Leads, Roster!Row
<1> QED  BY <1>1, <1>2, <1>3 DEF Roster!Init

\* A duty is changed by the commander of the guild, and not his own, when it is committed:
\* the only one who may claim to lead it is the one who does.
LEMMA DutyIsLegal ==
  ASSUME IndInv, OverlapInv, NEW t \in Tasks, Commit(t), NEW g, g = Guild(t), op[t].kind = "SetDuty",
         ~doubled, met[g] = {}, NEW c \in Members(g)
  PROVE  /\ status[g] = "active" /\ op[t].who # Of[t]
         /\ \A d \in Commanders : Leads(member[d], g) <=> d = Of[t]
<1>1. g \in Guilds /\ pc[t] = "commit" /\ actor[t] \in Rows /\ actor[t].guild = g
  BY CommitRows
<1>2. status[g] = "active"
  <2>1. status[g] # "dissolved" /\ status[g] # "none"
    BY DEF OverlapInv, NobodyStranded, Members, IndInv, FreshOK
  <2> QED  BY <1>1, <2>1 DEF IndInv, TypeOK
<1>3. Claims(t, g) /\ op[t].who # Of[t]
  BY <1>1 DEF IndInv, HandlersOK, Fits, Claims, Leads, Rows
<1>4. PICK l \in Commanders : Leads(member[l], g)
  BY <1>1, <1>2 DEF OverlapInv, NeverHeadless, Leaders
<1>5. \A d \in Commanders : Leads(member[d], g) => d = Of[t]
  BY <1>1, <1>3 DEF IndInv, LeadersOK
<1> QED  BY <1>2, <1>3, <1>4, <1>5

\* What is committed is one of the roster's operations, or nothing.
LEMMA RosterCommit ==
  ASSUME IndInv, OverlapInv, WrittenInv, NEW t \in Tasks, Commit(t)
  PROVE  [Roster!Next]_Roster!rosterVars
<1> PICK g : g = Guild(t)
  OBVIOUS
<1>1. /\ g \in Guilds /\ pc[t] = "commit" /\ op[t].who \in Commanders /\ op[t].duty \in Duties /\ Of[t] \in Commanders
      /\ op[t].kind \in {"SetDuty", "Fire", "Quit", "Dissolve", "Accept", "Create"}
      /\ op[t].kind # "Create" => actor[t] # NoGuild /\ actor[t].guild = g
  BY CommitRows, RowsApart, GuildAssumption
<1>2. /\ met' = met /\ doubled' = doubled
      /\ member' = [c \in Commanders |-> IF memberW[t][c] = Same THEN member[c] ELSE memberW[t][c]]
      /\ op[t].kind = "Create" => status' = [status EXCEPT ![g] = "active"]
      /\ op[t].kind = "Dissolve" => status' = [status EXCEPT ![g] = "dissolved"]
      /\ op[t].kind \notin {"Create", "Dissolve"} => status' = status
  BY DEF Commit, IndInv, TypeOK
<1>3. member \in [Commanders -> Rows \cup {NoGuild}] /\ status \in [Guilds -> {"none", "active", "dissolved"}]
  BY DEF IndInv, TypeOK
<1>4. Locked(t) /\ Placed(t) /\ Emptied(t) /\ Entered(t) /\ Received(t) /\ Leaves(t)
  BY DEF OverlapInv, TaskOK
<1>5. \A c \in Commanders : memberW[t][c] # Same => memberW[t][c] = Written(t, c)
  BY DEF WrittenInv
<1>6. CASE op[t].kind \in {"Accept", "Fire", "Quit", "SetDuty"} /\ \A c \in Commanders : memberW[t][c] = Same
  <2>1. member' = member
    BY <1>2, <1>3, <1>6
  <2> QED  BY <1>2, <1>6, <2>1 DEF Roster!rosterVars
<1>7. CASE op[t].kind = "Create"
  <2>1. memberW[t][Of[t]] # Same
    BY <1>1, <1>4, <1>7, RowsApart DEF Placed, Guild
  <2>2. \A c \in Commanders : memberW[t][c] # Same <=> c = Of[t]
    BY <1>4, <1>7, <2>1 DEF Locked, Subject
  <2>3. member[Of[t]] = NoGuild /\ status[g] = "none"
    BY <1>1, <1>4, <1>7, <2>1, CommitRows DEF Locked
  <2>4. member' = [member EXCEPT ![Of[t]] = Roster!Row(g, "Commander")]
    BY <1>1, <1>2, <1>3, <1>5, <1>7, <2>2 DEF Written, Roster!Row
  <2>5. Roster!Found(Of[t], g)
    BY <1>2, <1>7, <2>3, <2>4 DEF Roster!Found
  <2> QED  BY <1>1, <2>5 DEF Roster!Next
<1>8. CASE op[t].kind = "Accept" /\ \E c \in Commanders : memberW[t][c] # Same
  <2>1. \A c \in Commanders : memberW[t][c] # Same <=> c = op[t].who
    BY <1>4, <1>8 DEF Locked, Subject
  <2>2. member[op[t].who] = NoGuild
    BY <1>1, <1>4, <1>8, <2>1 DEF Locked
  <2>3. status[g] = "active" \/ "stranded" \in met[g]
    BY <1>1, <1>3, <1>4, <1>8 DEF Entered, IndInv, FreshOK
  <2>4. member' = [member EXCEPT ![op[t].who] = Roster!Row(g, "Ordinary")]
    BY <1>1, <1>2, <1>3, <1>5, <1>8, <2>1 DEF Written, Roster!Row
  <2>5. Roster!Join(op[t].who, g)
    BY <1>2, <1>8, <2>2, <2>3, <2>4 DEF Roster!Join
  <2> QED  BY <1>1, <2>5 DEF Roster!Next
<1>9. CASE op[t].kind \in {"Fire", "Quit"} /\ \E c \in Commanders : memberW[t][c] # Same
  <2>1. \A c \in Commanders : memberW[t][c] # Same <=> c = Subject(t)
    BY <1>4, <1>9 DEF Locked, Departs
  <2>2. Subject(t) \in Members(g)
    BY <1>4, <1>9, <2>1 DEF Locked
  <2>3. Roster!Leads(Subject(t), g) => "headless" \in met[g]
    BY <1>1, <1>4, <1>9 DEF Leaves, Departs, Leads, Roster!Leads, Roster!Row
  <2>4. member' = [member EXCEPT ![Subject(t)] = NoGuild]
    BY <1>2, <1>3, <1>5, <1>9, <2>1 DEF Written
  <2>5. Subject(t) \in Commanders /\ Roster!Leave(Subject(t), g)
    BY <1>2, <1>9, <2>2, <2>3, <2>4 DEF Roster!Leave, Roster!Belongs, Members
  <2> QED  BY <1>1, <2>5 DEF Roster!Next
<1>10. CASE op[t].kind = "Dissolve"
  <2> DEFINE S == {c \in Commanders : memberW[t][c] # Same}
  <2>1. S \subseteq {c \in Commanders : Roster!Belongs(c, g)}
    BY <1>4, <1>10 DEF Locked, Members, Roster!Belongs
  <2>2. "stranded" \in met[g] \/ \A c \in Commanders : Roster!Belongs(c, g) => c \in S
    BY <1>1, <1>4, <1>10 DEF Emptied, Members, Roster!Belongs
  <2>3. member' = [c \in Commanders |-> IF c \in S THEN NoGuild ELSE member[c]]
    BY <1>2, <1>5, <1>10 DEF Written
  <2>4. status[g] # "none"
    BY <1>1, <1>10 DEF IndInv, FreshOK
  <2>5. Roster!Dissolve(g)
    BY <1>2, <1>10, <2>1, <2>2, <2>3, <2>4 DEF Roster!Dissolve
  <2> QED  BY <1>1, <2>5 DEF Roster!Next
<1>11. CASE op[t].kind = "SetDuty" /\ \E c \in Commanders : memberW[t][c] # Same
  <2> DEFINE S == {c \in Commanders : memberW[t][c] # Same}
  <2>1. S # {} /\ S \subseteq Members(g)
    BY <1>4, <1>11 DEF Locked
  <2>2. op[t].who # Of[t]
    BY <1>1, <1>11 DEF IndInv, HandlersOK, Fits
  <2>3. ASSUME ~Roster!Excused(g)
        PROVE  /\ status[g] = "active" /\ Roster!Leads(Of[t], g) /\ ~Roster!Leads(op[t].who, g)
               /\ Leads(member[Of[t]], g)
    <3>1. ~doubled /\ met[g] = {}
      BY <2>3 DEF Roster!Excused
    <3>2. PICK c \in Members(g) : TRUE
      BY <2>1
    <3>3. /\ status[g] = "active" /\ op[t].who # Of[t]
          /\ \A d \in Commanders : Leads(member[d], g) <=> d = Of[t]
      BY <1>11, <3>1, <3>2, DutyIsLegal
    <3> QED  BY <1>1, <3>3 DEF Leads, Roster!Leads, Roster!Row
  <2>4. CASE ~HandsOver(t)
    <3>1. \A c \in Commanders : memberW[t][c] # Same <=> c = op[t].who
      BY <1>4, <1>11, <2>4 DEF Locked
    <3>2. Roster!Belongs(op[t].who, g) /\ op[t].duty # "Commander"
      BY <1>1, <1>11, <2>1, <2>4, <3>1 DEF Roster!Belongs, Members, HandsOver
    <3>3. member' = [member EXCEPT ![op[t].who] = Roster!Row(g, op[t].duty)]
      BY <1>1, <1>2, <1>3, <1>5, <1>11, <3>1 DEF Written, Roster!Row
    <3>4. Roster!ChangeDuty(Of[t], op[t].who, g, op[t].duty)
      BY <1>2, <1>11, <2>2, <2>3, <3>2, <3>3 DEF Roster!ChangeDuty
    <3> QED  BY <1>1, <3>4 DEF Roster!Next
  <2>5. CASE HandsOver(t)
    <3>1. S \subseteq {x \in {Of[t], op[t].who} : Roster!Belongs(x, g)}
      BY <1>4, <1>11, <2>1 DEF Locked, Roster!Belongs, Members
    <3>2. ASSUME ~Roster!Excused(g) PROVE S = {Of[t], op[t].who}
      <4>1. /\ status[g] = "active" /\ Leads(member[Of[t]], g)
            /\ ~doubled /\ met[g] = {}
        BY <2>3, <3>2 DEF Roster!Excused
      <4>2. Leads(memberW[t][op[t].who], g)
        BY <1>1, <1>4, <2>5, <4>1 DEF Received
      <4>3. Claims(t, g)
        BY <1>1, <1>11 DEF IndInv, HandlersOK, Fits, Claims, Leads, TypeOK, Rows
      <4>4. memberW[t][Of[t]] # Same
        BY <1>1, <2>5, <4>1, <4>3 DEF IndInv, LeadersOK, HandsOver
      <4>5. memberW[t][op[t].who] # Same
        BY <1>1, <4>2, RowsApart
      <4> QED  BY <1>1, <3>1, <4>4, <4>5
    <3>3. member' = [x \in Commanders |-> IF x \notin S THEN member[x]
                                          ELSE Roster!Row(g, IF x = Of[t] THEN "Deputy" ELSE "Commander")]
      <4>1. ASSUME NEW x \in S
            PROVE  memberW[t][x] = Roster!Row(g, IF x = Of[t] THEN "Deputy" ELSE "Commander")
        BY <1>5, <1>11, <2>2, <2>5, <3>1, <4>1 DEF Written, Roster!Row, HandsOver
      <4> QED  BY <1>2, <4>1
    <3>4. Roster!HandOver(Of[t], op[t].who, g)
      BY <1>2, <1>11, <2>2, <2>3, <3>1, <3>2, <3>3 DEF Roster!HandOver
    <3> QED  BY <1>1, <3>4 DEF Roster!Next
  <2> QED  BY <2>4, <2>5
<1> QED  BY <1>1, <1>6, <1>7, <1>8, <1>9, <1>10, <1>11

\* Every other step leaves the roster as it is, but may let operations cross.
LEMMA RosterCross ==
  ASSUME status' = status, member' = member, doubled => doubled', \A g \in Guilds : met[g] \subseteq met'[g]
  PROVE  [Roster!Next]_Roster!rosterVars
BY DEF Roster!Next, Roster!Cross

LEMMA RosterStep ==
  ASSUME IndInv, OverlapInv, WrittenInv, NEW t \in Tasks, Step(t) PROVE [Roster!Next]_Roster!rosterVars
<1>1. CASE Commit(t)
  BY <1>1, RosterCommit
<1>2. CASE ReadActor(t)
  <2>1. /\ status' = status /\ member' = member /\ doubled' = doubled
        /\ \A g \in Guilds : met[g] \subseteq met'[g]
    BY <1>2 DEF ReadActor, dbVars
  <2> QED  BY <2>1, RosterCross
<1>3. CASE ~Commit(t) /\ ~ReadActor(t)
  <2>1. status' = status /\ member' = member /\ doubled' = doubled /\ met' = met
    BY <1>3 DEF Step, Connect, ReadTarget, ReadGuild, Demote, Promote, Delete, Insert, UpdateInfo, CountMembers,
                UpdateGuild, Snapshot, ClearInfo, DeleteMember, EndOfRows, Rollback, Aborts, Ask, Put,
                dbVars, historyVars
  <2> QED  BY <2>1, RosterCross
<1> QED  BY <1>1, <1>2, <1>3

\* The operations on guilds implement GuildRoster: each is committed as a whole, and is
\* legal then, or is excused by what has overlapped with it.
THEOREM MembersImplementRoster == Spec => ImplementsRoster
<1>1. Init => Roster!Init
  BY RosterInit
<1>2. IndInv /\ OverlapInv /\ WrittenInv /\ [Next]_vars => [Roster!Next]_Roster!rosterVars
  <2> SUFFICES ASSUME IndInv, OverlapInv, WrittenInv, [Next]_vars PROVE [Roster!Next]_Roster!rosterVars
    OBVIOUS
  <2>1. CASE Next
    <3>1. ASSUME NEW t \in Tasks, Begin(t) \/ Fails(t) \/ DeadlockDetected(t)
          PROVE  [Roster!Next]_Roster!rosterVars
      <4>1. status' = status /\ member' = member /\ met' = met /\ (doubled => doubled')
        <5>1. CASE Begin(t)
          <6>1. doubled' = (doubled \/ \E u \in Tasks \ {t} : Of[u] = Of[t] /\ pc[u] # "idle")
            BY <5>1 DEF Begin
          <6>2. doubled => doubled'
            BY <6>1
          <6> QED  BY <5>1, <6>2 DEF Begin, dbVars
        <5>2. CASE Fails(t) \/ DeadlockDetected(t)
          BY <5>2 DEF Fails, DeadlockDetected, Aborts, dbVars
        <5> QED  BY <3>1, <5>1, <5>2
      <4>2. \A g \in Guilds : met[g] \subseteq met'[g]
        BY <4>1
      <4> QED  BY <4>1, <4>2, RosterCross
    <3>2. ASSUME NEW t \in Tasks, Step(t) PROVE [Roster!Next]_Roster!rosterVars
      BY <3>2, RosterStep
    <3>3. ASSUME NEW c \in Commanders, CooldownEnds(c) PROVE [Roster!Next]_Roster!rosterVars
      BY <3>3, RosterCross DEF CooldownEnds, historyVars
    <3> QED  BY <2>1, <3>1, <3>2, <3>3 DEF Next
  <2>2. CASE UNCHANGED vars
    BY <2>2 DEF vars, dbVars, historyVars, Roster!rosterVars
  <2> QED  BY <2>1, <2>2
<1> QED  BY <1>1, <1>2, Invariance, OverlapInvariance, WrittenInvariance, PTL DEF Spec, ImplementsRoster, Roster!Spec
=============================================================================
