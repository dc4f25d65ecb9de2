---------------------------- MODULE GuildRoster ----------------------------
(***************************************************************************)
(* What the operations on guilds promise: each takes effect at once and as *)
(* a whole, and is legal when it does.  A commander belongs to one guild,  *)
(* a guild has one commander.  GuildMembers implements it with rows that   *)
(* are read, and relied on, long before they are written.                  *)
(*                                                                         *)
(* doubled and met say what has gone on at the same time; each operation   *)
(* says what that may excuse.                                              *)
(***************************************************************************)
EXTENDS Naturals

CONSTANTS Commanders, Guilds, NoGuild, Duties

VARIABLES
  status, member,
  doubled,   \* two sessions of one commander have been busy at once
  met        \* what has overlapped in each guild

rosterVars == <<status, member, doubled, met>>

Row(g, d) == [guild |-> g, duty |-> d]
Leads(c, g) == member[c] = Row(g, "Commander")
Belongs(c, g) == member[c] # NoGuild /\ member[c].guild = g
Excused(g) == doubled \/ met[g] # {}

Init ==
  /\ status \in [Guilds -> {"none", "active"}]
  /\ member \in [Commanders -> [guild : Guilds, duty : Duties] \cup {NoGuild}]
  /\ \A c \in Commanders : member[c] # NoGuild => status[member[c].guild] = "active"
  /\ \A g \in Guilds : status[g] = "active" =>
       \E c \in Commanders : \A d \in Commanders : Leads(d, g) <=> d = c
  /\ doubled = FALSE
  /\ met = [g \in Guilds |-> {}]

\* Operations cross, or two sessions of a commander are busy.
Cross ==
  /\ doubled => doubled'
  /\ \A g \in Guilds : met[g] \subseteq met'[g]
  /\ UNCHANGED <<status, member>>

Found(c, g) ==
  /\ status[g] = "none" /\ member[c] = NoGuild
  /\ status' = [status EXCEPT ![g] = "active"]
  /\ member' = [member EXCEPT ![c] = Row(g, "Commander")]
  /\ UNCHANGED <<doubled, met>>

Join(c, g) ==
  /\ member[c] = NoGuild
  /\ status[g] = "active" \/ "stranded" \in met[g]
  /\ member' = [member EXCEPT ![c] = Row(g, "Ordinary")]
  /\ UNCHANGED <<status, doubled, met>>

\* By himself, or fired: commanders do not leave.
Leave(c, g) ==
  /\ Belongs(c, g)
  /\ Leads(c, g) => "headless" \in met[g]
  /\ member' = [member EXCEPT ![c] = NoGuild]
  /\ UNCHANGED <<status, doubled, met>>

\* By b, who leads the guild.
ChangeDuty(b, c, g, d) ==
  /\ b # c /\ Belongs(c, g) /\ d # "Commander"
  /\ Excused(g) \/ (status[g] = "active" /\ Leads(b, g) /\ ~Leads(c, g))
  /\ member' = [member EXCEPT ![c] = Row(g, d)]
  /\ UNCHANGED <<status, doubled, met>>

HandOver(b, c, g) ==
  /\ b # c
  /\ \E S \in SUBSET {x \in {b, c} : Belongs(x, g)} :
       /\ Excused(g) \/ (S = {b, c} /\ status[g] = "active" /\ Leads(b, g))
       /\ member' = [x \in Commanders |-> IF x \notin S THEN member[x]
                                          ELSE Row(g, IF x = b THEN "Deputy" ELSE "Commander")]
  /\ UNCHANGED <<status, doubled, met>>

\* Everybody leaves.
Dissolve(g) ==
  /\ status[g] # "none"
  /\ status' = [status EXCEPT ![g] = "dissolved"]
  /\ \E S \in SUBSET {c \in Commanders : Belongs(c, g)} :
       /\ "stranded" \in met[g] \/ \A c \in Commanders : Belongs(c, g) => c \in S
       /\ member' = [c \in Commanders |-> IF c \in S THEN NoGuild ELSE member[c]]
  /\ UNCHANGED <<doubled, met>>

Next ==
  \/ Cross
  \/ \E g \in Guilds :
       \/ Dissolve(g)
       \/ \E c \in Commanders : Found(c, g) \/ Join(c, g) \/ Leave(c, g)
       \/ \E b, c \in Commanders : HandOver(b, c, g) \/ \E d \in Duties : ChangeDuty(b, c, g, d)

Spec == Init /\ [][Next]_rosterVars
=============================================================================
