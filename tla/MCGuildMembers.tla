--------------------------- MODULE MCGuildMembers ---------------------------
(***************************************************************************)
(* Model checking of GuildMembers: a guild with its commander, a deputy    *)
(* and perhaps a third member, or one who applies; a second guild that may *)
(* be founded; two connections, so that two transactions overlap.          *)
(***************************************************************************)
EXTENDS GuildMembers

CONSTANTS c1, c2, c3, g1, g2, s1, s2, s3

Session == [t \in Tasks |-> CASE t = s1 -> c1 [] t = s2 -> c2 [] t = s3 -> c3]

In(duty) == [guild |-> g1, duty |-> duty]
SmallGuilds ==
  {[c \in Commanders |-> CASE c = c1 -> In("Commander") [] c = c2 -> In("Deputy") [] c = c3 -> r] :
     r \in {NoGuild, In("Ordinary")}}

Packet(kind, who, duty, guild) == [kind |-> kind, who |-> who, duty |-> duty, guild |-> guild]
Packets ==
  {Packet("SetDuty", c2, d, g1) : d \in {"Commander", "Ordinary"}}
  \cup {Packet("SetDuty", c3, "Deputy", g1)}
  \cup {Packet("Fire", c, "Ordinary", g1) : c \in {c2, c3}}
  \cup {Packet(k, c3, "Ordinary", g1) : k \in {"Quit", "Dissolve", "Accept", "Apply", "Reject"}}
  \cup {Packet("Create", c3, "Ordinary", g2)}
=============================================================================
