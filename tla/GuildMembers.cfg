SPECIFICATION FairSpec
CONSTANTS
  c1 = c1 c2 = c2 c3 = c3 g1 = g1 g2 = g2 s1 = s1 s2 = s2 s3 = s3
  Commanders = {c1, c2, c3}
  Guilds = {g1, g2}
  Founded = {g1}
  FirstMembers <- SmallGuilds
  NoGuild = NoGuild
  Same = Same
  Tasks = {s1, s2, s3}
  Of <- Session
  Requests <- Packets
  MemberLimit = 3
  DeputyLimit = 1
  ApplyLimit = 1
  Connections = 2
  MaxOps = 3
INVARIANTS AtMostOneCommander NeverHeadless NobodyStranded CountIsExact NothingHangs
PROPERTIES ImplementsRoster RequestEnds
CHECK_DEADLOCK FALSE
