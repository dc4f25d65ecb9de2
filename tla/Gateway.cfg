SPECIFICATION FairSpec
CONSTANTS
  proxied = proxied open = open empty = empty broken = broken
  Texts = {proxied, open, empty, broken}
  Accepted = {proxied, open}
  Readable = {proxied, open, empty}
  Dialed = {proxied, open}
  PrivateOnly = {proxied}
  r1 = r1 r2 = r2
  Reloads = {r1, r2}
  k1 = k1
  Conns = {k1}
  Public = {k1}
  MaxEdits = 2
  MaxChunks = 1
INVARIANTS CurrentIsNotOlder NothingIsForgotten EndIsWhole
PROPERTIES NeverGoesBack FileIsInstalled BothEnd
CHECK_DEADLOCK FALSE
