SPECIFICATION Spec
CONSTANTS
  Commanders = {c1, c2}
  Creators = {r1, r3}
  c1 = c1 c2 = c2 r1 = r1 r2 = r2 r3 = r3
  Of <- TwoAndOne
  Verifiers = {v1}
  Pollers = {p1}
  Pins = {n1, n2}
  NoPin = NoPin
  NoChallenge = NoChallenge
  PinAttempts = 2
INVARIANT ConsumedAtStays
CHECK_DEADLOCK FALSE
