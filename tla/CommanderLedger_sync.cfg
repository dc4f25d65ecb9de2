SPECIFICATION Spec
CONSTANTS
  Sessions = {s1}
  NoSession = NoSession
  Resources = {gold, oil}
  gold = gold oil = oil
  Amounts = {1, 2}
  Initial <- SomeGold
  UintSize = 8
  MaxStored = 4
  Faults = {}
INVARIANT SyncIsCurrent
