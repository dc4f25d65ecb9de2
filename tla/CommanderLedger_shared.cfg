SPECIFICATION Spec
CONSTANTS
  Sessions = {s1, s2}
  NoSession = NoSession
  Resources = {gold, oil}
  gold = gold oil = oil
  Amounts = {1}
  Initial <- SomeGold
  UintSize = 2
  MaxStored = 2
  Faults = {"statement", "answer", "rollback"}
SYMMETRY SessionSymmetry
INVARIANTS NeverNegative CopyIsExact
PROPERTY ImplementsAccount
