SPECIFICATION Spec
CONSTANTS
  Conns = {c1, c2}
  c1 = c1 c2 = c2 h1 = h1 h2 = h2
  Hashes = {h1, h2}
  Addressings <- NoCollision
  Commanders = {m1}
  Operators = {o1}
  NoConn = NoConn
  NoCommander = NoCommander
  NoHolder = NoHolder
INVARIANT OneSessionPerCommander
