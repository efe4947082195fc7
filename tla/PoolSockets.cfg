SPECIFICATION Spec
CONSTANTS
  Callers = {p1, p2}
  Conns = {c1, c2, c3}
  Slots = 3
  PoolSize = 1
  MaxOverflow = 1
  NullPool = FALSE
  MaxMail = 1
  Faults = {}
  NoOne = NoOne
INVARIANTS SocketBound
CHECK_DEADLOCK FALSE
