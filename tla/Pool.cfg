SPECIFICATION Spec
CONSTANTS
  Callers = {p1, p2}
  Conns = {c1, c2}
  Slots = 2
  PoolSize = 1
  MaxOverflow = 1
  NullPool = FALSE
  MaxMail = 2
  Faults = {"connect", "timeout", "slow", "crash", "death", "wedge", "age", "drain"}
  NoOne = NoOne
INVARIANTS TypeOK WithinCapacity Exclusive Tracked ServedWhenPossible CheckedOutIsUsed
SYMMETRY symmetry
CHECK_DEADLOCK FALSE
