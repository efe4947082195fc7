SPECIFICATION FairSpec
CONSTANTS
  Callers = {p1, p2}
  Conns = {c1, c2, c3}
  Slots = 3
  PoolSize = 1
  MaxOverflow = 0
  NullPool = FALSE
  MaxMail = 1
  Faults = {"death", "drain"}
  NoOne = NoOne
PROPERTIES DrainEnds CheckoutAnswered
CHECK_DEADLOCK FALSE
