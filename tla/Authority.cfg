SPECIFICATION Spec
CONSTANTS
  h1 = h1
  h2 = h2
  h3 = h3
  Handlers = {h1, h2, h3}
  Members = {m1}
  Customers = {1, 2, 3}
  Contents = {p1, p2}
  Baselines = {1, 2}
  MaxRequests = 3
  Loads = {{"bootstrap", "push", "revoke"}, {"bootstrap", "read", "publish"}, {"bootstrap", "issue", "exchange"}}
  Wanted <- mcWanted
  Held <- mcHeld
  Free = Free
  NoRow = NoRow
SYMMETRY Symmetry
INVARIANTS CodeMintsOnce AnswersAreTrue RevisionCountsChanges SeedGivesWay
PROPERTIES InactiveGainsNothing
CHECK_DEADLOCK FALSE
