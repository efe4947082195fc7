SPECIFICATION mcSpec
CONSTANTS
  o1 = o1
  o2 = o2
  s1 = s1
  s2 = s2
  d1 = d1
  e1 = e1
  e2 = e2
  e3 = e3
  m1 = m1
  m2 = m2
  m3 = m3
  p1 = p1
  p2 = p2
  NoRow = NoRow
  Orgs = {o1, o2}
  Sessions = {s1, s2}
  Devices = {d1}
  MutationIds = {m1, m2, m3}
  ScanLimit = 2
  PageRecords = 2
  PageBytes = 3
  Framing = 1
  ResponseBytes = 4
  MaxAttempts = 2
  MaxSeq = 3
  Entities = {e1, e2, e3}
  Payloads = {p1, p2}
  OrgOf <- mcOrgOf
  Rank <- mcRank
  Batches <- mcBatches
  WireSize <- mcSize
  OutSize <- mcSize
  InitScope <- mcNarrowScope
INVARIANTS SyncInv RevisionIsPosition AppliedOnce NoLostUpdate AnswersDurable NothingSkipped
PROPERTIES CursorIsStableCut PullCatchesUp
CHECK_DEADLOCK FALSE
