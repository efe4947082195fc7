SPECIFICATION Spec
CONSTANTS
  q1 = q1
  q2 = q2
  b1 = b1
  maker = maker
  chief = chief
  a = a
  b = b
  prj = prj
  NoDoc = NoDoc
  Quotations = {q1, q2}
  Blockers = {b1}
  Users = {maker, chief}
  Contents = {a, b}
  MaxRevision = 2
  Project <- mcProject
  Caps <- mcCaps
  QuotationHistories <- mcQuotationHistories
  BlockerHistories <- mcBlockerHistories
SYMMETRY Symmetry
INVARIANTS ApprovedAsSent ApprovalsAreAuthentic RevisionsAreContiguous BlockerIsOnRecord
PROPERTIES ApprovedTermsStand
CHECK_DEADLOCK FALSE
