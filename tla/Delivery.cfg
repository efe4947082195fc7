SPECIFICATION Spec
CONSTANTS
  m1 = m1
  m2 = m2
  Quotations = {q1}
  Terms = {t1, t2}
  NoTerms = NoTerms
  Deliveries = {d1}
  Materials = {m1, m2}
  Evidence = {v1}
  MaxRevision = 2
  CreationHistories <- mcCreationHistories
  NoDelivery = NoDelivery
  NoPlan = NoPlan
INVARIANTS DeliversWhatWasApproved HistoryAccountsForPlans NeverStuck
PROPERTIES EachPushDoesOneThing
CHECK_DEADLOCK FALSE
