SPECIFICATION Spec
CONSTANTS
  c1 = c1
  p1 = p1
  p2 = p2
  s1 = s1
  i1 = i1
  v1 = v1
  g1 = g1
  r1 = r1
  a1 = a1
  q1 = q1
  d1 = d1
  NoRow = NoRow
  Entities <- mcEntities
  Kind <- mcKind
  Authorities <- mcAuthorities
  Pages <- mcPages
INVARIANTS RecordsAreOwned OwnersExist ActiveUnderActive ReferencesHold PrefetchAgrees
PROPERTIES WritesAreVisible
CHECK_DEADLOCK FALSE
SYMMETRY Symmetry
