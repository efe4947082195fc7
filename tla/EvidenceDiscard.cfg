SPECIFICATION Spec
CONSTANTS
  o1 = o1
  d1 = d1
  Free = Free
  NoRow = NoRow
  Orgs = {o1}
  Docs = {d1}
  Items = {1, 2}
  Digests = {1, 2}
  Uploaders = {1, 2}
  Collectors = {0}
  Limit = 2
  Modes <- mcDiscardModes
  OrgOf <- mcOrgOf
INVARIANTS PointerNamesObject
CHECK_DEADLOCK FALSE
