SPECIFICATION MCFairSpec
CONSTANTS
  r1 = r1
  r2 = r2
  p1 = p1
  p2 = p2
  Rows = {r1, r2}
  ParentOf <- ParentAndChild
  Procs = {p1, p2}
  Known = {}
  MaxOps = 3
  MaxHubOps = 1
  MaxLosses = 1
  Ids = {1, 2, 3}
  Emails = {"e1", "e2"}
  MaxWrites = 3
  MaxLost = 1
INVARIANTS NoLostEdit NoLostDeletion
PROPERTIES Converges IdentitiesMeet
CHECK_DEADLOCK FALSE
