SPECIFICATION MCFairSpec
CONSTANTS
  k1 = k1
  k2 = k2
  c1 = c1
  l1 = l1
  l2 = l2
  l3 = l3
  g1 = g1
  m1 = m1
  m2 = m2
  x1 = x1
  x2 = x2
  Clerks = {k1, k2}
  Cases = {c1}
  Author <- WrittenByK1
  BaseSalary = 1
  Edits <- FieldEdits
  Given = {0, 1}
  MaxItems = 1
  CashAtHand = 1
  Officers = {k1, k2}
  Leaves = {l1, l2, l3}
  Days <- LengthOf
  Collides <- FirstTwo
  Annual = 1
  MaxCarry = 1
  LastYear = 2
  Hours = 3
  Grace = 0
  Schedules <- Weeks
  Audits = {a1}
  Guests = {g1}
  Anonymous = {}
  Meals = {"m1", "m2"}
  GuestOf <- OfOneGuest
  Schemes <- TwoSchemes
  Tills = {"t1", "t2"}
  MaxRewards = 1
  Updates <- Taps
  Bots = {"b1", "b2"}
  MaxTries = 4
  Products = {"p1", "p2"}
  Prices = {1}
  PerLine = 2
  PerOrder = 1
  WrapAt = 2
  MaxTables = 1
  Commands = {m1, m2}
  Local = {x1, x2}
  Expenses = {m1, x1}
  Amount <- CashOut
  Opening = 1
  MaxTakings = 2
  MaxWire = 2
  MaxLosses = 1
CHECK_DEADLOCK FALSE
INVARIANTS ChargedOnce UsedWithinQuota ReportsAgree NothingTwice RegisterIsLedger NoDoublePromise
PROPERTIES ShiftOwnsDrawer Settles
