SPECIFICATION MCFairSpec
CONSTANTS
  s1 = s1
  s2 = s2
  pay1 = pay1
  pay2 = pay2
  sweep1 = sweep1
  o1 = o1
  o2 = o2
  e1 = e1
  Sales = {s1, s2}
  Unsettled = {s2}
  Callers = {pay1, pay2}
  Sweepers = {sweep1}
  MaxAttempts = 2
  MaxCalls = 2
  MaxFaults = 1
  MaxFlips = 1
  Actions = {"a1", "a2"}
  Total = 3
  Plans <- Checkouts
  Rounds <- AtTheDoor
  Extra = "CLICK"
  Events <- GivenBack
  Baskets <- OrderLines
  Codes <- Terms
  Staff = {o1}
  Limits = {0, 1}
  Users = {u1}
  Editors = {e1}
  MostOutdated = 1
  Days = 1
CHECK_DEADLOCK FALSE
INVARIANTS ConfirmedIsProved NoNeedlessDuplicate TenderRight RefundedOnce
PROPERTIES Settles UsesAreCounted
