SPECIFICATION MCFairSpec
CONSTANTS
  o1 = o1
  x1 = x1
  a = a
  b = b
  Orders = {o1}
  Expenses = {x1}
  Amount <- Price
  Method <- Tender
  LastShift = 2
  HubRows = 1
  Counts = {0, 1}
  Chats <- Both
  Webs = {w1}
  Routings <- Without
  MaxPending = 2
  MaxAttempts = 2
  MaxFaults = 1
CHECK_DEADLOCK FALSE
INVARIANTS SettledIsEvidence CreditedOnce RootOnce
PROPERTIES CloseArrives KeptUntilDone Drains
