SPECIFICATION MCFairSpec
CONSTANTS
  e1 = e1
  k1 = k1
  k2 = k2
  q1 = q1
  Expenses = {e1, e2}
  Categories = {k1, k2, k3}
  Moves = {q1, q2}
  Moving <- Wanted
  Seeded = {k1, k2}
  MaxChanges = 2
  Cost <- Costs
  Source <- Sources
  FeeOf <- NoFees
  w1 = w1
  w2 = w2
  w3 = w3
  pay = pay
  payMore = payMore
  Workers = {w1, w2, w3}
  Bodies = {pay, payMore}
  Ttl = 2
  Recover = 2
  Generated = FALSE
  SameAction = FALSE
  Prompt = TRUE
  CommitCrash = FALSE
  MaxCrashes = 1
  Requests = {w1, w2, w3}
  Commands = {pay, payMore}
  Refusals = {"kept", "undone"}
  MaxDeaths = 1
PROPERTIES LeasedIsOnce AtomicIsOnce ClaimsEnd FilingHolds
