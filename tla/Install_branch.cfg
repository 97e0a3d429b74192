SPECIFICATION MCFairSpec
CONSTANTS
  Beats = {h1, h2}
  Setups = {s1, s2}
  Requests = {w1}
  Ttl = 2
  Grace = 3
  Patience = 1
  Runs = {p1, p2}
  Strays = {x}
  Top = 3
  Parent <- ParentOfFirst
  MaxPages = 2
  MaxAsked = 1
  MaxFaults = 1
  MaxMishaps = 1
INVARIANTS CursorIsApplied
PROPERTIES LicenceHolds Recovers
