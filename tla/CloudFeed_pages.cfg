SPECIFICATION Spec
CONSTANTS
  b1 = b1
  b2 = b2
  w1 = w1
  w2 = w2
  Rows = {1, 2, 3}
  NModels = 2
  ModelOf <- ThreeRowsModel
  Branches = {b1}
  Scope <- AllToB1
  Workers = {w1}
  PerPage = 1
  Legacy <- TiedLegacy3
  MaxVersion = 2
  MaxClock = 4
  MaxTimeouts = 1
CHECK_DEADLOCK FALSE
INVARIANTS NothingBehindCursor
PROPERTIES LaterPublicationIsVisible
