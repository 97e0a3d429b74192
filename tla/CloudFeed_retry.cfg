SPECIFICATION Spec
CONSTANTS
  b1 = b1
  b2 = b2
  w1 = w1
  w2 = w2
  Rows = {1}
  NModels = 1
  ModelOf <- OneRowModel
  Branches = {b1}
  Scope <- OwnRow
  Workers = {w1, w2}
  PerPage = 1
  Legacy <- NoLegacy1
  MaxVersion = 1
  MaxClock = 4
  MaxTimeouts = 1
PROPERTIES LaterPublicationIsVisible
CHECK_DEADLOCK FALSE
