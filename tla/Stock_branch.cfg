SPECIFICATION Spec
CONSTANTS
  kitchen = kitchen
  cooked = cooked
  store = store
  Slots = {kitchen, cooked, store}
  Start <- OnHand
  AllowNegative = FALSE
  Sold = kitchen
  Made = cooked
  Orders = {o1, o2}
  MostItems = 2
  MostEdits = 1
  Productions = {p1}
  Planned = 1
  Yield = 1
  Counts = {c1}
  Counted = {1}
  DeductAt = "PREPARING"
  ReserveOnCreate = TRUE
  CountApproval = TRUE
  From = store
  To = kitchen
  Transfers = {t1}
  Asked = {1, 2}
  Workers = {w1, w2}
  o2 = o2
  w2 = w2
  x1 = x1
  x2 = x2
  x3 = x3
  y1 = y1
  y2 = y2
  y3 = y3
  b1 = b1
  b2 = b2
  Batches = {b1, b2}
  Sizes = {2}
  Losses = {1}
  Changes <- Differences
  Expiry <- Dates
  Marks = {"AVAILABLE"}
  Prices = {1, 2}
  Commands = {x1, x2, x3}
  Consumers = {made1}
  Requests = {q1}
  Method = "FEFO"
  Categories = {x1, x2, x3}
  Places = {x1, x2, x3}
  Units = {u1, u2}
  Items = {i1}
  MostChanges = 6
  Recipes = {x1, x2, x3}
  Ingredients = {i1}
  Majors = {1, 2}
  StepIds = {y1, y2, y3}
  Positions = {0, 1, 2}
  MostRowEdits = 5
SYMMETRY Alike
CHECK_DEADLOCK FALSE
INVARIANTS RoomAccounts  BatchAccounts
PROPERTIES RecipesHold CatalogueHolds
