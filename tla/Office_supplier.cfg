SPECIFICATION Spec
CONSTANTS
  o1 = o1
  c1 = c1
  s1 = s1
  Shifts = {s1}
  Amounts <- Takings
  Transfers = {c1}
  Sums = {1, 2}
  Expenses = {e1}
  Cost <- Costs
  Source <- Sources
  FeeOf <- ExpenseFees
  Orders = {o1}
  Ordered = 1
  Receivings = {r1, r2}
  OrderOf <- OrderOfAll
  Invoices = {v1}
  Payments = {p1, p2}
  Most = 2
  Legacy = 1
  BankFee = 1
CHECK_DEADLOCK FALSE
SYMMETRY Same
INVARIANTS SupplierAccounts MoneyIsDocumented
