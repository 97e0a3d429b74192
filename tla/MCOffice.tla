------------------------------ MODULE MCOffice ------------------------------
(* A small office: one shift, one transfer, one expense, one supplier.     *)
EXTENDS SupplierDebt, TLC

CONSTANTS o1, c1, s1

Costs == [e \in Expenses |-> 1]
Sources == [e \in Expenses |-> "BANK"]
ExpenseFees == [e \in Expenses |-> 1]
OrderOfAll == [r \in Receivings |-> o1]

Takings == {[CASH |-> 2, CARD |-> 1]}

Same == Permutations(Receivings) \cup Permutations(Payments)

NoOrder == \A o \in Orders : order[o] = "NONE"
NoOther == /\ \A e \in Expenses : expense[e] = "NONE"
           /\ \A v \in Invoices : receipt[v].status = "NONE"
           /\ OfCommand(c1, {"TRANSFER_IN"}) = {}

(* Two bounds: the money comes in before anything is ordered or spent, and *)
(* a behaviour has an order with its receivings, or a transfer, an invoice *)
(* and an expense; the opening debt and the payments meet either.          *)
Early == NoOrder /\ NoOther /\ ledger = EmptyBag

Next ==
  \/ Early /\ MoneyComes
  \/ ExpensesNext /\ NoOrder /\ UNCHANGED supplier
  \/ SupplierNext /\ UNCHANGED expense /\ (NoOrder' \/ (NoOther' /\ Rows # {}))

Spec == OfficeInit /\ [][Next]_office

(* No account is overdrawn, and statuses are those of the services.        *)
TypeOK ==
  /\ balance \in [Kinds -> Nat]
  /\ expense \in [Expenses -> ExpenseStatuses]
  /\ order \in [Orders -> {"NONE", "DRAFT", "SENT", "CONFIRMED", "PARTIAL", "RECEIVED", "CANCELED"}]
  /\ received \in [Orders -> Nat] /\ paid \in [Payable -> Nat]
  /\ stock \in Nat /\ debt \in Int /\ fresh \subseteq Invoices
=============================================================================
