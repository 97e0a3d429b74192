---------------------------- MODULE SupplierDebt ----------------------------
(***************************************************************************)
(* What a branch owes one supplier: purchase orders and what is received   *)
(* on them, direct invoices, the opening debt, the payments from SAFE or   *)
(* BANK, their reversals, and the supplier's ledger with its stored        *)
(* balance.                                                                *)
(*                                                                         *)
(* Commands that move debt or money take the lock of the supplier's row    *)
(* first and hold it to the end, so that each is one step.  A change of    *)
(* an order's status (send, confirm, cancel) and an edit of the items of a *)
(* receiving read a status WITHOUT a lock and write later: each is two     *)
(* steps, and any command may come between them.                           *)
(*                                                                         *)
(* One stock item with the price of one, so that a quantity is its value.  *)
(* A command repeated with its action id answers from its own row; it      *)
(* changes nothing and is not an action here.                              *)
(***************************************************************************)
EXTENDS OfficeExpenses

CONSTANTS
  Orders,      \* purchase orders, of one line each
  Ordered,     \* the quantity every order orders
  Receivings,  \* receivings of purchase orders
  OrderOf,     \* [Receivings -> Orders]
  Invoices,    \* direct invoices, each with an order and a receiving of its own
  Payments,    \* supplier payments
  Most,        \* the largest quantity of a receiving or an invoice
  Legacy,      \* the debt from before the system
  BankFee,     \* the fee of a payment from BANK
  Shifts,      \* shifts whose takings are settled
  Amounts,     \* what a settlement may post, an integer for each tender
  Transfers,   \* commands that move money between the accounts
  Sums         \* amounts and fees of such a transfer

Documents == Receivings \cup Invoices
Payable == Orders \cup Invoices        \* a direct invoice stands for its order
Targets == Payable \cup {"opening"}

(* An expense and a payment never have the same action id, and neither     *)
(* they nor the documents are called "opening".                            *)
ASSUME SupplierDebtAssumption ==
  /\ OrderOf \in [Receivings -> Orders]
  /\ IsFiniteSet(Targets) /\ IsFiniteSet(Documents) /\ IsFiniteSet(Payments)
  /\ "opening" \notin Payable \cup Documents \cup Payments
  /\ Expenses \cap Payments = {}
  /\ {Ordered, Most, Legacy} \subseteq Nat \ {0} /\ BankFee \in Nat
  /\ Amounts \subseteq [{"CASH", "CARD"} -> Int] /\ Sums \subseteq Nat

VARIABLES
  order,     \* order[o]: PurchaseOrder.status
  changing,  \* changing[o]: the status an unlocked change is about to write
  received,  \* received[o]: quantity_received of its line
  receipt,   \* receipt[d]: the receiving, or the invoice
  editing,   \* receivings with an edit that has read DRAFT
  payment,   \* payment[p]
  paid,      \* paid[t]: PurchaseOrder.amount_paid
  debt,      \* Supplier.current_balance
  ledger,    \* the bag of SupplierTransaction rows
  stock,     \* quantity on hand
  fresh      \* invoices after which nothing has left the stock

goods == <<order, changing, received, receipt, editing, stock, fresh>>
money == <<payment, paid, debt, ledger>>
supplier == <<goods, money>>

(* The rows.  A posted receiving and a row of the ledger are never         *)
(* rewritten; of a receiving only its correction is still to come.         *)
Quantities == 1..Most

Corrections == {"none", "PENDING", "REJECTED", "APPROVED"}

Draft == [status |-> "DRAFT", over |-> FALSE, value |-> 0, items |-> 0,
          correction |-> "none", returned |-> 0]

Entry(type, amount, ref) == [type |-> type, amount |-> amount, ref |-> ref]

Posting(k, on) == [status |-> "POSTED", source |-> k, on |-> on]

NoLines == received = [o \in Orders |-> 0]

SupplierInit ==
  /\ order = [o \in Orders |-> "NONE"] /\ changing = [o \in Orders |-> "none"]
  /\ NoLines
  /\ receipt = [d \in Documents |-> [Draft EXCEPT !.status = "NONE"]]
  /\ editing = {} /\ stock = 0 /\ fresh = {}
  /\ payment = [p \in Payments |-> [status |-> "NONE"]]
  /\ paid = [t \in Payable |-> 0]
  /\ debt \in {0, Legacy} /\ ledger = EmptyBag

-----------------------------------------------------------------------------
(* The ledger.                                                             *)

Signed(row) == IF row.type \in {"PAYMENT", "RETURN"} THEN - row.amount ELSE row.amount

LedgerRows == BagToSet(ledger)

LedgerBalance ==
  SumFunctionOnSet([row \in LedgerRows |-> Signed(row) * ledger[row]], LedgerRows)

Worth(rows) == SumFunctionOnSet([row \in rows |-> Signed(row)], rows)

(* _post_locked: the row and the stored balance, under the supplier lock.  *)
PostDebt(type, amount, ref) ==
  LET row == Entry(type, amount, ref)
  IN /\ ledger' = ledger (+) SetToBag({row})
     /\ debt' = debt + Signed(row)

Opening == Worth({row \in LedgerRows : row.ref = "opening"})

DocumentsOf(t) ==
  {d \in Documents : d = t \/ (d \in Receivings /\ OrderOf[d] = t)}

AtLeastZero(n) == IF n > 0 THEN n ELSE 0

(* _received_principal and opening_remaining read the ledger.              *)
Principal(t) ==
  IF t = "opening" THEN Opening
  ELSE AtLeastZero(Worth({row \in LedgerRows : /\ row.type \in {"PURCHASE", "RETURN"}
                                               /\ row.ref \in DocumentsOf(t)}))

Standing(pays) == {p \in Payments : pays[p].status = "POSTED"}

PaidOn(pays, t) ==
  SumFunctionOnSet([p \in Standing(pays) |-> pays[p].on[t]], Standing(pays))

Posted == Standing(payment)

CanonicalPaid(t) == PaidOn(payment, t)

Remaining(t) == AtLeastZero(Principal(t) - CanonicalPaid(t))

-----------------------------------------------------------------------------
(* Orders and receivings.                                                  *)

CreateOrder(o) ==
  /\ order[o] = "NONE"
  /\ order' = [order EXCEPT ![o] = "DRAFT"]
  /\ UNCHANGED <<changing, received, receipt, editing, stock, fresh, money, treasury>>

MayBecome(o, to) ==
  \/ to = "SENT" /\ order[o] = "DRAFT"
  \/ to = "CONFIRMED" /\ order[o] = "SENT"
  \/ /\ to = "CANCELED" /\ order[o] \notin {"NONE", "RECEIVED", "CANCELED"}
     /\ \A r \in Receivings : OrderOf[r] = o => receipt[r].status # "COMPLETED"

BeginChange(o, to) ==
  /\ changing[o] = "none" /\ MayBecome(o, to)
  /\ changing' = [changing EXCEPT ![o] = to]
  /\ UNCHANGED <<order, received, receipt, editing, stock, fresh, money, treasury>>

EndChange(o) ==
  /\ changing[o] # "none"
  /\ order' = [order EXCEPT ![o] = changing[o]]
  /\ changing' = [changing EXCEPT ![o] = "none"]
  /\ UNCHANGED <<received, receipt, editing, stock, fresh, money, treasury>>

CreateReceiving(r) ==
  /\ receipt[r].status = "NONE" /\ order[OrderOf[r]] \in {"CONFIRMED", "PARTIAL"}
  /\ receipt' = [receipt EXCEPT ![r] = Draft]
  /\ UNCHANGED <<order, changing, received, editing, stock, fresh, money, treasury>>

BeginEdit(r) ==
  /\ receipt[r].status = "DRAFT" /\ r \notin editing
  /\ editing' = editing \cup {r}
  /\ UNCHANGED <<order, changing, received, receipt, stock, fresh, money, treasury>>

(* The item is written whatever has become of its receiving.               *)
EndEdit(r, n) ==
  /\ r \in editing
  /\ editing' = editing \ {r}
  /\ receipt' = [receipt EXCEPT ![r].items = n]
  /\ UNCHANGED <<order, changing, received, stock, fresh, money, treasury>>

ApproveOver(r) ==
  /\ receipt[r].status = "DRAFT"
  /\ receipt' = [receipt EXCEPT ![r].over = TRUE]
  /\ UNCHANGED <<order, changing, received, editing, stock, fresh, money, treasury>>

(* _update_po_status: from the quantities alone, whatever stood before.    *)
StatusAt(quantity) ==
  CASE quantity >= Ordered -> "RECEIVED" [] quantity = 0 -> "CONFIRMED" [] OTHER -> "PARTIAL"

Receive(r, quantity) ==
  LET o == OrderOf[r] IN
  /\ received' = [received EXCEPT ![o] = quantity]
  /\ order' = [order EXCEPT ![o] = StatusAt(quantity)]

PostReceipt(r) ==
  LET n == receipt[r].items IN
  /\ Receive(r, received[OrderOf[r]] + n)
  /\ receipt' = [receipt EXCEPT ![r].status = "COMPLETED", ![r].value = n]
  /\ PostDebt("PURCHASE", n, r)
  /\ stock' = stock + n
  /\ UNCHANGED <<changing, editing, fresh, payment, paid, treasury>>

WithinOrder(r) ==
  receipt[r].over \/ received[OrderOf[r]] + receipt[r].items <= Ordered

Complete(r) ==
  receipt[r].status = "DRAFT" /\ receipt[r].items > 0 /\ WithinOrder(r) /\ PostReceipt(r)

RequestCorrection(r) ==
  /\ receipt[r].status = "COMPLETED" /\ receipt[r].correction \in {"none", "REJECTED"}
  /\ receipt' = [receipt EXCEPT ![r].correction = "PENDING"]
  /\ UNCHANGED <<order, changing, received, editing, stock, fresh, money, treasury>>

RejectCorrection(r) ==
  /\ receipt[r].correction = "PENDING"
  /\ receipt' = [receipt EXCEPT ![r].correction = "REJECTED"]
  /\ UNCHANGED <<order, changing, received, editing, stock, fresh, money, treasury>>

(* The items are read again: an edit that came late is returned too.       *)
ApproveCorrection(r) ==
  LET n == receipt[r].items IN
  /\ receipt[r].correction = "PENDING" /\ stock >= n
  /\ stock' = stock - n /\ fresh' = {}
  /\ Receive(r, AtLeastZero(received[OrderOf[r]] - n))
  /\ receipt' = [receipt EXCEPT ![r].correction = "APPROVED", ![r].returned = n]
  /\ PostDebt("RETURN", n, r)
  /\ UNCHANGED <<changing, editing, payment, paid, treasury>>

-----------------------------------------------------------------------------
(* Direct invoices and the opening debt.                                   *)

ReceiveInvoice(v, n) ==
  /\ receipt[v].status = "NONE"
  /\ receipt' = [receipt EXCEPT ![v] =
       [Draft EXCEPT !.status = "COMPLETED", !.items = n, !.value = n]]
  /\ stock' = stock + n /\ fresh' = fresh \cup {v}
  /\ PostDebt("PURCHASE", n, v)
  /\ UNCHANGED <<order, changing, received, editing, payment, paid, treasury>>

(* Nothing has left the stock since: goods that left and came again are no *)
(* proof.                                                                  *)
Untouched(v) == v \in fresh /\ stock >= receipt[v].items

ReverseInvoice(v) ==
  /\ receipt[v].status = "COMPLETED" /\ receipt[v].correction = "none"
  /\ Untouched(v)
  /\ receipt' = [receipt EXCEPT ![v].correction = "APPROVED", ![v].returned = receipt[v].value]
  /\ stock' = stock - receipt[v].items /\ fresh' = {}
  /\ PostDebt("RETURN", receipt[v].value, v)
  /\ UNCHANGED <<order, changing, received, editing, payment, paid, treasury>>

(* The kitchen uses one.                                                   *)
Consume ==
  /\ stock > 0 /\ stock' = stock - 1 /\ fresh' = {}
  /\ UNCHANGED <<order, changing, received, receipt, editing, money, treasury>>

(* CREATE on a balance of zero, RECONCILE_EXISTING on the amount itself;   *)
(* only before any history.                                                *)
RegisterOpening ==
  /\ ledger = EmptyBag /\ \A p \in Payments : payment[p].status = "NONE"
  /\ ledger' = SetToBag({Entry("ADJUSTMENT", Legacy, "opening")})
  /\ debt' = Legacy
  /\ UNCHANGED <<goods, payment, paid, treasury>>

-----------------------------------------------------------------------------
(* Payments.                                                               *)

Principals(on) == SumFunctionOnSet(on, Targets)

FeeFrom(k) == IF k = "BANK" THEN BankFee ELSE 0

Refreshed(pays) == [t \in Payable |-> PaidOn(pays, t)]

(* Mutant: an allocation is compared with what was received, whatever has  *)
(* been paid on it.                                                        *)
CanTakeAll(t, amount) == amount <= Principal(t)

CanTake(t, amount) ==
  /\ t \in Orders => order[t] # "CANCELED"
  /\ t \in Payable => paid[t] = CanonicalPaid(t)
  /\ amount <= Remaining(t)

(* Explicit allocations; the automatic ones are a choice among them.       *)
Pay(p, k, on) ==
  LET principal == Principals(on) IN
  /\ payment[p].status = "NONE"
  /\ 0 < principal /\ principal <= debt
  /\ debt = LedgerBalance
  /\ \A t \in Targets : on[t] > 0 => CanTake(t, on[t])
  /\ RecordExpense(p, k, principal + FeeFrom(k), "SUPPLIER_PAYMENT")
  /\ PostDebt("PAYMENT", principal, p)
  /\ payment' = [payment EXCEPT ![p] = Posting(k, on)]
  /\ paid' = Refreshed(payment')
  /\ UNCHANGED goods

Debited(p) == Principals(payment[p].on) + FeeFrom(payment[p].source)

ReversePayment(p) ==
  /\ payment[p].status = "POSTED"
  /\ ReverseTransaction(Spent(p, payment[p].source, Debited(p), "SUPPLIER_PAYMENT"))
  /\ PostDebt("PAYMENT_REVERSAL", Principals(payment[p].on), p)
  /\ payment' = [payment EXCEPT ![p].status = "REVERSED"]
  /\ paid' = Refreshed(payment')
  /\ UNCHANGED goods

OrderRequests ==
  \E o \in Orders :
    \/ CreateOrder(o) \/ EndChange(o)
    \/ \E to \in {"SENT", "CONFIRMED", "CANCELED"} : BeginChange(o, to)

ReceivingRequests ==
  \E r \in Receivings :
    \/ CreateReceiving(r) \/ BeginEdit(r) \/ ApproveOver(r) \/ Complete(r)
    \/ \E n \in Quantities : EndEdit(r, n)

CorrectionRequests ==
  \E r \in Receivings : RequestCorrection(r) \/ RejectCorrection(r) \/ ApproveCorrection(r)

InvoiceRequests ==
  \E v \in Invoices : ReverseInvoice(v) \/ \E n \in Quantities : ReceiveInvoice(v, n)

PaymentRequests ==
  \E p \in Payments :
    \/ ReversePayment(p)
    \/ \E k \in Kinds, on \in [Targets -> 0..Most] : Pay(p, k, on)

SupplierNext ==
  \/ OrderRequests \/ ReceivingRequests \/ CorrectionRequests \/ InvoiceRequests \/ PaymentRequests
  \/ RegisterOpening \/ Consume

-----------------------------------------------------------------------------
(* The office: the takings of shifts come into the accounts, transfers     *)
(* move them, expenses and supplier payments leave them.                   *)

OfficeInit == TreasuryInit /\ ExpensesInit /\ SupplierInit

MoneyComes ==
  /\ \/ \E s \in Shifts, amounts \in Amounts : PostSettlement(s, amounts)
     \/ \E c \in Transfers, from, to \in Kinds, amount, fee \in Sums :
          Transfer(c, from, to, amount, fee)
  /\ UNCHANGED <<expense, supplier>>

OfficeNext ==
  \/ MoneyComes
  \/ ExpensesNext /\ UNCHANGED supplier
  \/ SupplierNext /\ UNCHANGED expense

office == <<treasury, expense, supplier>>

OfficeSpec == OfficeInit /\ [][OfficeNext]_office

-----------------------------------------------------------------------------
(* Properties.                                                             *)

(* What the supplier is owed is what the completed receivings and invoices *)
(* were worth, less what was returned and what the standing payments paid, *)
(* plus the opening debt: record_purchase, record_return, pay, reverse and *)
(* register keep the stored balance, the ledger and the amount paid on     *)
(* every order together over any interleaving.                             *)
DebtIsItsDocuments ==
  LET Kept == [d \in Documents |-> receipt[d].value - receipt[d].returned]
      Received == SumFunctionOnSet(Kept, Documents)
      Paid == SumFunctionOnSet([p \in Posted |-> Principals(payment[p].on)], Posted)
  IN /\ LedgerBalance = Received + Opening - Paid
     /\ debt - LedgerBalance \in (IF Opening > 0 THEN {0} ELSE {0, Legacy})
     /\ paid = Refreshed(payment)

(* The supplier's accounts hold: the debt is its documents, and no more is *)
(* paid on an order, an invoice or the opening debt than is owed on it,    *)
(* over payments, reversals and new payments; goods returned after they    *)
(* were paid are the only way to a credit.                                 *)
SupplierAccounts ==
  /\ DebtIsItsDocuments
  /\ \A t \in Targets :
       CanonicalPaid(t) > Principal(t) => \E d \in DocumentsOf(t) : receipt[d].returned > 0
  /\ debt < 0 => \E d \in Documents : receipt[d].returned > 0

Inflow(k) == Moved({r \in Rows : r.type \in {"SHIFT_DEPOSIT", "TRANSFER_IN", "TRANSFER_OUT"}}, k)

SpentOnSupplier(k) ==
  LET from == {p \in Posted : payment[p].source = k}
  IN SumFunctionOnSet([p \in from |-> Debited(p)], from)

(* What is in SAFE and BANK is what came in, less the requests that stand  *)
(* paid and the supplier payments that stand posted: a void or a reversal  *)
(* gives back exactly what its payment took, fee included, and no retry    *)
(* spends twice (record_expense, reverse_transaction).                     *)
MoneyIsDocumented ==
  \A k \in Kinds :
    balance[k] = Inflow(k) - SpentOnExpenses(k) - SpentOnSupplier(k)
=============================================================================
