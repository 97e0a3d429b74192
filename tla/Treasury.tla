------------------------------ MODULE Treasury ------------------------------
(***************************************************************************)
(* The money accounts of one branch: SAFE and BANK, and the append-only    *)
(* TreasuryTransaction rows that move them.                                *)
(*                                                                         *)
(* A row is written together with the balance it changes, under the row    *)
(* locks of its accounts, so that each operation is one step.  The book is *)
(* a bag: two equal rows are two rows.  The operations are guards and      *)
(* actions for the modules that call the service: ShiftSettlement posts    *)
(* what a manager has confirmed, OfficeExpenses and SupplierDebt spend and *)
(* reverse.                                                                *)
(***************************************************************************)
EXTENDS Integers, FiniteSets, Functions, Bags

VARIABLES
  balance,  \* balance[k]: TreasuryAccount.balance
  book      \* the bag of TreasuryTransaction rows

treasury == <<balance, book>>

Kinds == {"SAFE", "BANK"}

(* The row a command, a shift or a reversal leaves in the book.            *)
Row(k, type, delta, ref, item) ==
  [account |-> k, type |-> type, delta |-> delta, ref |-> ref, item |-> item]

Rows == BagToSet(book)

Deltas(rows) == SumFunctionOnSet([r \in rows |-> r.delta], rows)

Moved(rows, k) == Deltas({r \in rows : r.account = k})

(* _apply, for each of the rows: the balance moves with its row.           *)
Apply(rows) ==
  /\ balance' = [k \in Kinds |-> balance[k] + Moved(rows, k)]
  /\ book' = book (+) SetToBag(rows)

TreasuryInit ==
  /\ balance = [k \in Kinds |-> 0]
  /\ book = EmptyBag

-----------------------------------------------------------------------------
(* The settlement of a shift.                                              *)

Destination(m) == IF m = "CASH" THEN "SAFE" ELSE "BANK"

Deposits(s) == {r \in Rows : r.type = "SHIFT_DEPOSIT" /\ r.ref = s}

Deposit(s, m, amount) == Row(Destination(m), "SHIFT_DEPOSIT", amount, s, m)

(* A tender posted before must have been posted with the same amount.      *)
DepositsAgree(s, amounts) == \A r \in Deposits(s) : r.delta = amounts[r.item]

(* Mutant: a repeated confirmation posts its tenders again.                *)
PostSettlementAgain(s, amounts) ==
  Apply({Deposit(s, m, amounts[m]) : m \in {t \in DOMAIN amounts : amounts[t] # 0}})

(* What is already there is kept, and a zero leaves no row.                *)
PostSettlement(s, amounts) ==
  /\ DepositsAgree(s, amounts)
  /\ Apply({Deposit(s, m, amounts[m]) :
              m \in {t \in DOMAIN amounts : amounts[t] # 0}} \ Deposits(s))

-----------------------------------------------------------------------------
(* Commands.  A command that finds its rows does nothing.                  *)

OfCommand(c, types) == {r \in Rows : r.ref = c /\ r.type \in types}

Transfer(c, from, to, amount, fee) ==
  \/ /\ OfCommand(c, {"TRANSFER_OUT", "TRANSFER_IN"}) # {}
     /\ UNCHANGED treasury
  \/ /\ OfCommand(c, {"TRANSFER_OUT", "TRANSFER_IN"}) = {}
     /\ from # to /\ fee <= amount
     /\ balance[from] >= amount
     /\ Apply({Row(from, "TRANSFER_OUT", -amount, c, "none"),
               Row(to, "TRANSFER_IN", amount - fee, c, "none")})

Spent(c, k, total, type) == Row(k, type, -total, c, "none")

RecordExpense(c, k, total, type) ==
  \/ /\ OfCommand(c, {type}) # {}
     /\ UNCHANGED treasury
  \/ /\ OfCommand(c, {type}) = {}
     /\ balance[k] >= total
     /\ Apply({Spent(c, k, total, type)})

Back(r) == [r EXCEPT !.type = "REVERSAL", !.delta = - r.delta]

ReverseTransaction(r) ==
  \/ Back(r) \in Rows /\ UNCHANGED treasury
  \/ r \in Rows /\ Back(r) \notin Rows /\ Apply({Back(r)})
=============================================================================
