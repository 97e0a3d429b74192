--------------------------- MODULE OfficeExpenses ---------------------------
(***************************************************************************)
(* The expense requests of an office that are paid from SAFE or BANK.      *)
(*                                                                         *)
(* A request is asked for, approved, paid, and possibly voided; a direct   *)
(* payment goes through the first three in one transaction.  Every command *)
(* holds the lock of its expense row to the end and reads the status under *)
(* it, so that each is one step.  Expenses of the drawer are those of      *)
(* BranchCash.                                                             *)
(***************************************************************************)
EXTENDS Treasury

CONSTANTS
  Expenses,  \* requests that may be made
  Cost,      \* [Expenses -> Nat \ {0}]
  Source,    \* [Expenses -> Kinds], the approved source
  FeeOf      \* [Expenses -> Nat], zero for SAFE

ASSUME OfficeExpensesAssumption ==
  /\ IsFiniteSet(Expenses)
  /\ Cost \in [Expenses -> Nat \ {0}]
  /\ Source \in [Expenses -> Kinds]
  /\ FeeOf \in [Expenses -> Nat]
  /\ \A e \in Expenses : Source[e] = "SAFE" => FeeOf[e] = 0

VARIABLE expense  \* expense[e]: the status of the request, "NONE" before it

ExpenseStatuses ==
  {"NONE", "PENDING", "APPROVED", "PAID", "REJECTED", "CANCELED", "VOIDED"}

ExpensesInit == expense = [e \in Expenses |-> "NONE"]

Turns(e, from, to) ==
  /\ expense[e] \in from
  /\ expense' = [expense EXCEPT ![e] = to]

Total(e) == Cost[e] + FeeOf[e]

Debit(e) == Spent(e, Source[e], Total(e), "EXPENSE")

AskFor(e) == Turns(e, {"NONE"}, "PENDING") /\ UNCHANGED treasury

Approve(e) == Turns(e, {"PENDING"}, "APPROVED") /\ UNCHANGED treasury

Reject(e) == Turns(e, {"PENDING"}, "REJECTED") /\ UNCHANGED treasury

CancelExpense(e) == Turns(e, {"PENDING", "APPROVED"}, "CANCELED") /\ UNCHANGED treasury

(* A short account refuses, and the request stays approved.                *)
PayExpense(e) ==
  /\ Turns(e, {"APPROVED"}, "PAID")
  /\ RecordExpense(e, Source[e], Total(e), "EXPENSE")

DirectPay(e) ==
  /\ Turns(e, {"NONE"}, "PAID")
  /\ RecordExpense(e, Source[e], Total(e), "EXPENSE")

(* Mutant: the void gives the money back without looking at the status.    *)
VoidTwice(e) ==
  /\ Turns(e, {"PAID", "VOIDED"}, "VOIDED")
  /\ Apply({Back(Debit(e))})

VoidExpense(e) ==
  /\ Turns(e, {"PAID"}, "VOIDED")
  /\ ReverseTransaction(Debit(e))

ExpensesNext ==
  \E e \in Expenses :
    AskFor(e) \/ Approve(e) \/ Reject(e) \/ CancelExpense(e)
    \/ PayExpense(e) \/ DirectPay(e) \/ VoidExpense(e)

(* What the paid requests have taken from an account.                      *)
SpentOnExpenses(k) ==
  LET from == {e \in Expenses : expense[e] = "PAID" /\ Source[e] = k}
  IN SumFunctionOnSet([e \in from |-> Total(e)], from)
=============================================================================
