------------------------------ MODULE Payroll ------------------------------
(***************************************************************************)
(* The pay of one employee for one month: the salary row with its bonuses  *)
(* and deductions, the disciplinary cases charged to it, and the payment   *)
(* from the branch's drawer, which an open shift may own.                  *)
(*                                                                         *)
(* Approving, paying and the itemised edits lock the salary row and are    *)
(* one step here.  update, delete, approve_all and generate_payroll read   *)
(* the row, and write what they made of it later: a clerk's desk keeps     *)
(* what was read.  Amounts are counted in units of one bonus or fine.      *)
(***************************************************************************)
EXTENDS Integers, FiniteSets, FiniteSetsExt

CONSTANTS
  Clerks,     \* administrators at work at the same time
  Cases,      \* disciplinary cases of the month
  Author,     \* [Cases -> Clerks]: who wrote a case
  BaseSalary, \* the employee's standing salary
  Edits,      \* bound: <<field, value>> an update may write
  Given,      \* bound: bonuses a salary may be created with
  MaxItems,   \* bound: bonus and deduction rows entered by hand
  CashAtHand  \* what the drawer holds first

ASSUME PayrollAssumption ==
  /\ Author \in [Cases -> Clerks]
  /\ BaseSalary \in Nat /\ Given \subseteq Nat /\ MaxItems \in Nat
  /\ Edits \subseteq {"base", "bonus", "deduction"} \X Nat
  /\ CashAtHand \in Nat
  /\ "free" \notin Clerks
  /\ Cases \cap {"none", "update", "delete", "approve_all", "generate", "refused", "cash"} = {}

VARIABLES
  salary,   \* the row of the month
  bonuses,  \* live bonus rows
  fines,    \* live deduction rows entered by hand
  charges,  \* charges[c]: live deduction rows of case c
  case,     \* case[c]: its status
  desk,     \* desk[k]: what clerk k has read and not yet written
  cash,     \* the branch's register
  shift,    \* whether an active or ended shift owns the drawer
  lock,     \* who holds the lock of the register
  payments  \* salary payments in the cash ledger

payrollVars == <<salary, bonuses, fines, charges, case, desk, cash, shift, lock, payments>>
money == <<cash, shift, lock, payments>>
items == <<bonuses, fines, charges>>

NoSalary == [status |-> "NONE", deleted |-> FALSE, base |-> 0, bonus |-> 0,
             deduction |-> 0, net |-> 0]
Idle == [op |-> "none", saw |-> NoSalary]

PayrollInit ==
  /\ salary = NoSalary
  /\ bonuses = 0 /\ fines = 0
  /\ charges = [c \in Cases |-> 0]
  /\ case = [c \in Cases |-> "NONE"]
  /\ desk = [k \in Clerks |-> Idle]
  /\ cash = CashAtHand /\ shift = FALSE /\ lock = "free" /\ payments = 0

Live == salary.status # "NONE" /\ ~salary.deleted
Open(k) == desk[k].op = "none"

(* What of the row the rest of a handler goes by.                          *)
Keeps(op) == CASE op = "update" -> [salary EXCEPT !.net = 0]
               [] op = "generate" -> [NoSalary EXCEPT !.status = salary.status, !.base = salary.base]
               [] OTHER -> NoSalary
Reads(k, op) == desk' = [desk EXCEPT ![k] = [op |-> op, saw |-> Keeps(op)]]
Clears(k) == desk' = [desk EXCEPT ![k] = Idle]

-----------------------------------------------------------------------------
(* The salary row.                                                         *)

Net(base, bonus, deduction) == base + bonus - deduction

(* The sums over the rows as they are now, and the net of them over the    *)
(* base of the object at hand, which may be an older one.                  *)
Recompute(base) ==
  LET fined == fines' + MapThenSumSet(LAMBDA c : charges'[c], Cases) IN
    salary' = [salary EXCEPT !.bonus = bonuses', !.deduction = fined,
                             !.net = Net(base, bonuses', fined)]

Fresh(bonus, deduction) ==
  [status |-> "PENDING", deleted |-> FALSE, base |-> BaseSalary, bonus |-> bonus,
   deduction |-> deduction, net |-> Net(BaseSalary, bonus, deduction)]

Waiting == {c \in Cases : case[c] = "PENDING_PAYROLL"}

(* Mutant: the cases are those a snapshot showed waiting, and are not      *)
(* looked at again under their locks.                                      *)
AttachableUnlocked == {c \in Cases : case[c] \in {"PENDING_PAYROLL", "APPROVED"}}

(* The cases a salary takes over, each read under its lock.                *)
Attachable == Waiting

Attach(attached) ==
  /\ charges' = [c \in Cases |-> charges[c] + IF c \in attached THEN 1 ELSE 0]
  /\ case' = [c \in Cases |-> IF c \in attached THEN "APPROVED" ELSE case[c]]

(* A second row for the month, even after a soft delete, is refused by the *)
(* constraint on employee and period.                                      *)
CreateSalary(bonus) ==
  /\ salary.status = "NONE"
  /\ Attach(Attachable) /\ UNCHANGED <<bonuses, fines>>
  /\ salary' = IF Attachable = {} THEN Fresh(bonus, 0)
               ELSE Fresh(0, Cardinality(Attachable))
  /\ UNCHANGED <<desk, money>>

(* generate_payroll meets a row that exists, and attaches to it later.     *)
ReadForPayroll(k) ==
  /\ Open(k) /\ Live
  /\ Reads(k, "generate")
  /\ UNCHANGED <<salary, items, case, money>>

AttachToExisting(k) ==
  /\ desk[k].op = "generate" /\ Clears(k)
  /\ IF desk[k].saw.status = "PAID" \/ Attachable = {}
     THEN UNCHANGED <<salary, items, case>>
     ELSE /\ Attach(Attachable) /\ UNCHANGED <<bonuses, fines>>
          /\ Recompute(desk[k].saw.base)
  /\ UNCHANGED money

ReadPending(k, op) ==
  /\ Open(k) /\ Live /\ salary.status = "PENDING"
  /\ Reads(k, op)
  /\ UNCHANGED <<salary, items, case, money>>

WriteUpdate(k, field, value) ==
  /\ desk[k].op = "update" /\ Clears(k)
  /\ LET edited == [desk[k].saw EXCEPT ![field] = value] IN
       salary' = [salary EXCEPT ![field] = value,
                    !.net = Net(edited.base, edited.bonus, edited.deduction)]
  /\ UNCHANGED <<items, case, money>>

WriteDelete(k) ==
  /\ desk[k].op = "delete" /\ Clears(k)
  /\ salary' = [salary EXCEPT !.deleted = TRUE]
  /\ UNCHANGED <<items, case, money>>

WriteApproveAll(k) ==
  /\ desk[k].op = "approve_all" /\ Clears(k)
  /\ salary' = [salary EXCEPT !.status = "APPROVED"]
  /\ UNCHANGED <<items, case, money>>

ApproveSalary ==
  /\ Live /\ salary.status = "PENDING"
  /\ salary' = [salary EXCEPT !.status = "APPROVED"]
  /\ UNCHANGED <<items, case, desk, money>>

(* The register is locked under the salary: nothing moves without it, and  *)
(* cash only when no shift owns the drawer and the drawer has it.          *)
RecordInLedger(method, amount) ==
  /\ lock = "free" /\ amount > 0
  /\ method = "CASH" => ~shift /\ cash >= amount
  /\ cash' = IF method = "CASH" THEN cash - amount ELSE cash
  /\ payments' = payments + 1

PaySalary(method) ==
  /\ Live /\ salary.status = "APPROVED"
  /\ RecordInLedger(method, salary.net)
  /\ salary' = [salary EXCEPT !.status = "PAID"]
  /\ UNCHANGED <<items, case, desk, shift, lock>>

SalaryRequests ==
  \/ \E bonus \in Given : CreateSalary(bonus)
  \/ ApproveSalary
  \/ \E m \in {"CASH", "BANK"} : PaySalary(m)
  \/ \E k \in Clerks :
       \/ ReadForPayroll(k) \/ AttachToExisting(k)
       \/ \E op \in {"update", "delete", "approve_all"} : ReadPending(k, op)
       \/ \E edit \in Edits : WriteUpdate(k, edit[1], edit[2])
       \/ WriteDelete(k) \/ WriteApproveAll(k)

-----------------------------------------------------------------------------
(* Itemised bonuses and deductions, under the lock of the salary.          *)

Editable == Live /\ salary.status # "PAID"

ChangeBonus(by) ==
  /\ Editable /\ bonuses + by >= 0 /\ bonuses + fines + by <= MaxItems
  /\ bonuses' = bonuses + by /\ UNCHANGED <<fines, charges>>
  /\ Recompute(salary.base)
  /\ UNCHANGED <<case, desk, money>>

ChangeFine(by) ==
  /\ Editable /\ fines + by >= 0 /\ bonuses + fines + by <= MaxItems
  /\ fines' = fines + by /\ UNCHANGED <<bonuses, charges>>
  /\ Recompute(salary.base)
  /\ UNCHANGED <<case, desk, money>>

(* The row of a case may be removed by hand like any other.                *)
RemoveCharge(c) ==
  /\ Editable /\ charges[c] > 0
  /\ charges' = [charges EXCEPT ![c] = @ - 1] /\ UNCHANGED <<bonuses, fines>>
  /\ Recompute(salary.base)
  /\ UNCHANGED <<case, desk, money>>

SetBase(value) ==
  /\ Editable
  /\ UNCHANGED items
  /\ LET b == bonuses
         f == fines + MapThenSumSet(LAMBDA c : charges[c], Cases) IN
       salary' = [salary EXCEPT !.base = value, !.bonus = b, !.deduction = f,
                                !.net = Net(value, b, f)]
  /\ UNCHANGED <<case, desk, money>>

ItemRequests ==
  \/ \E by \in {-1, 1} : ChangeBonus(by) \/ ChangeFine(by)
  \/ \E c \in Cases : RemoveCharge(c)
  \/ SetBase(BaseSalary + 1)

-----------------------------------------------------------------------------
(* Disciplinary cases.  The author of a case may not decide on it.         *)

SubmitCase(c) ==
  /\ case[c] = "NONE"
  /\ case' = [case EXCEPT ![c] = "SUBMITTED"]
  /\ UNCHANGED <<salary, items, desk, money>>

(* With no salary to charge, the case is left for the payroll to find.     *)
ApproveCase(k, c) ==
  /\ case[c] = "SUBMITTED" /\ k # Author[c]
  /\ Live => salary.status # "PAID"
  /\ IF Live
     THEN /\ case' = [case EXCEPT ![c] = "APPROVED"]
          /\ charges' = [charges EXCEPT ![c] = @ + 1] /\ UNCHANGED <<bonuses, fines>>
          /\ Recompute(salary.base)
     ELSE /\ case' = [case EXCEPT ![c] = "PENDING_PAYROLL"]
          /\ UNCHANGED <<salary, items>>
  /\ UNCHANGED <<desk, money>>

(* The same, when the salary is created between the look and the commit.   *)
LookForSalary(k, c) ==
  /\ Open(k) /\ case[c] = "SUBMITTED" /\ k # Author[c] /\ ~Live
  /\ \A other \in Clerks : desk[other].op # c
  /\ Reads(k, c)
  /\ UNCHANGED <<salary, items, case, money>>

LeaveForPayroll(k, c) ==
  /\ desk[k].op = c /\ Clears(k)
  /\ case' = [case EXCEPT ![c] = "PENDING_PAYROLL"]
  /\ UNCHANGED <<salary, items, money>>

Undecided(c) == \A k \in Clerks : desk[k].op # c

RejectCase(k, c) ==
  /\ case[c] = "SUBMITTED" /\ k # Author[c]
  /\ case' = [case EXCEPT ![c] = "REJECTED"]
  /\ UNCHANGED <<salary, items, desk, money>>

VoidCase(k, c) ==
  /\ case[c] \in {"APPROVED", "PENDING_PAYROLL"} /\ k # Author[c]
  /\ case[c] = "APPROVED" => salary.status # "PAID"
  /\ case' = [case EXCEPT ![c] = "VOIDED"]
  /\ IF case[c] = "APPROVED"
     THEN /\ charges' = [charges EXCEPT ![c] = 0] /\ UNCHANGED <<bonuses, fines>>
          /\ Recompute(salary.base)
     ELSE UNCHANGED <<salary, items>>
  /\ UNCHANGED <<desk, money>>

CaseRequests ==
  \E c \in Cases :
    \/ SubmitCase(c)
    \/ \E k \in Clerks : \/ LeaveForPayroll(k, c)
                         \/ LookForSalary(k, c)
                         \/ Undecided(c) /\ ApproveCase(k, c)
                         \/ Undecided(c) /\ RejectCase(k, c)
                         \/ Undecided(c) /\ VoidCase(k, c)

-----------------------------------------------------------------------------
(* Deposits and withdrawals of the office, and the shift that may own the  *)
(* drawer: both sides take the lock of the register before they look.      *)

LockRegister(k) ==
  /\ Open(k) /\ lock = "free" /\ lock' = k
  /\ desk' = [desk EXCEPT ![k] = [Idle EXCEPT !.op = IF shift THEN "refused" ELSE "cash"]]
  /\ UNCHANGED <<salary, items, case, cash, shift, payments>>

MoveCash(k, by) ==
  /\ lock = k /\ lock' = "free" /\ Clears(k)
  /\ cash' = IF desk[k].op = "cash" /\ cash + by >= 0 THEN cash + by ELSE cash
  /\ UNCHANGED <<salary, items, case, shift, payments>>

(* Mutant: a shift starts without the lock.                                *)
StartShiftUnlocked ==
  /\ ~shift /\ shift' = TRUE
  /\ UNCHANGED <<salary, items, case, desk, cash, lock, payments>>

StartShift ==
  /\ ~shift /\ lock = "free" /\ shift' = TRUE
  /\ UNCHANGED <<salary, items, case, desk, cash, lock, payments>>

SettleShift ==
  /\ shift /\ shift' = FALSE
  /\ UNCHANGED <<salary, items, case, desk, cash, lock, payments>>

CashRequests ==
  \/ \E k \in Clerks : LockRegister(k) \/ \E by \in {-1, 1} : MoveCash(k, by) /\ cash' <= CashAtHand
  \/ StartShift \/ SettleShift

PayrollNext == SalaryRequests \/ ItemRequests \/ CaseRequests \/ CashRequests

PayrollSpec == PayrollInit /\ [][PayrollNext]_payrollVars

-----------------------------------------------------------------------------
(* Properties.                                                             *)

(* A disciplinary case is charged at most once and only while it stands    *)
(* approved, whoever approves, voids or generates the payroll meanwhile.   *)
ChargedOnce == \A c \in Cases :
  /\ charges[c] <= 1
  /\ charges[c] = 1 => case[c] = "APPROVED"

(* The office moves no cash of a drawer that a shift owns                  *)
(* (_unresolved_shift_error): not even when the shift starts between the   *)
(* check and the movement.                                                 *)
ShiftOwnsDrawer == [][shift => cash' = cash]_payrollVars
=============================================================================
