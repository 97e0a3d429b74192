-------------------------- MODULE BackOfficeProofs --------------------------
(***************************************************************************)
(* What the back office promises for any clerks, officers, cases, leaves   *)
(* and bounds: charges of disciplinary cases, the drawer a shift owns, the *)
(* balance of leave, and what is reported of days and audits; of the cash  *)
(* of a branch, for any commands and cash-outs of any amounts, any         *)
(* takings, and reports delivered in any order or never; and of its        *)
(* customers, for any stamps and any updates of any carts.                 *)
(***************************************************************************)
EXTENDS Payroll, StaffTime, BranchCash, Customers, SumProofs

-----------------------------------------------------------------------------
(* Payroll.                                                                *)

PayrollTyped ==
  /\ charges \in [Cases -> {0, 1}]
  /\ DOMAIN case = Cases
  /\ DOMAIN desk = Clerks
  /\ shift \in BOOLEAN

ChargedIfApproved(c) == charges[c] = 1 => case[c] = "APPROVED"

(* A case that somebody is about to leave for the payroll is undecided.    *)
LeftByOne(k, c) ==
  desk[k].op = c => /\ case[c] = "SUBMITTED"
                    /\ \A j \in Clerks : desk[j].op = c => j = k

(* Who may move cash holds the register, and no shift owns the drawer.     *)
MayMove(k) == lock = k /\ desk[k].op = "cash" => ~shift

PayrollInv ==
  /\ PayrollTyped
  /\ \A c \in Cases : ChargedIfApproved(c) /\ \A k \in Clerks : LeftByOne(k, c)
  /\ \A k \in Clerks : MayMove(k)

LEMMA PayrollInitial == PayrollInit => PayrollInv
<1> SUFFICES ASSUME PayrollInit PROVE PayrollInv
  OBVIOUS
<1>1. PayrollTyped
  BY DEF PayrollInit, PayrollTyped
<1>2. ASSUME NEW c \in Cases PROVE ChargedIfApproved(c)
  BY DEF PayrollInit, ChargedIfApproved
<1>3. ASSUME NEW k \in Clerks PROVE desk[k].op = "none" /\ lock # k
  BY PayrollAssumption DEF PayrollInit, Idle
<1>4. ASSUME NEW k \in Clerks, NEW c \in Cases PROVE LeftByOne(k, c)
  BY <1>3, PayrollAssumption DEF LeftByOne
<1>5. ASSUME NEW k \in Clerks PROVE MayMove(k)
  BY <1>3 DEF MayMove
<1> QED BY <1>1, <1>2, <1>4, <1>5 DEF PayrollInv

(* Whatever attaches cases charges those that wait, once.                  *)
LEMMA Attaching ==
  ASSUME PayrollInv, Attach(Attachable), UNCHANGED desk
  PROVE  /\ charges' \in [Cases -> {0, 1}] /\ DOMAIN case' = Cases
         /\ \A c \in Cases : ChargedIfApproved(c)' /\ \A k \in Clerks : LeftByOne(k, c)'
  BY DEF PayrollInv, PayrollTyped, ChargedIfApproved, LeftByOne, Attach, Attachable, Waiting

LEMMA SalaryRequestsStep == PayrollInv /\ SalaryRequests => PayrollInv'
<1> SUFFICES ASSUME PayrollInv, SalaryRequests PROVE PayrollInv'
  OBVIOUS
<1> USE PayrollAssumption DEF PayrollInv, PayrollTyped, ChargedIfApproved, LeftByOne, MayMove
<1>1. ASSUME NEW bonus \in Given, CreateSalary(bonus) PROVE PayrollInv'
  BY <1>1, Attaching DEF CreateSalary, money
<1>2. ASSUME ApproveSalary PROVE PayrollInv'
  BY <1>2 DEF ApproveSalary, items, money
<1>3. ASSUME NEW m \in {"CASH", "BANK"}, PaySalary(m) PROVE PayrollInv'
  BY <1>3 DEF PaySalary, items
<1>4. ASSUME NEW k \in Clerks, ReadForPayroll(k) PROVE PayrollInv'
  BY <1>4 DEF ReadForPayroll, Reads, items, money
<1>5. ASSUME NEW k \in Clerks, AttachToExisting(k) PROVE PayrollInv'
  BY <1>5, Attaching DEF AttachToExisting, Clears, Idle, items, money, Attach, Attachable, Waiting
<1>6. ASSUME NEW k \in Clerks, NEW op \in {"update", "delete", "approve_all"}, ReadPending(k, op)
      PROVE  PayrollInv'
  BY <1>6 DEF ReadPending, Reads, items, money
<1>7. ASSUME NEW k \in Clerks, NEW field, NEW value, WriteUpdate(k, field, value) PROVE PayrollInv'
  <2>1. /\ desk' = [desk EXCEPT ![k] = Idle]
        /\ UNCHANGED <<charges, case, shift, lock>>
    BY <1>7 DEF WriteUpdate, Clears, items, money
  <2> QED BY <2>1 DEF Idle
<1>8. ASSUME NEW k \in Clerks, WriteDelete(k) \/ WriteApproveAll(k) PROVE PayrollInv'
  BY <1>8 DEF WriteDelete, WriteApproveAll, Clears, Idle, items, money
<1> HIDE DEF PayrollInv
<1> QED BY <1>1, <1>2, <1>3, <1>4, <1>5, <1>6, <1>7, <1>8 DEF SalaryRequests

LEMMA ItemRequestsStep == PayrollInv /\ ItemRequests => PayrollInv'
<1> SUFFICES ASSUME PayrollInv, ItemRequests PROVE PayrollInv'
  OBVIOUS
<1> USE DEF PayrollInv, PayrollTyped, ChargedIfApproved, LeftByOne, MayMove
<1>1. ASSUME NEW c \in Cases, RemoveCharge(c) PROVE PayrollInv'
  BY <1>1 DEF RemoveCharge, money
<1>2. ASSUME NEW by \in {-1, 1}, ChangeBonus(by) \/ ChangeFine(by) PROVE PayrollInv'
  BY <1>2 DEF ChangeBonus, ChangeFine, money
<1>3. ASSUME SetBase(BaseSalary + 1) PROVE PayrollInv'
  BY <1>3 DEF SetBase, items, money
<1> QED BY <1>1, <1>2, <1>3 DEF ItemRequests

LEMMA CaseRequestsStep == PayrollInv /\ CaseRequests => PayrollInv'
<1> SUFFICES ASSUME PayrollInv, CaseRequests PROVE PayrollInv'
  OBVIOUS
<1> USE PayrollAssumption DEF PayrollInv, PayrollTyped, ChargedIfApproved, LeftByOne, MayMove
<1>1. ASSUME NEW c \in Cases, SubmitCase(c) PROVE PayrollInv'
  BY <1>1 DEF SubmitCase, items, money
<1>2. ASSUME NEW c \in Cases, NEW k \in Clerks, LeaveForPayroll(k, c) PROVE PayrollInv'
  BY <1>2 DEF LeaveForPayroll, Clears, Idle, items, money
<1>3. ASSUME NEW c \in Cases, NEW k \in Clerks, LookForSalary(k, c) PROVE PayrollInv'
  BY <1>3 DEF LookForSalary, Open, Reads, items, money
<1>4. ASSUME NEW c \in Cases, NEW k \in Clerks, Undecided(c), ApproveCase(k, c) PROVE PayrollInv'
  BY <1>4 DEF Undecided, ApproveCase, items, money
<1>5. ASSUME NEW c \in Cases, NEW k \in Clerks, Undecided(c), RejectCase(k, c) PROVE PayrollInv'
  BY <1>5 DEF Undecided, RejectCase, items, money
<1>6. ASSUME NEW c \in Cases, NEW k \in Clerks, Undecided(c), VoidCase(k, c) PROVE PayrollInv'
  BY <1>6 DEF Undecided, VoidCase, items, money
<1> QED BY <1>1, <1>2, <1>3, <1>4, <1>5, <1>6 DEF CaseRequests

LEMMA CashRequestsStep == PayrollInv /\ CashRequests => PayrollInv'
<1> SUFFICES ASSUME PayrollInv, CashRequests PROVE PayrollInv'
  OBVIOUS
<1> USE PayrollAssumption DEF PayrollInv, PayrollTyped, ChargedIfApproved, LeftByOne, MayMove
<1>1. ASSUME NEW k \in Clerks, LockRegister(k) PROVE PayrollInv'
  BY <1>1 DEF LockRegister, Open, Idle, items
<1>2. ASSUME NEW k \in Clerks, NEW by \in {-1, 1}, MoveCash(k, by) PROVE PayrollInv'
  BY <1>2 DEF MoveCash, Clears, Idle, items
<1>3. ASSUME StartShift PROVE PayrollInv'
  BY <1>3 DEF StartShift, items
<1>4. ASSUME SettleShift PROVE PayrollInv'
  BY <1>4 DEF SettleShift, items
<1> QED BY <1>1, <1>2, <1>3, <1>4 DEF CashRequests

LEMMA PayrollStep == PayrollInv /\ [PayrollNext]_payrollVars => PayrollInv'
<1>1. PayrollInv /\ UNCHANGED payrollVars => PayrollInv'
  BY DEF payrollVars, PayrollInv, PayrollTyped, ChargedIfApproved, LeftByOne, MayMove
<1> QED BY <1>1, SalaryRequestsStep, ItemRequestsStep, CaseRequestsStep, CashRequestsStep DEF PayrollNext

(* What a case was charged to, and what a shift leaves to the office, holds*)
(* in every reachable state of the payroll, for any cases and accounts.    *)
THEOREM PayrollInvariant == PayrollSpec => []PayrollInv
BY PayrollInitial, PayrollStep, PTL DEF PayrollSpec

(* A disciplinary case is charged at most once and only while approved     *)
(* (disciplinary_service.py), whoever approves, voids or pays meanwhile.   *)
THEOREM Charged == PayrollSpec => []ChargedOnce
<1>1. PayrollInv => ChargedOnce
  BY DEF PayrollInv, PayrollTyped, ChargedIfApproved, ChargedOnce
<1> QED BY <1>1, PayrollInvariant, PTL

(* The office moves no cash of a drawer that a shift owns.                 *)
THEOREM DrawerOwned == PayrollSpec => ShiftOwnsDrawer
<1>1. PayrollInv /\ [PayrollNext]_payrollVars => [shift => cash' = cash]_payrollVars
  <2> SUFFICES ASSUME PayrollInv, PayrollNext, shift PROVE cash' = cash
    OBVIOUS
  <2>1. CASE SalaryRequests
    BY <2>1 DEF SalaryRequests, CreateSalary, ApproveSalary, PaySalary, RecordInLedger, ReadForPayroll,
       AttachToExisting, ReadPending, WriteUpdate, WriteDelete, WriteApproveAll, money
  <2>2. CASE ItemRequests
    BY <2>2 DEF ItemRequests, ChangeBonus, ChangeFine, RemoveCharge, SetBase, money
  <2>3. CASE CaseRequests
    BY <2>3 DEF CaseRequests, SubmitCase, LeaveForPayroll, LookForSalary, ApproveCase, RejectCase,
       VoidCase, money
  <2>4. CASE CashRequests
    BY <2>4 DEF CashRequests, LockRegister, MoveCash, StartShift, SettleShift, PayrollInv, MayMove
  <2> QED BY <2>1, <2>2, <2>3, <2>4 DEF PayrollNext
<1> QED BY <1>1, PayrollInvariant, PTL DEF PayrollSpec, ShiftOwnsDrawer

-----------------------------------------------------------------------------
(* Leave.                                                                  *)

LEMMA MaxOfTwo ==
  ASSUME NEW x \in Int, NEW y \in Int
  PROVE  Max({x, y}) = IF x >= y THEN x ELSE y
BY DEF Max

LEMMA MinOfTwo ==
  ASSUME NEW x \in Int, NEW y \in Int
  PROVE  Min({x, y}) = IF x <= y THEN x ELSE y
BY DEF Min

(* What a canceller read never exceeds the quota, so that giving days back *)
(* to what it read cannot pass it either; and what is approved is counted, *)
(* as long as days went back once, to the balance they were taken from.    *)
AwayDays == SumFunctionOnSet(Days, Approved)
Fits == Annual > 0 /\ ~misgiven => AwayDays <= balance.used

BalanceInv ==
  /\ balance \in [exists : BOOLEAN, quota : Nat, used : Nat]
  /\ balance.used <= balance.quota
  /\ ~balance.exists => balance.quota = 0
  /\ DOMAIN hand = Officers
  /\ \A k \in Officers : hand[k].saw \in Nat /\ hand[k].saw <= balance.quota

LeaveInv == BalanceInv /\ DOMAIN leave = Leaves /\ Fits

LEMMA SumOfDays ==
  ASSUME NEW S \in SUBSET Leaves
  PROVE  IsFiniteSet(S) /\ SumFunctionOnSet(Days, S) \in Nat
<1>1. IsFiniteSet(S) /\ \A l \in S : Days[l] \in Nat
  BY StaffAssumption, FS_Subset
<1> QED BY <1>1, SumNat

(* A leave written anything but approved is not approved any more.         *)
LEMMA OneLess ==
  ASSUME NEW l \in Leaves, NEW status, status # "APPROVED", DOMAIN leave = Leaves,
         leave' = [leave EXCEPT ![l] = status]
  PROVE  /\ DOMAIN leave' = Leaves
         /\ AwayDays \in Nat /\ AwayDays' \in Nat /\ Days[l] \in Nat /\ AwayDays' <= AwayDays
         /\ leave[l] = "APPROVED" => AwayDays = Days[l] + AwayDays'
<1>1. Approved' = Approved \ {l} /\ (l \in Approved <=> leave[l] = "APPROVED")
  BY DEF Approved
<1>2. Approved \in SUBSET Leaves /\ Approved' \in SUBSET Leaves
  BY DEF Approved
<1>3. /\ IsFiniteSet(Approved) /\ SumFunctionOnSet(Days, Approved) \in Nat
      /\ SumFunctionOnSet(Days, Approved') \in Nat
  BY <1>2, SumOfDays
<1>4. \A m \in Leaves : Days[m] \in Nat
  BY StaffAssumption
<1>5. CASE l \in Approved
  <2>1. \A m \in Approved : Days[m] \in Int
    BY <1>2, <1>4
  <2>2. SumFunctionOnSet(Days, Approved) = Days[l] + SumFunctionOnSet(Days, Approved')
    BY <1>1, <1>3, <1>5, <2>1, SumSplits
  <2> QED BY <1>3, <1>4, <2>2 DEF AwayDays
<1>6. CASE l \notin Approved
  <2>1. Approved' = Approved
    BY <1>1, <1>6
  <2> QED BY <1>1, <1>3, <1>4, <1>6, <2>1 DEF AwayDays
<1> QED BY <1>5, <1>6

LEMMA OneMoreAway ==
  ASSUME NEW l \in Leaves, leave[l] # "APPROVED", DOMAIN leave = Leaves,
         leave' = [leave EXCEPT ![l] = "APPROVED"]
  PROVE  /\ DOMAIN leave' = Leaves
         /\ AwayDays \in Nat /\ Days[l] \in Nat /\ AwayDays' = AwayDays + Days[l]
<1>1. Approved' = Approved \cup {l} /\ l \notin Approved
  BY DEF Approved
<1>2. Approved \in SUBSET Leaves
  BY DEF Approved
<1>3. IsFiniteSet(Approved) /\ SumFunctionOnSet(Days, Approved) \in Nat
  BY <1>2, SumOfDays
<1>4. \A m \in Leaves : Days[m] \in Nat
  BY StaffAssumption
<1>5. \A m \in Approved \cup {l} : Days[m] \in Int
  BY <1>2, <1>4
<1>6. SumFunctionOnSet(Days, Approved \cup {l}) = Days[l] + SumFunctionOnSet(Days, Approved)
  BY <1>1, <1>3, <1>5, SumAdds
<1> QED BY <1>1, <1>3, <1>4, <1>6 DEF AwayDays

LEMMA LeaveInitial == StaffInit => LeaveInv
<1> SUFFICES ASSUME StaffInit PROVE LeaveInv
  OBVIOUS
<1>1. BalanceInv /\ DOMAIN leave = Leaves
  BY DEF StaffInit, BalanceInv, NoBalance, Free
<1>2. AwayDays = 0
  BY SumEmpty DEF StaffInit, AwayDays, Approved
<1> QED BY <1>1, <1>2 DEF LeaveInv, Fits, StaffInit, NoBalance

LEMMA Taking ==
  ASSUME BalanceInv, UNCHANGED balance, NEW k \in Officers,
         \/ Drops(k)
         \/ \E op, on : Takes(k, op, on, 0)
  PROVE  BalanceInv'
BY DEF BalanceInv, Drops, Takes, Free

LEMMA LeavesRest ==
  ASSUME LeaveInv, BalanceInv', UNCHANGED leaves
  PROVE  LeaveInv'
BY DEF LeaveInv, Fits, AwayDays, Approved, leaves

LEMMA CarriedOverType == CarriedOver \in Nat
<1>1. Min({LastYear, MaxCarry}) \in Int
  BY MinOfTwo, StaffAssumption
<1> QED BY <1>1, MaxOfTwo DEF CarriedOver

LEMMA LeaveStep == LeaveInv /\ [StaffNext]_staffVars => LeaveInv'
<1> SUFFICES ASSUME LeaveInv, [StaffNext]_staffVars PROVE LeaveInv'
  OBVIOUS
<1>0. BalanceInv /\ DOMAIN leave = Leaves /\ Fits
  BY DEF LeaveInv
<1>1. ASSUME InitializeBalance PROVE LeaveInv'
  <2>1. BalanceInv'
    BY <1>0, <1>1, CarriedOverType, StaffAssumption DEF BalanceInv, InitializeBalance
  <2>2. balance.used = 0 /\ balance'.used = 0
    BY <1>0, <1>1 DEF BalanceInv, InitializeBalance
  <2>3. Fits'
    BY <1>0, <1>1, <2>2 DEF InitializeBalance, Fits, AwayDays, Approved
  <2> QED BY <1>0, <1>1, <2>1, <2>3 DEF LeaveInv, InitializeBalance
<1>2. ASSUME NEW l \in Leaves, ApproveLeave(l) PROVE LeaveInv'
  <2>1. BalanceInv'
    <3>1. CASE balance.exists
      <4> DEFINE used == balance.used + Days[l]
      <4>1. used \in Nat /\ used <= balance.quota
        <5>1. Days[l] \in Nat
          BY StaffAssumption
        <5>2. Days[l] <= balance.quota - balance.used
          BY <1>2, <3>1 DEF ApproveLeave, CoveredNow, Covered, Left
        <5>3. balance.used \in Nat /\ balance.quota \in Nat
          BY <1>0 DEF BalanceInv
        <5> QED BY <5>1, <5>2, <5>3
      <4>2. balance' = [balance EXCEPT !.used = used] /\ hand' = hand
        BY <1>2, <3>1 DEF ApproveLeave
      <4> HIDE DEF used
      <4> QED BY <1>0, <4>1, <4>2 DEF BalanceInv
    <3>2. CASE ~balance.exists
      BY <1>0, <1>2, <3>2 DEF BalanceInv, ApproveLeave
    <3> QED BY <3>1, <3>2
  <2>2. DOMAIN leave' = Leaves /\ AwayDays \in Nat /\ Days[l] \in Nat /\ AwayDays' = AwayDays + Days[l]
    BY <1>0, <1>2, OneMoreAway DEF ApproveLeave
  <2>3. Fits'
    <3> SUFFICES ASSUME Annual > 0, ~misgiven PROVE AwayDays' <= balance'.used
      BY <1>2 DEF ApproveLeave, Fits
    <3>1. balance.exists /\ balance'.used = balance.used + Days[l]
      BY <1>0, <1>2, StaffAssumption DEF BalanceInv, ApproveLeave, CoveredNow, Covered
    <3>2. AwayDays <= balance.used /\ balance.used \in Nat
      BY <1>0 DEF Fits, BalanceInv
    <3> QED BY <2>2, <3>1, <3>2
  <2> QED BY <2>1, <2>2, <2>3 DEF LeaveInv
<1>3. ASSUME NEW l \in Leaves, NEW k \in Officers,
             LookForLeave(k, l) \/ LookToReject(k, l) \/ LookToCancel(k, l)
      PROVE  LeaveInv'
  <2>1. BalanceInv' /\ UNCHANGED leaves
    BY <1>0, <1>3, Taking DEF LookForLeave, LookToReject, LookToCancel, leaves
  <2> QED BY <2>1, LeavesRest
<1>9. ASSUME NEW l \in Leaves, NEW k \in Officers,
             AskLeave(k, l) \/ RejectLeave(k, l) \/ WithdrawLeave(k, l)
      PROVE  LeaveInv'
  <2>1. BalanceInv' /\ UNCHANGED <<balance, misgiven>>
    BY <1>0, <1>9, Taking DEF AskLeave, RejectLeave, WithdrawLeave
  <2>2. PICK status \in {"PENDING", "REJECTED", "CANCELED"} : leave' = [leave EXCEPT ![l] = status]
    BY <1>9 DEF AskLeave, RejectLeave, WithdrawLeave
  <2>3. DOMAIN leave' = Leaves /\ AwayDays \in Nat /\ AwayDays' \in Nat /\ AwayDays' <= AwayDays
    BY <1>0, <2>2, OneLess
  <2>4. Fits'
    <3>1. balance.used \in Nat
      BY <1>0 DEF BalanceInv
    <3> QED BY <1>0, <2>1, <2>3, <3>1 DEF Fits
  <2> QED BY <2>1, <2>3, <2>4 DEF LeaveInv
<1>4. ASSUME NEW l \in Leaves, NEW k \in Officers, ReadBalance(k, l) PROVE LeaveInv'
  <2>1. BalanceInv' /\ UNCHANGED leaves
    BY <1>0, <1>4 DEF BalanceInv, ReadBalance, leaves
  <2> QED BY <2>1, LeavesRest
<1>5. ASSUME NEW l \in Leaves, NEW k \in Officers, GiveBack(k, l) PROVE LeaveInv'
  <2> DEFINE given == Max({0, hand[k].saw - Days[l]})
  <2>1. /\ hand[k].saw \in Nat /\ Days[l] \in Nat
        /\ hand[k].saw - Days[l] \in Int /\ hand[k].saw - Days[l] <= balance.quota
    BY <1>0, StaffAssumption DEF BalanceInv
  <2>2. given \in Nat /\ given <= balance.quota /\ given >= hand[k].saw - Days[l]
    BY <1>0, <2>1, MaxOfTwo DEF BalanceInv
  <2>3. /\ hand' = [hand EXCEPT ![k] = Free]
        /\ balance' = IF balance.exists THEN [balance EXCEPT !.used = given] ELSE balance
        /\ leave' = [leave EXCEPT ![l] = "CANCELED"]
        /\ misgiven' = (misgiven \/ leave[l] # "APPROVED" \/ hand[k].saw # balance.used)
    BY <1>5 DEF GiveBack, Drops
  <2> HIDE DEF given
  <2>4. /\ balance' \in [exists : BOOLEAN, quota : Nat, used : Nat]
        /\ balance'.used <= balance'.quota
        /\ balance'.quota = balance.quota /\ balance'.exists = balance.exists
    BY <1>0, <2>2, <2>3 DEF BalanceInv
  <2>5. DOMAIN hand' = Officers /\ \A o \in Officers : hand'[o] = IF o = k THEN Free ELSE hand[o]
    BY <1>0, <2>3 DEF BalanceInv
  <2>6. BalanceInv'
    BY <1>0, <2>4, <2>5 DEF BalanceInv, Free
  <2>7. /\ DOMAIN leave' = Leaves /\ AwayDays \in Nat /\ AwayDays' \in Nat /\ AwayDays' <= AwayDays
        /\ leave[l] = "APPROVED" => AwayDays = Days[l] + AwayDays'
    BY <1>0, <2>3, OneLess
  <2>8. Fits'
    <3> SUFFICES ASSUME Annual > 0, ~misgiven, leave[l] = "APPROVED", hand[k].saw = balance.used
                 PROVE  AwayDays' <= balance'.used
      BY <2>3 DEF Fits
    <3>1. balance.used \in Nat /\ balance'.used \in {given, balance.used} /\ AwayDays <= balance.used
      BY <1>0, <2>3 DEF BalanceInv, Fits
    <3> QED BY <2>1, <2>2, <2>7, <3>1
  <2> QED BY <2>6, <2>7, <2>8 DEF LeaveInv
<1>6. ASSUME AttendanceNext, UNCHANGED leaves PROVE LeaveInv'
  <2>1. CASE UNCHANGED hand
    BY <1>0, <1>6, <2>1, LeavesRest DEF BalanceInv, leaves
  <2>2. ASSUME NEW k \in Officers, LookToCheckOut(k) \/ CheckOut(k) PROVE LeaveInv'
    BY <1>0, <1>6, <2>2, Taking, LeavesRest DEF LookToCheckOut, CheckOut, leaves
  <2> QED
    BY <1>6, <2>1, <2>2 DEF AttendanceNext, PassHour, CheckIn, MarkAbsent, EnterByHand, CreateExcuse,
       RequestAdjustment, ReviewAdjustment, ReviewExcuse, CreateSchedule, PatchSchedule
<1>7. ASSUME UNCHANGED <<leaves, hand>> PROVE LeaveInv'
  BY <1>0, <1>7, LeavesRest DEF BalanceInv, leaves
<1>8. ASSUME AuditNext, UNCHANGED <<leaves, attendance>> PROVE LeaveInv'
  BY <1>7, <1>8 DEF AuditNext, ClosePeriod, MeasureOrder, ReviewAudit, ReopenAudit
<1> QED
  BY <1>1, <1>2, <1>3, <1>4, <1>5, <1>6, <1>7, <1>8, <1>9 DEF StaffNext, LeaveNext, staffVars

(* However requests are made, approved, rejected and cancelled, by any     *)
(* number of officers at the same time: the balance never counts more days *)
(* than it was given, and the leaves that are approved fit into the days   *)
(* it counts, as long as every cancellation gives days back once and to    *)
(* the balance as it is. (leave_service.py)                                *)
THEOREM LeaveCovered == StaffSpec => []UsedWithinQuota
<1>1. LeaveInv => UsedWithinQuota
  BY DEF LeaveInv, BalanceInv, Fits, AwayDays, UsedWithinQuota
<1> QED BY <1>1, LeaveInitial, LeaveStep, PTL DEF StaffSpec

-----------------------------------------------------------------------------
(* Attendance and audits.                                                  *)

(* A day that is measured by a schedule has a check-in; one without a      *)
(* check-in is measured by none, so that checking in finds no lateness.    *)
DayInv ==
  /\ day \in [exists : BOOLEAN, in : Nat, out : Nat, start : Nat, late : Nat, absent : BOOLEAN]
  /\ hour \in Nat /\ adjust.in \in Nat /\ adjust.out \in Nat
  /\ DOMAIN adjust = DOMAIN NoAsk
  /\ day.late = Lateness(day)
  /\ day.absent => day.in = 0
  /\ ~day.exists \/ day.in = 0 => day.start = 0
  /\ adjust.status = "PENDING" => day.exists

AuditInv ==
  /\ audit \in [Audits -> [needed : BOOLEAN, current : Nat,
                           status : {"NONE", "PENDING", "NOT_REQUIRED", "COMPLETED"}]]
  /\ \A a \in Audits :
       /\ audit[a].current = IF audit[a].status = "COMPLETED" THEN 1 ELSE 0
       /\ audit[a].status \in {"PENDING", "COMPLETED"} <=> audit[a].needed

ReportsInv == DayInv /\ AuditInv

LEMMA ReportsInitial == StaffInit => ReportsInv
  BY DEF StaffInit, ReportsInv, DayInv, AuditInv, NoDay, NoAsk, NoAudit, Lateness

(* A day recalculated from a check-in is measured by it.                   *)
LEMMA Recalculating ==
  ASSUME DayInv, UNCHANGED <<hour>>, adjust'.in \in Nat, adjust'.out \in Nat,
         DOMAIN adjust' = DOMAIN NoAsk,
         NEW d \in [exists : {TRUE}, in : Nat \ {0}, out : Nat, start : Nat, late : Nat, absent : BOOLEAN],
         day' = Recalculated(d)
  PROVE  DayInv'
<1>1. Lateness(d) \in Nat
  BY MaxOfTwo, StaffAssumption DEF Lateness
<1>2. Lateness(day') = Lateness(d)
  BY DEF Lateness, Recalculated
<1> QED BY <1>1, <1>2 DEF DayInv, Recalculated

LEMMA DayStep == DayInv /\ AttendanceNext => DayInv'
<1> SUFFICES ASSUME DayInv, AttendanceNext PROVE DayInv'
  OBVIOUS
<1>0. ASSUME UNCHANGED <<day, adjust>>, hour' \in Nat PROVE DayInv'
  BY <1>0 DEF DayInv, Lateness
<1>1. ASSUME PassHour PROVE DayInv'
  BY <1>0, <1>1 DEF PassHour, DayInv
<1>2. ASSUME CheckIn PROVE DayInv'
  BY <1>2 DEF CheckIn, Arrived, DayInv, Lateness, clockOnly
<1>3. ASSUME MarkAbsent PROVE DayInv'
  BY <1>3 DEF MarkAbsent, NoDay, DayInv, Lateness, clockOnly
<1>4. ASSUME NEW in \in Times, NEW out \in Times, EnterByHand(in, out) PROVE DayInv'
  <2> DEFINE d == [exists |-> TRUE, in |-> in, out |-> out, start |-> StartsAt, late |-> 0,
                   absent |-> FALSE]
  <2>2. in \in Nat \ {0} /\ out \in Nat /\ StartsAt \in Nat
    BY <1>4, StaffAssumption DEF EnterByHand, ValidTimes, Times, StartsAt
  <2>3. d \in [exists : {TRUE}, in : Nat \ {0}, out : Nat, start : Nat, late : Nat, absent : BOOLEAN]
    BY <2>2
  <2>4. day' = Recalculated(d) /\ UNCHANGED <<hour, adjust>>
    BY <1>4 DEF EnterByHand, clockOnly
  <2> HIDE DEF d
  <2> QED BY <2>3, <2>4, Recalculating DEF DayInv
<1>5. ASSUME NEW k \in Officers, CheckOut(k) PROVE DayInv'
  BY <1>5 DEF CheckOut, DayInv, Lateness, clockOnly
<1>6. ASSUME NEW k \in Officers, NEW in \in Times, NEW out \in Times, RequestAdjustment(k, in, out)
      PROVE  DayInv'
  BY <1>6, StaffAssumption DEF RequestAdjustment, DayInv, Lateness, Times, NoAsk
<1>7. ASSUME NEW k \in Officers, ReviewAdjustment(k, TRUE) PROVE DayInv'
  <2>1. Adjusted.in # 0 /\ day.exists /\ day' = Recalculated(Adjusted) /\ UNCHANGED hour
    BY <1>7 DEF ReviewAdjustment, ValidTimes, DayInv
  <2>2. adjust'.in = adjust.in /\ adjust'.out = adjust.out /\ DOMAIN adjust' = DOMAIN NoAsk
    BY <1>7 DEF ReviewAdjustment, DayInv, NoAsk
  <2>3. Adjusted \in [exists : {TRUE}, in : Nat \ {0}, out : Nat, start : Nat, late : Nat,
                     absent : BOOLEAN]
    BY <2>1 DEF Adjusted, DayInv
  <2> QED BY <2>1, <2>2, <2>3, Recalculating DEF DayInv
<1>8. ASSUME NEW k \in Officers, ReviewAdjustment(k, FALSE) PROVE DayInv'
  BY <1>8 DEF ReviewAdjustment, DayInv, Lateness
<1> QED BY <1>0, <1>1, <1>2, <1>3, <1>4, <1>5, <1>6, <1>7, <1>8
    DEF AttendanceNext, LookToCheckOut, CreateExcuse, ReviewExcuse, CreateSchedule, PatchSchedule,
        attendance, DayInv

LEMMA AuditStep == AuditInv /\ AuditNext => AuditInv'
<1> SUFFICES ASSUME AuditInv, AuditNext PROVE AuditInv'
  OBVIOUS
<1>1. ASSUME NEW a \in Audits, NEW late \in BOOLEAN, MeasureOrder(a, late) PROVE AuditInv'
  BY <1>1 DEF MeasureOrder, AuditInv
<1>2. ASSUME NEW a \in Audits, ReviewAudit(a) PROVE AuditInv'
  BY <1>2 DEF ReviewAudit, AuditInv
<1>3. ASSUME NEW a \in Audits, ReopenAudit(a) PROVE AuditInv'
  BY <1>3 DEF ReopenAudit, AuditInv
<1>4. ASSUME ClosePeriod PROVE AuditInv'
  BY <1>4 DEF ClosePeriod, AuditInv
<1> QED BY <1>1, <1>2, <1>3, <1>4 DEF AuditNext

LEMMA ReportsStep == ReportsInv /\ [StaffNext]_staffVars => ReportsInv'
<1> SUFFICES ASSUME ReportsInv, [StaffNext]_staffVars PROVE ReportsInv'
  OBVIOUS
<1>1. ASSUME UNCHANGED attendance PROVE DayInv'
  BY <1>1 DEF ReportsInv, DayInv, attendance, Lateness
<1>2. ASSUME UNCHANGED audits PROVE AuditInv'
  BY <1>2 DEF ReportsInv, AuditInv, audits
<1> QED BY <1>1, <1>2, DayStep, AuditStep DEF StaffNext, staffVars, ReportsInv

(* What is reported of a day agrees with what is recorded, and an audit    *)
(* counts as reviewed while it has one current review, in every order of   *)
(* check-ins, entries, adjustments, schedules, reviews and reopenings.     *)
THEOREM Reported == StaffSpec => []ReportsAgree
<1>1. ReportsInv => ReportsAgree
  BY DEF ReportsInv, DayInv, AuditInv, ReportsAgree
<1> QED BY <1>1, ReportsInitial, ReportsStep, PTL DEF StaffSpec

-----------------------------------------------------------------------------
(* The cash of a branch.                                                   *)

CashTyped ==
  /\ register \in [balance : Nat, applied : Int, version : Nat]
  /\ report \in [balance : Nat, applied : Int, version : Nat]
  /\ wire \subseteq [balance : Nat, applied : Int, version : Nat]
  /\ issued \in [Commands -> Rows]
  /\ known \in [Commands -> Rows]
  /\ paid \in [Local -> Rows]
  /\ voids \in [Commands -> {"none", "here", "told"}]
  /\ takings \in Nat

(* A report never stands for more cash than the branch has by now.         *)
ReportsCovered == \A r \in wire \cup {report} :
  r.balance + r.applied <= Opening + takings + VoidedHere

(* What was applied to the register is part of what is known.              *)
NothingAhead == register.applied <= Stands(known)

CashInv == CashTyped /\ NothingAhead /\ RegisterIsLedger /\ ReportsCovered /\ NoDoublePromise

-----------------------------------------------------------------------------
(* Totals.                                                                 *)

LEMMA TotalNat ==
  ASSUME NEW S \in SUBSET (Commands \cup Local)
  PROVE  IsFiniteSet(S) /\ Total(S) \in Nat
<1>1. IsFiniteSet(Commands \cup Local)
  BY BranchCashAssumption, FS_Union
<1>2. IsFiniteSet(S)
  BY <1>1, FS_Subset
<1>3. \A p \in S : Amount[p] \in Nat
  BY BranchCashAssumption
<1> QED BY <1>2, <1>3, SumNat DEF Total

LEMMA TotalAdds ==
  ASSUME NEW S \in SUBSET (Commands \cup Local), NEW p \in Commands \cup Local, p \notin S
  PROVE  Total(S \cup {p}) = Total(S) + Amount[p]
<1>1. IsFiniteSet(S) /\ Total(S) \in Nat
  BY TotalNat
<1>2. \A q \in S \cup {p} : Amount[q] \in Int
  BY BranchCashAssumption
<1>3. Total(S \cup {p}) = Amount[p] + Total(S)
  BY <1>1, <1>2, SumAdds DEF Total
<1> QED BY <1>1, <1>2, <1>3

(* A cash-out counts from its row to its reversal.                         *)
LEMMA StandsChanges ==
  ASSUME NEW D \in SUBSET (Commands \cup Local), NEW rows \in [D -> Rows], NEW p \in D,
         NEW n \in Rows
  PROVE  /\ Stands(rows) \in Nat
         /\ Stands([rows EXCEPT ![p] = n]) = Stands(rows) + (IF n = 1 THEN Amount[p] ELSE 0)
                                                          - (IF rows[p] = 1 THEN Amount[p] ELSE 0)
<1> DEFINE S == {q \in D : rows[q] = 1}
           next == [rows EXCEPT ![p] = n]
           R == {q \in D : next[q] = 1}
<1>1. Stands(rows) = Total(S) /\ Stands(next) = Total(R)
  BY DEF Stands
<1>2. Total(S) \in Nat /\ Total(S \ {p}) \in Nat /\ Amount[p] \in Nat
  <2>1. S \in SUBSET (Commands \cup Local) /\ S \ {p} \in SUBSET (Commands \cup Local)
    OBVIOUS
  <2> HIDE DEF S
  <2> QED BY <2>1, TotalNat, BranchCashAssumption
<1>3. Total(S) = Total(S \ {p}) + (IF rows[p] = 1 THEN Amount[p] ELSE 0)
  <2>1. CASE rows[p] = 1
    <3>1. S = (S \ {p}) \cup {p}
      BY <2>1
    <3>2. Total((S \ {p}) \cup {p}) = Total(S \ {p}) + Amount[p]
      BY TotalAdds
    <3> QED BY <2>1, <3>1, <3>2
  <2>2. CASE rows[p] # 1
    <3>1. S = S \ {p}
      BY <2>2
    <3> HIDE DEF S
    <3> QED BY <1>2, <2>2, <3>1
  <2> QED BY <2>1, <2>2
<1>4. Total(R) = Total(S \ {p}) + (IF n = 1 THEN Amount[p] ELSE 0)
  <2>1. CASE n = 1
    <3>1. R = (S \ {p}) \cup {p}
      BY <2>1
    <3>2. Total((S \ {p}) \cup {p}) = Total(S \ {p}) + Amount[p]
      BY TotalAdds
    <3> QED BY <2>1, <3>1, <3>2
  <2>2. CASE n # 1
    <3>1. R = S \ {p}
      BY <2>2
    <3> HIDE DEF S, R
    <3> QED BY <1>2, <2>2, <3>1
  <2> QED BY <2>1, <2>2
<1> HIDE DEF S, R, next
<1>5. Stands(next) = Stands(rows) + (IF n = 1 THEN Amount[p] ELSE 0) - (IF rows[p] = 1 THEN Amount[p] ELSE 0)
  BY <1>1, <1>2, <1>3, <1>4
<1> QED BY <1>1, <1>2, <1>5 DEF next

LEMMA StandsUp ==
  ASSUME NEW D \in SUBSET (Commands \cup Local), NEW rows \in [D -> Rows], NEW p \in D,
         rows[p] = 0, NEW next, next = [rows EXCEPT ![p] = 1]
  PROVE  Stands(next) = Stands(rows) + Amount[p]
<1>1. 1 \in Rows /\ Amount[p] \in Nat
  BY BranchCashAssumption DEF Rows
<1>2. /\ Stands(rows) \in Nat
      /\ Stands([rows EXCEPT ![p] = 1]) = Stands(rows) + (IF 1 = 1 THEN Amount[p] ELSE 0)
                                                       - (IF rows[p] = 1 THEN Amount[p] ELSE 0)
  BY <1>1, StandsChanges, Zenon
<1> QED BY <1>1, <1>2

LEMMA StandsDown ==
  ASSUME NEW D \in SUBSET (Commands \cup Local), NEW rows \in [D -> Rows], NEW p \in D,
         rows[p] = 1, NEW next, next = [rows EXCEPT ![p] = 2]
  PROVE  Stands(next) = Stands(rows) - Amount[p]
<1>1. 2 \in Rows /\ Amount[p] \in Nat
  BY BranchCashAssumption DEF Rows
<1>2. /\ Stands(rows) \in Nat
      /\ Stands([rows EXCEPT ![p] = 2]) = Stands(rows) + (IF 2 = 1 THEN Amount[p] ELSE 0)
                                                       - (IF rows[p] = 1 THEN Amount[p] ELSE 0)
  BY <1>1, StandsChanges, Zenon
<1> QED BY <1>1, <1>2

(* What was voided here is only added to.                                  *)
LEMMA VoidedGrows ==
  ASSUME voids \in [Commands -> {"none", "here", "told"}], NEW c \in Commands,
         NEW n \in {"here", "told"}, voids' = [voids EXCEPT ![c] = n]
  PROVE  VoidedHere' = VoidedHere + (IF voids[c] = "none" THEN Amount[c] ELSE 0)
<1> DEFINE S == {q \in Commands : voids[q] # "none"}
<1>1. VoidedHere' = Total(S \cup {c})
  <2>1. {q \in Commands : voids'[q] # "none"} = S \cup {c}
    OBVIOUS
  <2> QED BY <2>1 DEF VoidedHere, Total
<1>2. S \in SUBSET (Commands \cup Local) /\ Total(S) \in Nat /\ VoidedHere = Total(S)
  BY TotalNat DEF VoidedHere
<1>3. CASE voids[c] = "none"
  <2>1. c \notin S
    BY <1>3
  <2> HIDE DEF S
  <2>2. Total(S \cup {c}) = Total(S) + Amount[c]
    BY <1>2, <2>1, TotalAdds
  <2> QED BY <1>1, <1>2, <1>3, <2>2
<1>4. CASE voids[c] # "none"
  <2>1. S \cup {c} = S
    BY <1>4
  <2> HIDE DEF S
  <2> QED BY <1>1, <1>2, <1>4, <2>1
<1> QED BY <1>3, <1>4

LEMMA Numbers ==
  ASSUME CashTyped
  PROVE  /\ Stands(known) \in Nat /\ Stands(issued) \in Nat /\ Stands(paid) \in Nat
         /\ VoidedHere \in Nat /\ Opening \in Nat /\ takings \in Nat
         /\ \A p \in Commands \cup Local : Amount[p] \in Nat \ {0}
<1>1. /\ {p \in DOMAIN known : known[p] = 1} \in SUBSET (Commands \cup Local)
      /\ {p \in DOMAIN issued : issued[p] = 1} \in SUBSET (Commands \cup Local)
      /\ {p \in DOMAIN paid : paid[p] = 1} \in SUBSET (Commands \cup Local)
      /\ {c \in Commands : voids[c] # "none"} \in SUBSET (Commands \cup Local)
  BY DEF CashTyped
<1>2. /\ Stands(known) \in Nat /\ Stands(issued) \in Nat /\ Stands(paid) \in Nat /\ VoidedHere \in Nat
  BY <1>1, TotalNat DEF Stands, VoidedHere
<1> QED BY <1>2, BranchCashAssumption DEF CashTyped

-----------------------------------------------------------------------------
(* The register.                                                           *)

(* Applying what is pending moves it from the balance to the total.        *)
LEMMA Applied ==
  ASSUME CashTyped, NEW rows, Stands(rows) \in Nat, AppliesPending(rows)
  PROVE  /\ register' \in [balance : Nat, applied : Int, version : Nat]
         /\ register'.balance + register'.applied = register.balance + register.applied
         /\ register'.applied <= Stands(rows)
<1> DEFINE delta == Stands(rows) - register.applied
<1>1. register.balance \in Nat /\ register.applied \in Int /\ register.version \in Nat /\ delta \in Int
  BY DEF CashTyped
<1>2. register' = IF delta = 0 \/ delta > register.balance THEN register
                  ELSE [balance |-> register.balance - delta,
                        applied |-> register.applied + delta,
                        version |-> register.version + 1]
  BY DEF AppliesPending, Pending
<1>3. CASE delta = 0 \/ delta > register.balance
  BY <1>1, <1>2, <1>3 DEF CashTyped
<1>4. CASE ~(delta = 0 \/ delta > register.balance)
  <2>1. register' = [balance |-> register.balance - delta,
                     applied |-> register.applied + delta,
                     version |-> register.version + 1]
    BY <1>2, <1>4
  <2>2. register.balance - delta \in Nat
    BY <1>1, <1>4
  <2> HIDE DEF delta
  <2>3. /\ register'.balance = register.balance - delta /\ register'.applied = register.applied + delta
        /\ register' \in [balance : Nat, applied : Int, version : Nat]
    BY <1>1, <2>1, <2>2
  <2> QED BY <1>1, <2>3 DEF delta
<1> QED BY <1>3, <1>4

LEMMA Moved ==
  ASSUME CashTyped, NEW delta \in Int, register.balance + delta \in Nat, Moves(delta)
  PROVE  /\ register' \in [balance : Nat, applied : Int, version : Nat]
         /\ register'.balance = register.balance + delta
         /\ register'.applied = register.applied
BY DEF CashTyped, Moves

LEMMA CashInitial == Init => CashInv
<1> SUFFICES ASSUME Init PROVE CashInv
  OBVIOUS
<1>1. Total({}) = 0
  BY SumEmpty DEF Total
<1>2. /\ Stands(known) = 0 /\ Stands(issued) = 0 /\ Stands(paid) = 0 /\ VoidedHere = 0
  <2>1. /\ {p \in DOMAIN known : known[p] = 1} = {} /\ {p \in DOMAIN issued : issued[p] = 1} = {}
        /\ {p \in DOMAIN paid : paid[p] = 1} = {} /\ {c \in Commands : voids[c] # "none"} = {}
    BY DEF Init
  <2> QED BY <1>1, <2>1 DEF Stands, VoidedHere
<1>3. CashTyped
  BY BranchCashAssumption DEF Init, CashTyped, Rows
<1>4. /\ wire = {} /\ report = register /\ register.balance = Opening /\ register.applied = 0
      /\ takings = 0 /\ Opening \in Nat
  BY BranchCashAssumption DEF Init
<1> QED BY <1>2, <1>3, <1>4
    DEF CashInv, NothingAhead, RegisterIsLedger, Ledger, ReportsCovered, NoDoublePromise

LEMMA CashStep == CashInv /\ [Next]_vars => CashInv'
<1> SUFFICES ASSUME CashInv, [Next]_vars PROVE CashInv'
  OBVIOUS
<1>0. /\ CashTyped /\ NothingAhead /\ RegisterIsLedger /\ ReportsCovered /\ NoDoublePromise
      /\ Stands(known) \in Nat /\ Stands(issued) \in Nat /\ Stands(paid) \in Nat
      /\ VoidedHere \in Nat /\ Opening \in Nat /\ takings \in Nat
      /\ register.balance \in Nat /\ register.applied \in Int
      /\ \A r \in wire \cup {report, register} :
           r \in [balance : Nat, applied : Int, version : Nat] /\ r.balance \in Nat /\ r.applied \in Int
  BY Numbers DEF CashInv, CashTyped
<1>n. \A p \in Commands \cup Local : Amount[p] \in Nat /\ Amount[p] > 0
  BY BranchCashAssumption
(* What the parts of the invariant need of a step.                         *)
<1>a. ASSUME CashTyped', UNCHANGED <<wire, report, issued>>,
             takings' \in Nat, takings' >= takings, VoidedHere' \in Nat, VoidedHere' >= VoidedHere
      PROVE  ReportsCovered' /\ NoDoublePromise'
  <2>1. Stands(issued)' = Stands(issued)
    BY <1>a DEF Stands, Total
  <2>2. NoDoublePromise'
    BY <1>0, <1>a, <2>1 DEF NoDoublePromise
  <2>3. ASSUME NEW r \in wire \cup {report}
        PROVE  r.balance + r.applied <= Opening + takings' + VoidedHere'
    BY <1>0, <1>a, <2>3 DEF ReportsCovered
  <2> QED BY <1>a, <2>2, <2>3 DEF ReportsCovered
<1>b. VoidedHere' = VoidedHere \/ voids' # voids
  BY DEF VoidedHere, Total
<1>c. /\ known' = known => Stands(known)' = Stands(known)
      /\ paid' = paid => Stands(paid)' = Stands(paid)
      /\ issued' = issued => Stands(issued)' = Stands(issued)
  BY DEF Stands, Total
<1>1. ASSUME NEW a \in 1..MaxTakings, TakeCash(a) PROVE CashInv'
  <2>1. /\ takings' = takings + a /\ Moves(a) /\ a \in Nat
        /\ UNCHANGED <<report, wire, issued, known, paid, voids, losses>>
    BY <1>1 DEF TakeCash
  <2>2. /\ register' \in [balance : Nat, applied : Int, version : Nat]
        /\ register'.balance = register.balance + a /\ register'.applied = register.applied
    BY <1>0, <2>1, Moved
  <2>3. CashTyped'
    BY <1>0, <2>1, <2>2 DEF CashTyped
  <2>4. NothingAhead' /\ RegisterIsLedger'
    BY <1>0, <1>b, <1>c, <2>1, <2>2 DEF NothingAhead, RegisterIsLedger, Ledger, NoTillExpense
  <2> QED BY <1>0, <1>a, <1>b, <2>1, <2>3, <2>4 DEF CashInv
<1>2. ASSUME NEW p \in Local, PayExpense(p) PROVE CashInv'
  <2> DEFINE d == - Pending(known, register) - Amount[p]
  <2>1. /\ paid[p] = 0 /\ p \in Expenses /\ paid' = [paid EXCEPT ![p] = 1] /\ Moves(d)
        /\ Amount[p] <= register.balance - Pending(known, register)
        /\ UNCHANGED <<report, wire, issued, known, voids, takings, losses>>
    BY <1>2 DEF PayExpense, Available
  <2>2. Pending(known, register) \in Nat /\ Amount[p] \in Nat
    BY <1>0, <1>n DEF Pending, NothingAhead
  <2>3. d \in Int /\ register.balance + d \in Nat /\ d <= - Amount[p]
    BY <1>0, <2>1, <2>2
  <2>4. /\ register' \in [balance : Nat, applied : Int, version : Nat]
        /\ register'.balance = register.balance + d /\ register'.applied = register.applied
    <3> HIDE DEF d
    <3> QED BY <1>0, <2>1, <2>3, Moved
  <2>5. paid \in [Local -> Rows] /\ 1 \in Rows /\ Local \in SUBSET (Commands \cup Local)
    BY <1>0 DEF CashTyped, Rows
  <2>6. Stands(paid)' = Stands(paid) + Amount[p]
    <3>1. Stands(paid') = Stands(paid) + Amount[p]
      BY <2>1, <2>5, StandsUp
    <3> QED BY <3>1 DEF Stands, Total
  <2>7. CashTyped'
    BY <1>0, <2>1, <2>4, <2>5 DEF CashTyped
  <2>8. ~ NoTillExpense'
    <3>1. paid'[p] = 1
      BY <2>1, <2>5
    <3> QED BY <2>1, <3>1 DEF NoTillExpense
  <2>9. NothingAhead' /\ RegisterIsLedger'
    <3> HIDE DEF d
    <3> QED BY <1>0, <1>b, <1>c, <2>1, <2>2, <2>3, <2>4, <2>6, <2>8 DEF NothingAhead, RegisterIsLedger, Ledger
  <2> QED BY <1>0, <1>a, <1>b, <2>1, <2>7, <2>9 DEF CashInv
<1>3. ASSUME NEW p \in Local, VoidExpense(p) PROVE CashInv'
  <2>1. /\ paid[p] = 1 /\ p \in Expenses /\ paid' = [paid EXCEPT ![p] = 2] /\ Moves(Amount[p])
        /\ UNCHANGED <<report, wire, issued, known, voids, takings, losses>>
    BY <1>3 DEF VoidExpense
  <2>2. Amount[p] \in Nat
    BY <1>n
  <2>3. /\ register' \in [balance : Nat, applied : Int, version : Nat]
        /\ register'.balance = register.balance + Amount[p] /\ register'.applied = register.applied
    BY <1>0, <2>1, <2>2, Moved
  <2>4. paid \in [Local -> Rows] /\ 2 \in Rows /\ Local \in SUBSET (Commands \cup Local)
    BY <1>0 DEF CashTyped, Rows
  <2>5. Stands(paid)' = Stands(paid) - Amount[p]
    <3>1. Stands(paid') = Stands(paid) - Amount[p]
      BY <2>1, <2>4, StandsDown
    <3> QED BY <3>1 DEF Stands, Total
  <2>6. CashTyped'
    BY <1>0, <2>1, <2>3, <2>4 DEF CashTyped
  <2>7. ~ NoTillExpense'
    <3>1. paid'[p] = 2
      BY <2>1, <2>4
    <3> QED BY <2>1, <3>1 DEF NoTillExpense
  <2>8. NothingAhead' /\ RegisterIsLedger'
    BY <1>0, <1>b, <1>c, <2>1, <2>2, <2>3, <2>5, <2>7 DEF NothingAhead, RegisterIsLedger, Ledger
  <2> QED BY <1>0, <1>a, <1>b, <2>1, <2>6, <2>8 DEF CashInv
<1>4. ASSUME NEW p \in Local, RefundHere(p) PROVE CashInv'
  <2>1. /\ paid[p] = 0 /\ p \notin Expenses /\ paid' = [paid EXCEPT ![p] = 1] /\ Moves(- Amount[p])
        /\ Amount[p] <= register.balance - Pending(known, register)
        /\ UNCHANGED <<report, wire, issued, known, voids, takings, losses>>
    BY <1>4 DEF RefundHere, Available
  <2>2. Pending(known, register) \in Nat /\ Amount[p] \in Nat
    BY <1>0, <1>n DEF Pending, NothingAhead
  <2>3. /\ register' \in [balance : Nat, applied : Int, version : Nat]
        /\ register'.balance = register.balance + (- Amount[p]) /\ register'.applied = register.applied
    <3>1. - Amount[p] \in Int /\ register.balance + (- Amount[p]) \in Nat
      BY <1>0, <2>1, <2>2
    <3> QED BY <1>0, <2>1, <3>1, Moved
  <2>4. paid \in [Local -> Rows] /\ 1 \in Rows /\ Local \in SUBSET (Commands \cup Local)
    BY <1>0 DEF CashTyped, Rows
  <2>5. Stands(paid)' = Stands(paid) + Amount[p]
    <3>1. Stands(paid') = Stands(paid) + Amount[p]
      BY <2>1, <2>4, StandsUp
    <3> QED BY <3>1 DEF Stands, Total
  <2>6. CashTyped'
    BY <1>0, <2>1, <2>3, <2>4 DEF CashTyped
  <2>7. NoTillExpense' => NoTillExpense
    BY <2>1, <2>4 DEF NoTillExpense
  <2>8. NothingAhead' /\ RegisterIsLedger'
    BY <1>0, <1>b, <1>c, <2>1, <2>2, <2>3, <2>5, <2>7 DEF NothingAhead, RegisterIsLedger, Ledger
  <2> QED BY <1>0, <1>a, <1>b, <2>1, <2>6, <2>8 DEF CashInv
<1>5. ASSUME NEW c \in Commands, VoidHere(c) PROVE CashInv'
  <2>1. /\ voids[c] = "none" /\ voids' = [voids EXCEPT ![c] = "here"] /\ Moves(Amount[c])
        /\ UNCHANGED <<report, wire, issued, known, paid, takings, losses>>
    BY <1>5 DEF VoidHere
  <2>2. Amount[c] \in Nat
    BY <1>n
  <2>3. /\ register' \in [balance : Nat, applied : Int, version : Nat]
        /\ register'.balance = register.balance + Amount[c] /\ register'.applied = register.applied
    BY <1>0, <2>1, <2>2, Moved
  <2>4. VoidedHere' = VoidedHere + Amount[c]
    BY <1>0, <2>1, VoidedGrows DEF CashTyped
  <2>5. CashTyped'
    BY <1>0, <2>1, <2>3 DEF CashTyped
  <2>6. NothingAhead' /\ RegisterIsLedger'
    BY <1>0, <1>c, <2>1, <2>2, <2>3, <2>4 DEF NothingAhead, RegisterIsLedger, Ledger, NoTillExpense
  <2> QED BY <1>0, <1>a, <2>1, <2>2, <2>4, <2>5, <2>6 DEF CashInv
<1>6. ASSUME NEW c \in Commands, PullRow(c) \/ Redeliver(c) PROVE CashInv'
  <2>1. AppliesPending(known') /\ UNCHANGED <<report, wire, issued, paid, voids, takings, losses>>
    BY <1>6 DEF PullRow, Redeliver
  <2>2. known' \in [Commands -> Rows]
    <3>1. CASE Redeliver(c)
      BY <1>0, <3>1 DEF Redeliver, CashTyped
    <3>2. CASE PullRow(c)
      <4>1. known[c] + 1 \in Rows
        BY <1>0, <3>2 DEF PullRow, CashTyped, Rows
      <4> QED BY <1>0, <3>2, <4>1 DEF PullRow, CashTyped
    <3> QED BY <1>6, <3>1, <3>2
  <2>3. Stands(known') \in Nat
    <3>1. {p \in DOMAIN known' : known'[p] = 1} \in SUBSET (Commands \cup Local)
      BY <2>2
    <3> QED BY <3>1, TotalNat DEF Stands
  <2>4. /\ register' \in [balance : Nat, applied : Int, version : Nat]
        /\ register'.balance + register'.applied = register.balance + register.applied
        /\ register'.applied <= Stands(known')
    BY <1>0, <2>1, <2>3, Applied
  <2>5. CashTyped'
    BY <1>0, <2>1, <2>2, <2>4 DEF CashTyped
  <2>6. Stands(known)' = Stands(known')
    BY DEF Stands, Total
  <2>7. NothingAhead' /\ RegisterIsLedger'
    <3>1. register'.balance \in Nat /\ register'.applied \in Int
      BY <2>4
    <3> QED BY <1>0, <1>b, <1>c, <2>1, <2>4, <2>6, <3>1
            DEF NothingAhead, RegisterIsLedger, Ledger, NoTillExpense
  <2> QED BY <1>0, <1>a, <1>b, <2>1, <2>5, <2>7 DEF CashInv
<1>d. ASSUME UNCHANGED <<register, known, paid, voids, takings>> PROVE NothingAhead' /\ RegisterIsLedger'
  BY <1>0, <1>b, <1>c, <1>d DEF NothingAhead, RegisterIsLedger, Ledger, NoTillExpense
<1>7. ASSUME NEW c \in Commands, Issue(c) PROVE CashInv'
  <2>1. /\ issued[c] = 0 /\ issued' = [issued EXCEPT ![c] = 1]
        /\ Amount[c] <= report.balance - (Stands(issued) - report.applied)
        /\ UNCHANGED <<register, report, wire, known, paid, voids, takings, losses>>
    BY <1>7 DEF Issue, MayIssue, Available, Pending
  <2>2. Amount[c] \in Nat
    BY <1>n
  <2>3. issued \in [Commands -> Rows] /\ 1 \in Rows /\ Commands \in SUBSET (Commands \cup Local)
    BY <1>0 DEF CashTyped, Rows
  <2>4. Stands(issued)' = Stands(issued) + Amount[c]
    <3>1. Stands(issued') = Stands(issued) + Amount[c]
      BY <2>1, <2>3, StandsUp
    <3> QED BY <3>1 DEF Stands, Total
  <2>5. report.balance + report.applied <= Opening + takings + VoidedHere
    BY <1>0 DEF ReportsCovered
  <2>6. VoidedHere' = VoidedHere
    BY <1>b, <2>1
  <2>7. NoDoublePromise'
    BY <1>0, <2>1, <2>2, <2>4, <2>5, <2>6 DEF NoDoublePromise
  <2>8. ReportsCovered' /\ CashTyped'
    BY <1>0, <2>1, <2>3, <2>6 DEF ReportsCovered, CashTyped
  <2> QED BY <1>d, <2>1, <2>7, <2>8 DEF CashInv
<1>8. ASSUME NEW c \in Commands, Void(c) PROVE CashInv'
  <2>1. /\ issued[c] = 1 /\ issued' = [issued EXCEPT ![c] = 2]
        /\ UNCHANGED <<register, report, wire, known, paid, voids, takings, losses>>
    BY <1>8 DEF Void
  <2>2. Amount[c] \in Nat
    BY <1>n
  <2>3. issued \in [Commands -> Rows] /\ 2 \in Rows /\ Commands \in SUBSET (Commands \cup Local)
    BY <1>0 DEF CashTyped, Rows
  <2>4. Stands(issued)' = Stands(issued) - Amount[c]
    <3>1. Stands(issued') = Stands(issued) - Amount[c]
      BY <2>1, <2>3, StandsDown
    <3> QED BY <3>1 DEF Stands, Total
  <2>5. VoidedHere' = VoidedHere
    BY <1>b, <2>1
  <2>6. NoDoublePromise'
    BY <1>0, <2>1, <2>2, <2>4, <2>5 DEF NoDoublePromise
  <2>7. ReportsCovered' /\ CashTyped'
    BY <1>0, <2>1, <2>3, <2>5 DEF ReportsCovered, CashTyped
  <2> QED BY <1>d, <2>1, <2>6, <2>7 DEF CashInv
<1>9. ASSUME NEW c \in Commands, TellVoid(c) PROVE CashInv'
  <2>1. /\ voids[c] = "here" /\ voids' = [voids EXCEPT ![c] = "told"]
        /\ UNCHANGED <<register, report, wire, issued, known, paid, takings, losses>>
    BY <1>9 DEF TellVoid
  <2>2. VoidedHere' = VoidedHere + 0
    BY <1>0, <2>1, VoidedGrows DEF CashTyped
  <2>3. CashTyped'
    BY <1>0, <2>1 DEF CashTyped
  <2>4. NothingAhead' /\ RegisterIsLedger'
    BY <1>0, <1>c, <2>1, <2>2 DEF NothingAhead, RegisterIsLedger, Ledger, NoTillExpense
  <2> QED BY <1>0, <1>a, <2>1, <2>2, <2>3, <2>4 DEF CashInv
(* Reports say what the register holds, and what it held.                  *)
<1>10. ASSUME UNCHANGED <<register, issued, known, paid, voids, takings>>,
              wire' \subseteq wire \cup {register}, report' \in wire \cup {report}
       PROVE  CashInv'
  <2>1. register.balance + register.applied <= Opening + takings + VoidedHere
    BY <1>0 DEF RegisterIsLedger, Ledger
  <2>2. \A r \in wire' \cup {report'} : r.balance + r.applied <= Opening + takings + VoidedHere
    BY <1>0, <1>10, <2>1 DEF ReportsCovered
  <2>3. ReportsCovered' /\ NoDoublePromise'
    BY <1>0, <1>b, <1>c, <1>10, <2>2 DEF ReportsCovered, NoDoublePromise
  <2>4. CashTyped'
    BY <1>0, <1>10 DEF CashTyped
  <2> QED BY <1>d, <1>10, <2>3, <2>4 DEF CashInv
<1>11. ASSUME Push \/ \E s \in wire : Deliver(s) \/ Lose(s) PROVE CashInv'
  BY <1>10, <1>11 DEF Push, Deliver, Lose, TakesReport
<1>12. ASSUME UNCHANGED vars PROVE CashInv'
  BY <1>10, <1>12 DEF vars
<1> QED BY <1>1, <1>2, <1>3, <1>4, <1>5, <1>6, <1>7, <1>8, <1>9, <1>11, <1>12 DEF Next

LEMMA CashInductive == Spec => []CashInv
BY CashInitial, CashStep, PTL DEF Spec

(* The register never holds more than the ledger of the branch, and is the *)
(* ledger until the till pays a drawer expense of its own                  *)
(* (_apply_pending_register_commands): every command is counted once, for  *)
(* any commands, amounts, reversals, deferrals and repeated deliveries.    *)
THEOREM RegisterRight == Spec => []RegisterIsLedger
<1>1. CashInv => RegisterIsLedger
  BY DEF CashInv
<1> QED BY <1>1, CashInductive, PTL

(* The cloud never promises more cash than the branch has taken in and     *)
(* taken back (pending_register_amount), however old the report it decides *)
(* on is and whatever the till pays out meanwhile.                         *)
THEOREM PromisedOnce == Spec => []NoDoublePromise
<1>1. CashInv => NoDoublePromise
  BY DEF CashInv
<1> QED BY <1>1, CashInductive, PTL

-----------------------------------------------------------------------------
(* The stamps of a customer.                                               *)

StampTyped ==
  /\ scheme \in [stored : Schemes, cached : Schemes]
  /\ meal \in [Meals -> [done : BOOLEAN, refunded : BOOLEAN]]
  /\ account \in [Guests -> [balance : Int, earned : Int, redeemed : Int]]
  /\ credits \in SUBSET [meal : Meals, stamps : Nat] /\ IsFiniteSet(credits)
  /\ rewards \in Seq([guest : Guests, spent : Nat])
  /\ till \in [Tills -> {Resting} \cup [step : {"accrue"}, meal : Meals, stamps : Nat]
                        \cup [step : {"redeem"}, guest : Guests, cost : Nat]]

StampInv == StampTyped /\ StampsAgree

LEMMA CreditsGrow ==
  ASSUME StampTyped, NEW c \in [meal : Meals, stamps : Nat], c \notin credits,
         credits' = credits \cup {c}, NEW g \in Guests
  PROVE  /\ Stamps(g) \in Int
         /\ Stamps(g)' = IF GuestOf[c.meal] = g THEN Stamps(g) + c.stamps ELSE Stamps(g)
<1> DEFINE mine == {d \in credits : GuestOf[d.meal] = g}
           more == {d \in credits' : GuestOf[d.meal] = g}
           old == [d \in credits |-> d.stamps]
           new == [d \in credits' |-> d.stamps]
<1>1. Stamps(g) = SumFunctionOnSet(old, mine) /\ Stamps(g)' = SumFunctionOnSet(new, more)
  BY DEF Stamps
<1>2. IsFiniteSet(mine)
  <2>1. mine \subseteq credits /\ IsFiniteSet(credits)
    BY DEF StampTyped
  <2> QED BY <2>1, FS_Subset
<1>3. ASSUME NEW d \in mine PROVE old[d] \in Int /\ new[d] = old[d]
  <2>1. d \in credits /\ d \in credits' /\ d \in [meal : Meals, stamps : Nat]
    BY DEF StampTyped
  <2>2. d.stamps \in Nat
    BY <2>1
  <2> QED BY <2>1, <2>2
<1>4. new[c] = c.stamps /\ c.stamps \in Int /\ c \notin mine
  OBVIOUS
<1>5. more = IF GuestOf[c.meal] = g THEN mine \cup {c} ELSE mine
  OBVIOUS
<1> HIDE DEF mine, more, old, new
<1>6. CASE GuestOf[c.meal] = g
  <2>1. /\ SumFunctionOnSet(new, mine \cup {c}) = SumFunctionOnSet(old, mine) + new[c]
        /\ SumFunctionOnSet(old, mine) \in Int
    BY <1>2, <1>3, <1>4, SumJoined
  <2> QED BY <1>1, <1>4, <1>5, <1>6, <2>1
<1>7. CASE GuestOf[c.meal] # g
  <2>1. SumFunctionOnSet(new, mine) = SumFunctionOnSet(old, mine)
    BY <1>2, <1>3, SumSame
  <2>2. SumFunctionOnSet(old, mine) \in Int
    BY <1>2, <1>3, SumInt
  <2> QED BY <1>1, <1>5, <1>7, <2>1, <2>2
<1> QED BY <1>6, <1>7

LEMMA RewardsGrow ==
  ASSUME StampTyped, NEW r \in [guest : Guests, spent : Nat], rewards' = Append(rewards, r),
         NEW g \in Guests
  PROVE  /\ Spent(g) \in Int
         /\ Spent(g)' = IF r.guest = g THEN Spent(g) + r.spent ELSE Spent(g)
<1> DEFINE n == Len(rewards) + 1
           mine == {i \in DOMAIN rewards : rewards[i].guest = g}
           more == {i \in DOMAIN rewards' : rewards'[i].guest = g}
           old == [i \in DOMAIN rewards |-> rewards[i].spent]
           new == [i \in DOMAIN rewards' |-> rewards'[i].spent]
<1>1. Spent(g) = SumFunctionOnSet(old, mine) /\ Spent(g)' = SumFunctionOnSet(new, more)
  BY DEF Spent
<1>2. /\ rewards \in Seq([guest : Guests, spent : Nat]) /\ Len(rewards) \in Nat
      /\ DOMAIN rewards = 1..Len(rewards) /\ DOMAIN rewards' = 1..n
      /\ rewards'[n] = r /\ \A i \in DOMAIN rewards : rewards'[i] = rewards[i]
  <2>1. rewards \in Seq([guest : Guests, spent : Nat])
    BY DEF StampTyped
  <2>2. Len(rewards) \in Nat /\ DOMAIN rewards = 1..Len(rewards)
    BY <2>1
  <2>3. DOMAIN rewards' = 1..n
    BY <2>1
  <2>4. rewards'[n] = r
    BY <2>1
  <2>5. \A i \in 1..Len(rewards) : rewards'[i] = rewards[i]
    BY <2>1
  <2> QED BY <2>1, <2>2, <2>3, <2>4, <2>5
<1>3. IsFiniteSet(mine)
  <2>1. mine \subseteq 1..Len(rewards) /\ IsFiniteSet(1..Len(rewards))
    <3>1. 1 \in Int /\ Len(rewards) \in Int
      BY <1>2
    <3> QED BY <1>2, <3>1, FS_Interval
  <2> QED BY <2>1, FS_Subset
<1>4. DOMAIN rewards' = DOMAIN rewards \cup {n} /\ n \notin DOMAIN rewards
  BY <1>2
<1>5. ASSUME NEW i \in mine PROVE old[i] \in Int /\ new[i] = old[i]
  <2>1. i \in DOMAIN rewards /\ i \in DOMAIN rewards' /\ rewards'[i] = rewards[i]
    BY <1>2, <1>4
  <2>2. i \in 1..Len(rewards)
    BY <1>2, <2>1
  <2>3. rewards[i] \in [guest : Guests, spent : Nat]
    <3>1. \A S : \A s \in Seq(S) : \A k \in 1..Len(s) : s[k] \in S
      OBVIOUS
    <3> QED BY <1>2, <2>2, <3>1, Zenon
  <2>4. rewards[i].spent \in Nat
    BY <2>3
  <2> QED BY <2>1, <2>4
<1>6. new[n] = r.spent /\ r.spent \in Int /\ n \notin mine
  BY <1>2, <1>4
<1>7. more = IF r.guest = g THEN mine \cup {n} ELSE mine
  <2> DEFINE D == DOMAIN rewards
             E == DOMAIN rewards'
  <2>1. E = D \cup {n} /\ n \notin D /\ rewards'[n].guest = r.guest
    BY <1>2, <1>4
  <2>2. \A i \in D : rewards'[i].guest = rewards[i].guest
    BY <1>2
  <2>3. mine = {i \in D : rewards[i].guest = g} /\ more = {i \in E : rewards'[i].guest = g}
    OBVIOUS
  <2> HIDE DEF D, E, mine, more, n
  <2> QED BY <2>1, <2>2, <2>3
<1> HIDE DEF mine, more, old, new, n
<1>8. CASE r.guest = g
  <2>1. /\ SumFunctionOnSet(new, mine \cup {n}) = SumFunctionOnSet(old, mine) + new[n]
        /\ SumFunctionOnSet(old, mine) \in Int
    BY <1>3, <1>5, <1>6, SumJoined
  <2> QED BY <1>1, <1>6, <1>7, <1>8, <2>1
<1>9. CASE r.guest # g
  <2>1. SumFunctionOnSet(new, mine) = SumFunctionOnSet(old, mine)
    BY <1>3, <1>5, SumSame
  <2>2. SumFunctionOnSet(old, mine) \in Int
    BY <1>3, <1>5, SumInt
  <2> QED BY <1>1, <1>7, <1>9, <2>1, <2>2
<1> QED BY <1>8, <1>9

(* What is credited and spent is told by these two alone.                  *)
LEMMA AccountsRest ==
  ASSUME StampInv, StampTyped', UNCHANGED <<account, credits, rewards>>
  PROVE  StampInv'
<1>1. \A g \in Guests : Stamps(g)' = Stamps(g) /\ Spent(g)' = Spent(g)
  BY DEF Stamps, Spent
<1> QED BY <1>1 DEF StampInv, StampsAgree

LEMMA StampInitial == StampInit => StampInv
<1> SUFFICES ASSUME StampInit PROVE StampInv
  OBVIOUS
<1>1. StampTyped
  BY FS_EmptySet DEF StampInit, StampTyped
<1>2. ASSUME NEW g \in Guests PROVE Stamps(g) = 0 /\ Spent(g) = 0
  <2>1. /\ {c \in credits : GuestOf[c.meal] = g} = {}
        /\ {i \in DOMAIN rewards : rewards[i].guest = g} = {}
    BY DEF StampInit
  <2> QED BY <2>1, SumEmpty DEF Stamps, Spent
<1> QED BY <1>1, <1>2 DEF StampInv, StampsAgree, StampInit

LEMMA AccrualKeeps ==
  ASSUME StampInv, NEW t \in Tills, Accrue(t)
  PROVE  StampInv'
<1> DEFINE m == till[t].meal
           n == till[t].stamps
           c == [meal |-> m, stamps |-> n]
           h == GuestOf[m]
<1>1. StampTyped /\ StampsAgree
  BY DEF StampInv
<1>2. m \in Meals /\ n \in Nat /\ h \in Guests /\ c \in [meal : Meals, stamps : Nat]
  <2>1. m \in Meals /\ n \in Nat
    <3>1. /\ till[t] \in {Resting} \cup [step : {"accrue"}, meal : Meals, stamps : Nat]
                         \cup [step : {"redeem"}, guest : Guests, cost : Nat]
          /\ till[t].step = "accrue"
      BY <1>1 DEF StampTyped, Accrue
    <3>2. till[t] \in [step : {"accrue"}, meal : Meals, stamps : Nat]
      BY <3>1 DEF Resting
    <3> QED BY <3>2
  <2> QED BY <2>1, CustomerAssumption
<1>3. /\ till' = [till EXCEPT ![t] = Resting] /\ UNCHANGED <<scheme, meal, rewards>>
      /\ \/ UNCHANGED <<account, credits>>
         \/ /\ ~Credited(m) /\ credits' = credits \cup {c}
            /\ account' = [account EXCEPT ![h].balance = @ + n, ![h].earned = @ + n]
  BY DEF Accrue
<1> HIDE DEF m, n, h
<1>4. CASE UNCHANGED <<account, credits>>
  <2>1. StampTyped'
    BY <1>1, <1>3, <1>4 DEF StampTyped
  <2> QED BY <1>3, <1>4, <2>1, AccountsRest
<1>5. CASE /\ ~Credited(m) /\ credits' = credits \cup {c}
           /\ account' = [account EXCEPT ![h].balance = @ + n, ![h].earned = @ + n]
  <2>1. c \notin credits
    BY <1>5 DEF Credited
  <2>2. account \in [Guests -> [balance : Int, earned : Int, redeemed : Int]]
    BY <1>1 DEF StampTyped
  <2>3. /\ account' \in [Guests -> [balance : Int, earned : Int, redeemed : Int]]
        /\ account'[h].balance = account[h].balance + n /\ account'[h].earned = account[h].earned + n
        /\ account'[h].redeemed = account[h].redeemed
        /\ \A g \in Guests \ {h} : account'[g] = account[g]
    <3>1. account[h] \in [balance : Int, earned : Int, redeemed : Int]
      BY <1>2, <2>2
    <3>2. DOMAIN account' = Guests /\ \A g \in Guests \ {h} : account'[g] = account[g]
      BY <1>5, <2>2
    <3>3. account'[h] = [account[h] EXCEPT !.balance = @ + n, !.earned = @ + n]
      BY <1>2, <1>5, <2>2
    <3>4. /\ account'[h] \in [balance : Int, earned : Int, redeemed : Int]
          /\ account'[h].balance = account[h].balance + n /\ account'[h].earned = account[h].earned + n
          /\ account'[h].redeemed = account[h].redeemed
      <4>1. account'[h].balance = account[h].balance + n
        BY <3>1, <3>3
      <4>2. account'[h].earned = account[h].earned + n
        BY <3>1, <3>3
      <4>3. account'[h].redeemed = account[h].redeemed
        BY <3>1, <3>3
      <4>4. account[h].balance + n \in Int /\ account[h].earned + n \in Int /\ account[h].redeemed \in Int
        BY <1>2, <3>1
      <4>5. account'[h] \in [balance : Int, earned : Int, redeemed : Int]
        BY <3>1, <3>3, <4>4
      <4> QED BY <4>1, <4>2, <4>3, <4>5
    <3>5. \A g \in Guests : account'[g] \in [balance : Int, earned : Int, redeemed : Int]
      BY <2>2, <3>2, <3>4
    <3>6. account' = [g \in Guests |-> account'[g]]
      BY <1>5, <2>2
    <3> QED BY <3>2, <3>4, <3>5, <3>6
  <2>4. StampTyped'
    <3>1. IsFiniteSet(credits')
      BY <1>1, <1>5, FS_AddElement DEF StampTyped
    <3>2. credits' \in SUBSET [meal : Meals, stamps : Nat]
      BY <1>1, <1>2, <1>5 DEF StampTyped
    <3> QED BY <1>1, <1>3, <2>3, <3>1, <3>2 DEF StampTyped
  <2>5. ASSUME NEW g \in Guests
        PROVE  /\ account'[g].earned = Stamps(g)' /\ account'[g].redeemed = Spent(g)'
               /\ account'[g].balance = Stamps(g)' - Spent(g)' /\ account'[g].balance >= 0
    <3>1. /\ Stamps(g) \in Int
          /\ Stamps(g)' = IF GuestOf[c.meal] = g THEN Stamps(g) + c.stamps ELSE Stamps(g)
      <4> HIDE DEF c
      <4> QED BY <1>1, <1>2, <1>5, <2>1, CreditsGrow
    <3>2. GuestOf[c.meal] = h /\ c.stamps = n
      BY DEF h
    <3>3. Spent(g)' = Spent(g)
      BY <1>3 DEF Spent
    <3>4. /\ account[g].earned = Stamps(g) /\ account[g].redeemed = Spent(g)
          /\ account[g].balance = Stamps(g) - Spent(g) /\ account[g].balance >= 0
          /\ account[g].redeemed \in Int /\ account[g].balance \in Int
      BY <1>1, <2>2 DEF StampsAgree
    <3>5. CASE g = h
      BY <1>2, <2>3, <3>1, <3>2, <3>3, <3>4, <3>5
    <3>6. CASE g # h
      BY <1>2, <2>3, <3>1, <3>2, <3>3, <3>4, <3>6
    <3> QED BY <3>5, <3>6
  <2>6. \A d, e \in credits' : d.meal = e.meal => d = e
    BY <1>1, <1>5 DEF StampsAgree, Credited
  <2> QED BY <2>4, <2>5, <2>6 DEF StampInv, StampsAgree
<1> QED BY <1>3, <1>4, <1>5

LEMMA RedemptionKeeps ==
  ASSUME StampInv, NEW t \in Tills, Redeem(t)
  PROVE  StampInv'
<1> DEFINE h == till[t].guest
           n == till[t].cost
           r == [guest |-> h, spent |-> n]
<1>1. StampTyped /\ StampsAgree
  BY DEF StampInv
<1>2. h \in Guests /\ n \in Nat /\ r \in [guest : Guests, spent : Nat]
  <2>1. h \in Guests /\ n \in Nat
    <3>1. /\ till[t] \in {Resting} \cup [step : {"accrue"}, meal : Meals, stamps : Nat]
                         \cup [step : {"redeem"}, guest : Guests, cost : Nat]
          /\ till[t].step = "redeem"
      BY <1>1 DEF StampTyped, Redeem
    <3>2. till[t] \in [step : {"redeem"}, guest : Guests, cost : Nat]
      BY <3>1 DEF Resting
    <3> QED BY <3>2
  <2> QED BY <2>1
<1>3. /\ till' = [till EXCEPT ![t] = Resting] /\ UNCHANGED <<scheme, meal, credits>>
      /\ \/ UNCHANGED <<account, rewards>>
         \/ /\ ~(account[h].balance < n) /\ rewards' = Append(rewards, r)
            /\ account' = [account EXCEPT ![h].balance = @ - n, ![h].redeemed = @ + n]
  BY DEF Redeem
<1> HIDE DEF h, n
<1>4. CASE UNCHANGED <<account, rewards>>
  <2>1. StampTyped'
    BY <1>1, <1>3, <1>4 DEF StampTyped
  <2> QED BY <1>3, <1>4, <2>1, AccountsRest
<1>5. CASE /\ ~(account[h].balance < n) /\ rewards' = Append(rewards, r)
           /\ account' = [account EXCEPT ![h].balance = @ - n, ![h].redeemed = @ + n]
  <2>1. account \in [Guests -> [balance : Int, earned : Int, redeemed : Int]]
    BY <1>1 DEF StampTyped
  <2>2. /\ account' \in [Guests -> [balance : Int, earned : Int, redeemed : Int]]
        /\ account'[h].balance = account[h].balance - n /\ account'[h].redeemed = account[h].redeemed + n
        /\ account'[h].earned = account[h].earned
        /\ \A g \in Guests \ {h} : account'[g] = account[g]
    <3>1. account[h] \in [balance : Int, earned : Int, redeemed : Int]
      BY <1>2, <2>1
    <3>2. DOMAIN account' = Guests /\ \A g \in Guests \ {h} : account'[g] = account[g]
      BY <1>5, <2>1
    <3>3. account'[h] = [account[h] EXCEPT !.balance = @ - n, !.redeemed = @ + n]
      BY <1>2, <1>5, <2>1
    <3>4. /\ account'[h] \in [balance : Int, earned : Int, redeemed : Int]
          /\ account'[h].balance = account[h].balance - n /\ account'[h].redeemed = account[h].redeemed + n
          /\ account'[h].earned = account[h].earned
      <4>1. account'[h].balance = account[h].balance - n
        BY <3>1, <3>3
      <4>2. account'[h].redeemed = account[h].redeemed + n
        BY <3>1, <3>3
      <4>3. account'[h].earned = account[h].earned
        BY <3>1, <3>3
      <4>4. account[h].balance - n \in Int /\ account[h].redeemed + n \in Int /\ account[h].earned \in Int
        BY <1>2, <3>1
      <4>5. account'[h] \in [balance : Int, earned : Int, redeemed : Int]
        BY <3>1, <3>3, <4>4
      <4> QED BY <4>1, <4>2, <4>3, <4>5
    <3>5. \A g \in Guests : account'[g] \in [balance : Int, earned : Int, redeemed : Int]
      BY <2>1, <3>2, <3>4
    <3>6. account' = [g \in Guests |-> account'[g]]
      BY <1>5, <2>1
    <3> QED BY <3>2, <3>4, <3>5, <3>6
  <2>3. StampTyped'
    <3>1. rewards' \in Seq([guest : Guests, spent : Nat])
      BY <1>1, <1>2, <1>5 DEF StampTyped
    <3> QED BY <1>1, <1>3, <2>2, <3>1 DEF StampTyped
  <2>4. ASSUME NEW g \in Guests
        PROVE  /\ account'[g].earned = Stamps(g)' /\ account'[g].redeemed = Spent(g)'
               /\ account'[g].balance = Stamps(g)' - Spent(g)' /\ account'[g].balance >= 0
    <3>1. /\ Spent(g) \in Int
          /\ Spent(g)' = IF r.guest = g THEN Spent(g) + r.spent ELSE Spent(g)
      <4> HIDE DEF r
      <4> QED BY <1>1, <1>2, <1>5, RewardsGrow
    <3>2. Stamps(g)' = Stamps(g)
      BY <1>3 DEF Stamps
    <3>3. /\ account[g].earned = Stamps(g) /\ account[g].redeemed = Spent(g)
          /\ account[g].balance = Stamps(g) - Spent(g) /\ account[g].balance >= 0
          /\ account[g].earned \in Int /\ account[g].balance \in Int
      BY <1>1, <2>1 DEF StampsAgree
    <3>4. CASE g = h
      BY <1>2, <1>5, <2>2, <3>1, <3>2, <3>3, <3>4
    <3>5. CASE g # h
      BY <1>2, <2>2, <3>1, <3>2, <3>3, <3>5
    <3> QED BY <3>4, <3>5
  <2>5. \A d, e \in credits' : d.meal = e.meal => d = e
    BY <1>1, <1>3 DEF StampsAgree
  <2> QED BY <2>3, <2>4, <2>5 DEF StampInv, StampsAgree
<1> QED BY <1>3, <1>4, <1>5

LEMMA StampStep == StampInv /\ [StampNext]_stampVars => StampInv'
<1> SUFFICES ASSUME StampInv, [StampNext]_stampVars PROVE StampInv'
  OBVIOUS
<1>1. StampTyped /\ \A r \in Schemes : r.perOrder \in Nat /\ r.perReward \in Nat
  BY CustomerAssumption DEF StampInv
<1>2. ASSUME NEW r \in Schemes, SaveScheme(r) PROVE StampInv'
  <2>1. StampTyped'
    <3>1. scheme.stored \in Schemes
      BY <1>1 DEF StampTyped
    <3> QED BY <1>1, <1>2, <3>1 DEF SaveScheme, StampTyped
  <2> QED BY <1>2, <2>1, AccountsRest DEF SaveScheme
<1>3. ASSUME ForgetScheme PROVE StampInv'
  <2>1. StampTyped'
    BY <1>1, <1>3 DEF ForgetScheme, StampTyped
  <2> QED BY <1>3, <2>1, AccountsRest DEF ForgetScheme
<1>4. ASSUME NEW m \in Meals, ServeMeal(m) \/ RefundMeal(m) PROVE StampInv'
  <2>1. UNCHANGED <<scheme, account, credits, rewards, till>>
    BY <1>4 DEF ServeMeal, RefundMeal
  <2>2. meal \in [Meals -> [done : BOOLEAN, refunded : BOOLEAN]]
    BY <1>1 DEF StampTyped
  <2>3. meal' = [meal EXCEPT ![m].done = TRUE] \/ meal' = [meal EXCEPT ![m].refunded = TRUE]
    BY <1>4 DEF ServeMeal, RefundMeal
  <2>4. meal' \in [Meals -> [done : BOOLEAN, refunded : BOOLEAN]]
    BY <2>2, <2>3, Zenon
  <2>5. StampTyped'
    BY <1>1, <2>1, <2>4 DEF StampTyped
  <2> QED BY <1>4, <2>1, <2>5, AccountsRest DEF ServeMeal, RefundMeal
<1>5. ASSUME NEW t \in Tills, NEW m \in Meals, CallAccrual(t, m) PROVE StampInv'
  <2>1. scheme.cached.perOrder \in Nat
    BY <1>1 DEF StampTyped
  <2>2. StampTyped'
    BY <1>1, <1>5, <2>1 DEF CallAccrual, StampTyped
  <2> QED BY <1>5, <2>2, AccountsRest DEF CallAccrual
<1>6. ASSUME NEW t \in Tills, NEW g \in Guests, CallRedeem(t, g) PROVE StampInv'
  <2>1. scheme.cached.perReward \in Nat
    BY <1>1 DEF StampTyped
  <2>2. StampTyped'
    BY <1>1, <1>6, <2>1 DEF CallRedeem, StampTyped
  <2> QED BY <1>6, <2>2, AccountsRest DEF CallRedeem
<1>7. ASSUME UNCHANGED stampVars PROVE StampInv'
  <2>1. StampTyped'
    BY <1>1, <1>7 DEF stampVars, StampTyped
  <2> QED BY <1>7, <2>1, AccountsRest DEF stampVars
<1> QED BY <1>2, <1>3, <1>4, <1>5, <1>6, <1>7, AccrualKeeps, RedemptionKeeps DEF StampNext

-----------------------------------------------------------------------------
(* The carts.                                                              *)

CartLine == [product : Products, by : Nat, price : Nat, quantity : 1..PerLine]
Cart == [guest : Guests, active : BOOLEAN, lines : SUBSET CartLine]
CartOrder == [cart : Nat, lines : SUBSET CartLine, total : Int, display : Int, torn : BOOLEAN]
BotStates ==
  {Resting}
  \cup [step : {"find"}, update : DOMAIN Updates, price : Nat]
  \cup [step : {"found", "insert"}, update : DOMAIN Updates, price : Nat, cart : Nat]
  \cup [step : {"read"}, update : DOMAIN Updates, cart : Nat, by : Nat \ {0}, quantity : 1..PerLine]
  \cup [step : {"checkout"}, update : DOMAIN Updates, cart : Nat, lines : SUBSET CartLine]

CartTyped ==
  /\ carts \in Seq(Cart) /\ \A k \in DOMAIN carts : IsFiniteSet(carts[k].lines)
  /\ placed \in Seq(CartOrder)
  /\ seen \in SUBSET DOMAIN Updates
  /\ tries \in Nat
  /\ bot \in [Bots -> BotStates]

(* What a bot has found stays true of the cart it found.                   *)
AtCart(b) == bot[b].step \in {"found", "insert", "read", "checkout"}
BotRight(b) ==
  /\ AtCart(b) => bot[b].cart \in DOMAIN carts
  /\ bot[b].step \in {"found", "insert"} => carts[bot[b].cart].guest = Asked(b).guest
  /\ bot[b].step = "checkout" => carts[bot[b].cart].active /\ bot[b].lines # {}
Pays(b, k) == bot[b].step = "checkout" /\ bot[b].cart = k
OnePays == \A b, c \in Bots : \A k \in DOMAIN carts : Pays(b, k) /\ Pays(c, k) => b = c

(* An update is at work in one bot at most, which has marked it.           *)
At(b, u) == bot[b].step \in {"find", "found", "insert"} /\ bot[b].update = u
AtWork(u) == \E b \in Bots : At(b, u)
UpdatesApart ==
  /\ \A u \in DOMAIN Updates : AtWork(u) => u \in seen
  /\ \A u \in DOMAIN Updates : \A b, c \in Bots : At(b, u) /\ At(c, u) => b = c

(* A guest has one active cart; a cart is ordered once, when it is left.   *)
OneCart == \A g \in Guests : \A k, m \in Active(g) : k = m
OrderedOnce ==
  \A k \in DOMAIN carts :
    IF carts[k].active THEN \A i \in DOMAIN placed : placed[i].cart # k
    ELSE \E i \in DOMAIN placed : \A j \in DOMAIN placed : placed[j].cart = k <=> j = i
OrderRight(i) ==
  /\ placed[i].cart \in 0..Len(carts)
  /\ placed[i].lines # {}
  /\ placed[i].torn \/ placed[i].total = Worth(placed[i].lines)

(* A line comes from an update that is done, and stands once.              *)
Stems(k, l) ==
  /\ l.by \in seen /\ ~AtWork(l.by)
  /\ Updates[l.by].kind = "add"
  /\ Updates[l.by].product = l.product /\ Updates[l.by].guest = carts[k].guest
LinesRight ==
  /\ \A k \in DOMAIN carts : \A l \in carts[k].lines : Stems(k, l)
  /\ \A k, m \in DOMAIN carts : \A l \in carts[k].lines, n \in carts[m].lines :
       l.by = n.by \/ (k = m /\ l.product = n.product) => k = m /\ l = n

(* Every addition that is done went to one line, f[u] by the name of the   *)
(* update that began it; no line, and nothing that was read of one, is     *)
(* more than what went to it.                                              *)
Went(f, v) == SumFunctionOnSet(Asking, {u \in DOMAIN Updates : f[u] = v})
Shared(f) ==
  /\ \A u \in DOMAIN Updates :
       f[u] # 0 => /\ u \in seen /\ ~AtWork(u) /\ Updates[u].kind = "add"
                   /\ f[u] \in DOMAIN Updates
                   /\ Updates[f[u]].guest = Updates[u].guest
                   /\ Updates[f[u]].product = Updates[u].product
  /\ \A k \in DOMAIN carts : \A l \in carts[k].lines : l.quantity <= Went(f, l.by)
  /\ \A b \in Bots : bot[b].step = "read" => bot[b].quantity <= Went(f, bot[b].by)

CartInv ==
  /\ CartTyped
  /\ \A b \in Bots : BotRight(b)
  /\ OnePays /\ UpdatesApart /\ OneCart /\ OrderedOnce
  /\ \A i \in DOMAIN placed : OrderRight(i)
  /\ LinesRight
  /\ \E f \in [DOMAIN Updates -> Nat] : Shared(f)

LEMMA CartsHave ==
  ASSUME CartTyped, NEW k \in DOMAIN carts
  PROVE  /\ DOMAIN carts = 1..Len(carts) /\ Len(carts) \in Nat /\ k \in Nat
         /\ carts[k] \in Cart /\ carts[k].guest \in Guests /\ carts[k].active \in BOOLEAN
         /\ carts[k].lines \in SUBSET CartLine /\ IsFiniteSet(carts[k].lines)
<1>1. carts \in Seq(Cart) /\ IsFiniteSet(carts[k].lines)
  BY DEF CartTyped
<1>2. DOMAIN carts = 1..Len(carts) /\ Len(carts) \in Nat /\ k \in Nat /\ carts[k] \in Cart
  BY <1>1
<1>3. /\ carts[k].guest \in Guests /\ carts[k].active \in BOOLEAN
      /\ carts[k].lines \in SUBSET CartLine
  BY <1>2 DEF Cart
<1> QED BY <1>1, <1>2, <1>3

LEMMA UpdatesHave ==
  ASSUME NEW u \in DOMAIN Updates
  PROVE  /\ u \in Nat \ {0} /\ DOMAIN Updates = 1..Len(Updates) /\ Len(Updates) \in Nat
         /\ Updates[u].guest \in Guests /\ Updates[u].product \in Products
         /\ Updates[u].quantity \in Nat \ {0}
<1> DEFINE R == [guest : Guests, kind : {"add", "dec", "rm", "clear", "checkout"},
                 product : Products, quantity : Nat \ {0}]
<1>1. Updates \in Seq(R)
  BY CustomerAssumption
<1> HIDE DEF R
<1>2. Updates[u] \in R /\ DOMAIN Updates = 1..Len(Updates) /\ Len(Updates) \in Nat
  BY <1>1
<1>3. u \in Nat \ {0}
  BY <1>2
<1>4. /\ Updates[u].guest \in Guests /\ Updates[u].product \in Products
      /\ Updates[u].quantity \in Nat \ {0}
  BY <1>2 DEF R
<1> QED BY <1>2, <1>3, <1>4

LEMMA BotHas ==
  ASSUME CartTyped, NEW b \in Bots
  PROVE  /\ bot[b] \in BotStates
         /\ bot[b].step \in {"idle", "find", "found", "insert", "read", "checkout"}
         /\ bot[b].step # "idle" => bot[b].update \in DOMAIN Updates
         /\ bot[b].step \in {"find", "found", "insert"} => bot[b].price \in Nat
         /\ AtCart(b) => bot[b].cart \in Nat
         /\ bot[b].step = "read" => bot[b].by \in Nat \ {0} /\ bot[b].quantity \in 1..PerLine
         /\ bot[b].step = "checkout" => bot[b].lines \in SUBSET CartLine
<1>1. bot[b] \in BotStates
  BY DEF CartTyped
<1>2. CASE bot[b] = Resting
  BY <1>1, <1>2 DEF Resting, AtCart
<1>3. CASE bot[b] \in [step : {"find"}, update : DOMAIN Updates, price : Nat]
  BY <1>1, <1>3 DEF AtCart
<1>4. CASE bot[b] \in [step : {"found", "insert"}, update : DOMAIN Updates, price : Nat, cart : Nat]
  BY <1>1, <1>4 DEF AtCart
<1>5. CASE bot[b] \in [step : {"read"}, update : DOMAIN Updates, cart : Nat, by : Nat \ {0},
                       quantity : 1..PerLine]
  BY <1>1, <1>5 DEF AtCart
<1>6. CASE bot[b] \in [step : {"checkout"}, update : DOMAIN Updates, cart : Nat, lines : SUBSET CartLine]
  BY <1>1, <1>6 DEF AtCart
<1> QED BY <1>1, <1>2, <1>3, <1>4, <1>5, <1>6 DEF BotStates

(* One bot takes a step, and works on no other update than before.         *)
LEMMA OneBotMoves ==
  ASSUME CartTyped, UpdatesApart, NEW b \in Bots, NEW x \in BotStates, bot' = [bot EXCEPT ![b] = x],
         x.step \in {"find", "found", "insert"} => At(b, x.update), seen \subseteq seen'
  PROVE  /\ bot' \in [Bots -> BotStates] /\ bot'[b] = x
         /\ \A c \in Bots \ {b} : bot'[c] = bot[c]
         /\ \A c \in Bots, u \in DOMAIN Updates : At(c, u)' => At(c, u)
         /\ \A u \in DOMAIN Updates : AtWork(u)' => AtWork(u)
         /\ UpdatesApart'
<1>1. /\ bot \in [Bots -> BotStates]
      /\ bot' \in [Bots -> BotStates] /\ bot'[b] = x /\ \A c \in Bots \ {b} : bot'[c] = bot[c]
  BY DEF CartTyped
<1>2. ASSUME NEW c \in Bots, NEW u, At(c, u)' PROVE At(c, u)
  <2>1. bot'[c].step \in {"find", "found", "insert"} /\ bot'[c].update = u
    BY <1>2 DEF At
  <2>2. CASE c = b
    BY <1>1, <2>1, <2>2
  <2>3. CASE c # b
    BY <1>1, <2>1, <2>3 DEF At
  <2> QED BY <2>2, <2>3
<1>3. \A u \in DOMAIN Updates : AtWork(u)' => AtWork(u)
  BY <1>2 DEF AtWork
<1>4. UpdatesApart'
  BY <1>2, <1>3 DEF UpdatesApart
<1> QED BY <1>1, <1>2, <1>3, <1>4

LEMMA RightAgain ==
  ASSUME \A c \in Bots : BotRight(c), OnePays, NEW b \in Bots, \A c \in Bots \ {b} : bot'[c] = bot[c],
         \A k \in DOMAIN carts : k \in DOMAIN carts' /\ carts'[k].guest = carts[k].guest,
         \A k \in DOMAIN carts, c \in Bots \ {b} : Pays(c, k) => carts'[k].active,
         BotRight(b)',
         \A k \in DOMAIN carts', c \in Bots \ {b} : Pays(b, k)' => ~Pays(c, k)
  PROVE  (\A c \in Bots : BotRight(c))' /\ OnePays'
<1>1. ASSUME NEW c \in Bots PROVE BotRight(c)'
  <2>1. CASE c = b
    BY <2>1
  <2>2. CASE c # b
    <3>1. bot'[c] = bot[c] /\ BotRight(c)
      BY <2>2
    <3>2. AtCart(c)' => bot[c].cart \in DOMAIN carts
      BY <3>1 DEF AtCart, BotRight
    <3>3. bot[c].step = "checkout" => bot'[c].lines # {} /\ carts'[bot'[c].cart].active
      BY <2>2, <3>1 DEF BotRight, AtCart, Pays
    <3>4. bot[c].step \in {"found", "insert"} => carts'[bot'[c].cart].guest = Asked(c)'.guest
      BY <3>1 DEF BotRight, AtCart, Asked
    <3> QED BY <3>1, <3>2, <3>3, <3>4 DEF BotRight, AtCart
  <2> QED BY <2>1, <2>2
<1>2. ASSUME NEW c \in Bots \ {b}, NEW k \in DOMAIN carts', Pays(c, k)'
      PROVE  Pays(c, k) /\ k \in DOMAIN carts
  <2>1. bot'[c] = bot[c] /\ BotRight(c)
    OBVIOUS
  <2> QED BY <1>2, <2>1 DEF Pays, BotRight, AtCart
<1>3. ASSUME NEW c \in Bots, NEW d \in Bots, NEW k \in DOMAIN carts', Pays(c, k)', Pays(d, k)', c # d
      PROVE  FALSE
  <2>1. CASE c = b
    BY <1>2, <1>3, <2>1
  <2>2. CASE d = b
    BY <1>2, <1>3, <2>2
  <2>3. CASE c # b /\ d # b
    <3>1. Pays(c, k) /\ Pays(d, k) /\ k \in DOMAIN carts
      BY <1>2, <1>3, <2>3
    <3> QED BY <1>3, <3>1 DEF OnePays
  <2> QED BY <2>1, <2>2, <2>3
<1>4. OnePays'
  BY <1>3 DEF OnePays
<1> QED BY <1>1, <1>4

(* Lines that only change in quantity or go.                               *)
LEMMA LinesKept ==
  ASSUME LinesRight, seen \subseteq seen', \A u \in seen : AtWork(u)' => AtWork(u),
         \A k \in DOMAIN carts' : \A n \in carts'[k].lines :
           k \in DOMAIN carts /\ \E l \in carts[k].lines : l.by = n.by /\ l.product = n.product,
         \A k \in DOMAIN carts' : \A n, o \in carts'[k].lines : n.by = o.by => n = o,
         \A k \in DOMAIN carts : carts'[k].guest = carts[k].guest
  PROVE  LinesRight'
<1>1. ASSUME NEW k \in DOMAIN carts', NEW n \in carts'[k].lines PROVE Stems(k, n)'
  <2>1. PICK l \in carts[k].lines : l.by = n.by /\ l.product = n.product
    OBVIOUS
  <2>2. k \in DOMAIN carts
    OBVIOUS
  <2>3. Stems(k, l)
    BY <2>1, <2>2 DEF LinesRight
  <2>4. n.by \in seen /\ ~AtWork(n.by)
    BY <2>1, <2>3 DEF Stems
  <2>5. ~AtWork(n.by)'
    BY <2>4
  <2> QED BY <2>1, <2>2, <2>3, <2>4, <2>5 DEF Stems
<1>2. ASSUME NEW k \in DOMAIN carts', NEW m \in DOMAIN carts',
             NEW n \in carts'[k].lines, NEW o \in carts'[m].lines,
             n.by = o.by \/ (k = m /\ n.product = o.product)
      PROVE  k = m /\ n = o
  <2>1. PICK l \in carts[k].lines : l.by = n.by /\ l.product = n.product
    OBVIOUS
  <2>2. PICK j \in carts[m].lines : j.by = o.by /\ j.product = o.product
    OBVIOUS
  <2>3. k \in DOMAIN carts /\ m \in DOMAIN carts
    OBVIOUS
  <2>4. k = m /\ l = j
    BY <1>2, <2>1, <2>2, <2>3 DEF LinesRight
  <2>5. n.by = o.by
    BY <2>1, <2>2, <2>4
  <2> QED BY <2>4, <2>5
<1> QED BY <1>1, <1>2 DEF LinesRight

LEMMA SharedAgain ==
  ASSUME NEW f, Shared(f), seen \subseteq seen', \A u \in seen : AtWork(u)' => AtWork(u),
         \A k \in DOMAIN carts' : \A n \in carts'[k].lines : n.quantity <= Went(f, n.by),
         \A c \in Bots : bot'[c].step = "read" => bot'[c].quantity <= Went(f, bot'[c].by)
  PROVE  Shared(f)'
<1>1. ASSUME NEW u \in DOMAIN Updates, f[u] # 0
      PROVE  /\ u \in seen' /\ ~AtWork(u)' /\ Updates[u].kind = "add"
             /\ f[u] \in DOMAIN Updates
             /\ Updates[f[u]].guest = Updates[u].guest
             /\ Updates[f[u]].product = Updates[u].product
  BY <1>1 DEF Shared
<1>2. \A v : Went(f, v)' = Went(f, v)
  BY DEF Went, Asking
<1> QED BY <1>1, <1>2 DEF Shared

LEMMA WentNat ==
  ASSUME NEW f, NEW v
  PROVE  /\ Went(f, v) \in Nat
         /\ IsFiniteSet({u \in DOMAIN Updates : f[u] = v})
<1> DEFINE U == {u \in DOMAIN Updates : f[u] = v}
<1>1. IsFiniteSet(DOMAIN Updates)
  <2>1. DOMAIN Updates = 1..Len(Updates) /\ 1 \in Int /\ Len(Updates) \in Int
    BY CustomerAssumption
  <2> QED BY <2>1, FS_Interval
<1>2. U \subseteq DOMAIN Updates
  OBVIOUS
<1>3. IsFiniteSet(U)
  BY <1>1, <1>2, FS_Subset
<1>4. \A u \in U : Asking[u] \in Nat
  BY UpdatesHave DEF Asking
<1> HIDE DEF U
<1>5. SumFunctionOnSet(Asking, U) \in Nat
  BY <1>3, <1>4, SumNat
<1> QED BY <1>3, <1>5 DEF Went, U

LEMMA WentMore ==
  ASSUME NEW f \in [DOMAIN Updates -> Nat], NEW u \in DOMAIN Updates, f[u] = 0, NEW v \in Nat \ {0},
         NEW g, g = [f EXCEPT ![u] = v]
  PROVE  /\ g \in [DOMAIN Updates -> Nat]
         /\ Went(g, v) = Went(f, v) + Updates[u].quantity
         /\ \A w : w # 0 => Went(g, w) >= Went(f, w)
<1>1. g \in [DOMAIN Updates -> Nat] /\ g[u] = v /\ \A x \in DOMAIN Updates \ {u} : g[x] = f[x]
  OBVIOUS
<1> DEFINE F == {x \in DOMAIN Updates : f[x] = v}
           G == {x \in DOMAIN Updates : g[x] = v}
<1>2. G = F \cup {u} /\ u \notin F
  BY <1>1
<1>3. IsFiniteSet(F)
  BY WentNat
<1>4. \A x \in F \cup {u} : Asking[x] \in Int
  BY UpdatesHave DEF Asking
<1>n. \A h, w : Went(h, w) \in Nat
  BY WentNat
<1>5. Asking[u] = Updates[u].quantity /\ Asking[u] \in Nat
  BY UpdatesHave DEF Asking
<1>6. SumFunctionOnSet(Asking, F \cup {u}) = SumFunctionOnSet(Asking, F) + Asking[u]
  <2>1. SumFunctionOnSet(Asking, F) \in Nat
    BY <1>n DEF Went
  <2> HIDE DEF F
  <2>2. SumFunctionOnSet(Asking, F \cup {u}) = Asking[u] + SumFunctionOnSet(Asking, F)
    BY <1>2, <1>3, <1>4, SumAdds
  <2> QED BY <1>5, <2>1, <2>2
<1>7. Went(g, v) = Went(f, v) + Updates[u].quantity
  <2>1. Went(g, v) = SumFunctionOnSet(Asking, G) /\ Went(f, v) = SumFunctionOnSet(Asking, F)
    BY DEF Went
  <2> QED BY <1>2, <1>5, <1>6, <2>1
<1>8. ASSUME NEW w, w # 0 PROVE Went(g, w) >= Went(f, w)
  <2>1. CASE w = v
    BY <1>n, <1>5, <1>7, <2>1
  <2>2. CASE w # v
    <3>1. {x \in DOMAIN Updates : g[x] = w} = {x \in DOMAIN Updates : f[x] = w}
      BY <1>1, <1>8, <2>2
    <3>2. Went(g, w) = Went(f, w)
      BY <3>1 DEF Went
    <3> QED BY <1>n, <3>2
  <2> QED BY <2>1, <2>2
<1> QED BY <1>1, <1>7, <1>8

(* Nothing of carts that are ordered, or are to be, is touched.            *)
LEMMA OrdersRest ==
  ASSUME CartTyped, OneCart, OrderedOnce, \A i \in DOMAIN placed : OrderRight(i), UNCHANGED placed,
         DOMAIN carts' = DOMAIN carts, Len(carts') = Len(carts),
         \A k \in DOMAIN carts : carts'[k].guest = carts[k].guest /\ carts'[k].active = carts[k].active
  PROVE  OneCart' /\ OrderedOnce' /\ (\A i \in DOMAIN placed : OrderRight(i))'
<1>1. \A g \in Guests : Active(g)' = Active(g)
  BY DEF Active
<1>2. OneCart'
  BY <1>1 DEF OneCart
<1>3. OrderedOnce'
  BY DEF OrderedOnce
<1>4. (\A i \in DOMAIN placed : OrderRight(i))'
  BY DEF OrderRight, Worth
<1> QED BY <1>2, <1>3, <1>4

LEMMA CartPut ==
  ASSUME NEW K, NEW s \in Seq(K), NEW k \in DOMAIN s, NEW c \in K, NEW t, t = [s EXCEPT ![k] = c]
  PROVE  /\ t \in Seq(K) /\ DOMAIN t = DOMAIN s /\ Len(t) = Len(s) /\ t[k] = c
         /\ \A m \in DOMAIN s : m # k => t[m] = s[m]
OBVIOUS

LEMMA WritesFrame ==
  ASSUME CartInv, NEW b \in Bots, AtCart(b), Rests(b), NEW N \in SUBSET CartLine, IsFiniteSet(N),
         Writes(b, N), UNCHANGED <<placed, seen, tries>>
  PROVE  /\ CartTyped' /\ (\A c \in Bots : BotRight(c))' /\ OnePays' /\ UpdatesApart'
         /\ OneCart' /\ OrderedOnce' /\ (\A i \in DOMAIN placed : OrderRight(i))'
         /\ bot[b].cart \in DOMAIN carts /\ DOMAIN carts' = DOMAIN carts
         /\ carts'[bot[b].cart].lines = N
         /\ \A k \in DOMAIN carts : /\ carts'[k].guest = carts[k].guest
                                    /\ k # bot[b].cart => carts'[k].lines = carts[k].lines
         /\ bot'[b] = Resting /\ \A c \in Bots \ {b} : bot'[c] = bot[c]
         /\ \A u \in DOMAIN Updates : AtWork(u)' => AtWork(u)
<1> DEFINE k == bot[b].cart
           c == [carts[k] EXCEPT !.lines = N]
<1>1. /\ CartTyped /\ OnePays /\ UpdatesApart /\ OneCart /\ OrderedOnce /\ BotRight(b)
      /\ \A d \in Bots : BotRight(d)
      /\ \A i \in DOMAIN placed : OrderRight(i)
  BY DEF CartInv
<1>2. k \in DOMAIN carts /\ carts \in Seq(Cart)
  BY <1>1 DEF BotRight, CartTyped
<1>3. carts[k] \in Cart
  BY <1>1, <1>2, CartsHave
<1>4. /\ c \in Cart /\ c.lines = N /\ c.guest = carts[k].guest /\ c.active = carts[k].active
  BY <1>3 DEF Cart
<1>5. carts' = [carts EXCEPT ![k] = c]
  BY DEF Writes
<1> HIDE DEF c, k
<1>6. /\ carts' \in Seq(Cart) /\ DOMAIN carts' = DOMAIN carts /\ Len(carts') = Len(carts)
      /\ carts'[k] = c /\ \A m \in DOMAIN carts : m # k => carts'[m] = carts[m]
  BY <1>2, <1>4, <1>5, CartPut
<1>7. Resting \in BotStates /\ bot' = [bot EXCEPT ![b] = Resting] /\ Resting.step = "idle"
  BY DEF BotStates, Rests, Resting
<1>8. /\ bot' \in [Bots -> BotStates] /\ bot'[b] = Resting /\ \A d \in Bots \ {b} : bot'[d] = bot[d]
      /\ \A u \in DOMAIN Updates : AtWork(u)' => AtWork(u)
      /\ UpdatesApart'
  <2>1. seen \subseteq seen' /\ Resting.step \notin {"find", "found", "insert"}
    BY <1>7
  <2> QED BY <1>1, <1>7, <2>1, OneBotMoves
<1>9. CartTyped'
  <2>1. \A m \in DOMAIN carts' : IsFiniteSet(carts'[m].lines)
    BY <1>1, <1>4, <1>6 DEF CartTyped
  <2> QED BY <1>1, <1>6, <1>8, <2>1 DEF CartTyped
<1>10. \A m \in DOMAIN carts : /\ m \in DOMAIN carts' /\ carts'[m].guest = carts[m].guest
                               /\ carts'[m].active = carts[m].active
                               /\ m # k => carts'[m].lines = carts[m].lines
  BY <1>4, <1>6
<1>11. (\A d \in Bots : BotRight(d))' /\ OnePays'
  <2>1. BotRight(b)'
    BY <1>7, <1>8 DEF BotRight, AtCart
  <2>2. \A m \in DOMAIN carts, d \in Bots \ {b} : Pays(d, m) => carts'[m].active
    BY <1>1, <1>10 DEF Pays, BotRight
  <2>3. \A m \in DOMAIN carts', d \in Bots \ {b} : Pays(b, m)' => ~Pays(d, m)
    BY <1>7, <1>8 DEF Pays
  <2> QED BY <1>1, <1>8, <1>10, <2>1, <2>2, <2>3, RightAgain
<1>12. OneCart' /\ OrderedOnce' /\ (\A i \in DOMAIN placed : OrderRight(i))'
  BY <1>1, <1>6, <1>10, OrdersRest
<1> QED BY <1>2, <1>4, <1>6, <1>8, <1>9, <1>10, <1>11, <1>12 DEF k

(* Lines that go or are written no larger than what went to them.          *)
LEMMA LinesWritten ==
  ASSUME CartInv, NEW b \in Bots, AtCart(b), Rests(b), NEW N \in SUBSET CartLine, IsFiniteSet(N),
         Writes(b, N), UNCHANGED <<placed, seen, tries>>,
         \A n \in N : \E l \in Lines(b) : l.by = n.by /\ l.product = n.product,
         \A n, o \in N : n.by = o.by => n = o,
         NEW f \in [DOMAIN Updates -> Nat], Shared(f), \A n \in N : n.quantity <= Went(f, n.by)
  PROVE  CartInv'
<1>1. /\ CartTyped' /\ (\A c \in Bots : BotRight(c))' /\ OnePays' /\ UpdatesApart'
      /\ OneCart' /\ OrderedOnce' /\ (\A i \in DOMAIN placed : OrderRight(i))'
      /\ bot[b].cart \in DOMAIN carts /\ DOMAIN carts' = DOMAIN carts
      /\ carts'[bot[b].cart].lines = N
      /\ \A k \in DOMAIN carts : /\ carts'[k].guest = carts[k].guest
                                 /\ k # bot[b].cart => carts'[k].lines = carts[k].lines
      /\ bot'[b] = Resting /\ \A c \in Bots \ {b} : bot'[c] = bot[c]
      /\ \A u \in DOMAIN Updates : AtWork(u)' => AtWork(u)
  BY WritesFrame
<1>2. LinesRight /\ seen \in SUBSET DOMAIN Updates /\ seen' = seen
  BY DEF CartInv, CartTyped
<1>3. \A u \in seen : AtWork(u)' => AtWork(u)
  BY <1>1, <1>2
<1>4. LinesRight'
  <2>1. ASSUME NEW k \in DOMAIN carts', NEW n \in carts'[k].lines
        PROVE  k \in DOMAIN carts /\ \E l \in carts[k].lines : l.by = n.by /\ l.product = n.product
    <3>1. CASE k = bot[b].cart
      BY <1>1, <3>1 DEF Lines
    <3>2. CASE k # bot[b].cart
      BY <1>1, <3>2
    <3> QED BY <3>1, <3>2
  <2>2. ASSUME NEW k \in DOMAIN carts', NEW n \in carts'[k].lines, NEW o \in carts'[k].lines, n.by = o.by
        PROVE  n = o
    <3>1. CASE k = bot[b].cart
      BY <1>1, <2>2, <3>1
    <3>2. CASE k # bot[b].cart
      BY <1>1, <1>2, <2>2, <3>2 DEF LinesRight
    <3> QED BY <3>1, <3>2
  <2>3. seen \subseteq seen'
    BY <1>2
  <2> QED BY <1>1, <1>2, <1>3, <2>1, <2>2, <2>3, LinesKept
<1>5. Shared(f)'
  <2>1. ASSUME NEW k \in DOMAIN carts', NEW n \in carts'[k].lines PROVE n.quantity <= Went(f, n.by)
    BY <1>1 DEF Shared
  <2>2. ASSUME NEW c \in Bots, bot'[c].step = "read" PROVE bot'[c].quantity <= Went(f, bot'[c].by)
    <3>1. c # b
      BY <1>1, <2>2 DEF Resting
    <3> QED BY <1>1, <2>2, <3>1 DEF Shared
  <2>3. seen \subseteq seen'
    BY <1>2
  <2> QED BY <1>3, <2>1, <2>2, <2>3, SharedAgain
<1> QED BY <1>1, <1>4, <1>5 DEF CartInv

(* What a cart holds, and how its lines differ.                            *)
LEMMA LinesHave ==
  ASSUME CartInv, NEW b \in Bots, AtCart(b)
  PROVE  /\ bot[b].cart \in DOMAIN carts /\ Lines(b) \in SUBSET CartLine /\ IsFiniteSet(Lines(b))
         /\ \A l, n \in Lines(b) : l.by = n.by \/ l.product = n.product => l = n
         /\ \A l \in Lines(b) : Stems(bot[b].cart, l)
         /\ \A f : Shared(f) => \A l \in Lines(b) : l.quantity <= Went(f, l.by)
<1>1. bot[b].cart \in DOMAIN carts /\ CartTyped /\ LinesRight
  BY DEF CartInv, BotRight
<1>2. Lines(b) \in SUBSET CartLine /\ IsFiniteSet(Lines(b))
  BY <1>1, CartsHave DEF Lines
<1>3. /\ \A l, n \in Lines(b) : l.by = n.by \/ l.product = n.product => l = n
      /\ \A l \in Lines(b) : Stems(bot[b].cart, l)
  BY <1>1 DEF LinesRight, Lines
<1>4. \A f : Shared(f) => \A l \in Lines(b) : l.quantity <= Went(f, l.by)
  BY <1>1 DEF Shared, Lines
<1> QED BY <1>1, <1>2, <1>3, <1>4

LEMMA RemovalKeeps ==
  ASSUME CartInv, NEW b \in Bots, RemoveLine(b) \/ ClearCart(b)
  PROVE  CartInv'
<1>1. AtCart(b) /\ Rests(b) /\ UNCHANGED <<placed, seen, tries>>
  BY DEF RemoveLine, ClearCart, Does, AtCart
<1>2. PICK N \in SUBSET Lines(b) : Writes(b, N)
  BY DEF RemoveLine, ClearCart
<1>3. PICK f \in [DOMAIN Updates -> Nat] : Shared(f)
  BY DEF CartInv
<1>4. /\ Lines(b) \in SUBSET CartLine /\ IsFiniteSet(Lines(b))
      /\ \A l, n \in Lines(b) : l.by = n.by \/ l.product = n.product => l = n
      /\ \A l \in Lines(b) : l.quantity <= Went(f, l.by)
  BY <1>1, <1>3, LinesHave
<1>5. /\ N \in SUBSET CartLine /\ IsFiniteSet(N)
      /\ \A n \in N : \E l \in Lines(b) : l.by = n.by /\ l.product = n.product
      /\ \A n, o \in N : n.by = o.by => n = o
      /\ \A n \in N : n.quantity <= Went(f, n.by)
  BY <1>4, FS_Subset
<1> QED BY <1>1, <1>2, <1>3, <1>5, LinesWritten

LEMMA WritingKeeps ==
  ASSUME CartInv, NEW b \in Bots, WriteLine(b)
  PROVE  CartInv'
<1> DEFINE v == bot[b].by
           less == bot[b].quantity - 1
           same == {l \in Lines(b) : l.by = v}
           N == (Lines(b) \ same)
                  \cup (IF less = 0 THEN {} ELSE {[l EXCEPT !.quantity = less] : l \in same})
<1>1. AtCart(b) /\ Rests(b) /\ Writes(b, N) /\ bot[b].step = "read" /\ UNCHANGED <<placed, seen, tries>>
  BY DEF WriteLine, AtCart
<1>2. PICK f \in [DOMAIN Updates -> Nat] : Shared(f)
  BY DEF CartInv
<1>3. /\ Lines(b) \in SUBSET CartLine /\ IsFiniteSet(Lines(b))
      /\ \A l, n \in Lines(b) : l.by = n.by \/ l.product = n.product => l = n
      /\ \A l \in Lines(b) : l.quantity <= Went(f, l.by)
  BY <1>1, <1>2, LinesHave
<1>4. bot[b].quantity \in 1..PerLine /\ bot[b].quantity <= Went(f, v) /\ PerLine \in Nat
  <2>1. CartTyped
    BY DEF CartInv
  <2>2. bot[b].quantity \in 1..PerLine
    BY <1>1, <2>1, BotHas
  <2>3. bot[b].quantity <= Went(f, v)
    BY <1>1, <1>2 DEF Shared
  <2> QED BY <2>2, <2>3, CustomerAssumption
<1>5. less \in 0..PerLine /\ less <= Went(f, v)
  <2>1. Went(f, v) \in Nat
    BY WentNat
  <2> HIDE DEF v
  <2> QED BY <1>4, <2>1
<1>6. ASSUME NEW n \in N
      PROVE  /\ n \in CartLine /\ n.quantity <= Went(f, n.by)
             /\ \E l \in Lines(b) : l.by = n.by /\ l.product = n.product /\ (n.by # v => n = l)
             /\ n.by = v => less # 0 /\ \E l \in same : n = [l EXCEPT !.quantity = less]
  <2>1. CASE n \in Lines(b) \ same
    BY <1>3, <2>1
  <2>2. CASE n \notin Lines(b) \ same
    <3>1. less # 0 /\ \E l \in same : n = [l EXCEPT !.quantity = less]
      BY <2>2
    <3>2. PICK l \in same : n = [l EXCEPT !.quantity = less]
      BY <3>1
    <3>3. l \in CartLine /\ l \in Lines(b) /\ l.by = v /\ less \in 1..PerLine
      BY <1>3, <1>4, <1>5, <3>1
    <3> HIDE DEF less, same, N, v
    <3>4. n \in CartLine /\ n.quantity = less /\ n.by = l.by /\ n.product = l.product
      BY <3>2, <3>3 DEF CartLine
    <3> QED BY <1>5, <3>1, <3>3, <3>4
  <2> QED BY <2>1, <2>2
<1>7. \A l, n \in same : l = n
  BY <1>3
<1>8. IsFiniteSet(N)
  <2>1. same \in SUBSET Lines(b) /\ Lines(b) \ same \in SUBSET Lines(b)
    OBVIOUS
  <2>2. IsFiniteSet(same) /\ IsFiniteSet(Lines(b) \ same)
    BY <1>3, <2>1, FS_Subset
  <2>3. IsFiniteSet({[l EXCEPT !.quantity = less] : l \in same})
    <3>1. CASE same = {}
      BY <3>1, FS_EmptySet
    <3>2. CASE same # {}
      <4>1. PICK l \in same : same = {l}
        BY <1>3, <3>2
      <4>2. {[n EXCEPT !.quantity = less] : n \in same} = {[l EXCEPT !.quantity = less]}
        BY <4>1
      <4> HIDE DEF same, less
      <4> QED BY <4>2, FS_Singleton
    <3> QED BY <3>1, <3>2
  <2>4. IsFiniteSet({})
    BY FS_EmptySet
  <2>5. IsFiniteSet(IF less = 0 THEN {} ELSE {[l EXCEPT !.quantity = less] : l \in same})
    BY <2>3, <2>4
  <2> QED BY <2>2, <2>5, FS_Union
<1>9. ASSUME NEW n \in N, NEW o \in N, n.by = o.by PROVE n = o
  <2>1. CASE n.by = v
    <3>1. /\ \E l \in same : n = [l EXCEPT !.quantity = less]
          /\ \E l \in same : o = [l EXCEPT !.quantity = less]
      BY <1>6, <1>9, <2>1
    <3> QED BY <1>7, <3>1
  <2>2. CASE n.by # v
    <3>1. n \in Lines(b) /\ o \in Lines(b)
      BY <1>6, <1>9, <2>2
    <3> QED BY <1>3, <1>9, <3>1
  <2> QED BY <2>1, <2>2
<1> HIDE DEF N, same, less, v
<1>10. /\ N \in SUBSET CartLine
       /\ \A n \in N : \E l \in Lines(b) : l.by = n.by /\ l.product = n.product
       /\ \A n \in N : n.quantity <= Went(f, n.by)
  BY <1>6
<1> QED BY <1>1, <1>2, <1>8, <1>9, <1>10, LinesWritten

(* An addition that is done goes to the line of v.                         *)
LEMMA AdditionCounts ==
  ASSUME CartInv, NEW b \in Bots, bot[b].step \in {"found", "insert"}, Asked(b).kind = "add",
         bot'[b] = Resting, \A c \in Bots \ {b} : bot'[c] = bot[c], seen' = seen,
         \A u \in DOMAIN Updates : AtWork(u)' => AtWork(u), CartTyped', LinesRight',
         NEW v \in DOMAIN Updates, Updates[v].guest = Asked(b).guest, Updates[v].product = Asked(b).product,
         NEW f \in [DOMAIN Updates -> Nat], Shared(f),
         \A k \in DOMAIN carts' : \A n \in carts'[k].lines :
           \/ n.quantity <= Went(f, n.by)
           \/ n.by = v /\ n.quantity <= Went(f, v) + Asked(b).quantity
  PROVE  \E g \in [DOMAIN Updates -> Nat] : Shared(g)'
<1>0. PICK u : u = bot[b].update
  OBVIOUS
<1>1. CartTyped /\ UpdatesApart /\ seen \in SUBSET DOMAIN Updates
  BY DEF CartInv, CartTyped
<1>2. u \in DOMAIN Updates
  BY <1>0, <1>1, BotHas
<1>3. At(b, u) /\ AtWork(u) /\ u \in seen
  BY <1>0, <1>1, <1>2 DEF At, AtWork, UpdatesApart
<1>4. ~AtWork(u)'
  <2>1. ASSUME NEW c \in Bots, At(c, u)' PROVE FALSE
    <3>1. bot'[c].step \in {"find", "found", "insert"} /\ bot'[c].update = u
      BY <2>1 DEF At
    <3>2. c # b
      BY <3>1 DEF Resting
    <3>3. At(c, u)
      BY <3>1, <3>2 DEF At
    <3> QED BY <1>1, <1>2, <1>3, <3>2, <3>3 DEF UpdatesApart
  <2> QED BY <2>1 DEF AtWork
<1>5. f[u] = 0
  BY <1>2, <1>3 DEF Shared
<1>6. v \in Nat \ {0}
  BY UpdatesHave
<1>7. Updates[u] = Asked(b)
  BY <1>0 DEF Asked
<1>8. PICK g : g = [f EXCEPT ![u] = v]
  OBVIOUS
<1>9. /\ g \in [DOMAIN Updates -> Nat] /\ Went(g, v) = Went(f, v) + Updates[u].quantity
      /\ \A w : w # 0 => Went(g, w) >= Went(f, w)
  BY <1>2, <1>5, <1>6, <1>8, WentMore
<1>10. g[u] = v /\ \A x \in DOMAIN Updates \ {u} : g[x] = f[x]
  BY <1>2, <1>8
<1>11. ASSUME NEW x \in DOMAIN Updates, g[x] # 0
       PROVE  /\ x \in seen' /\ ~AtWork(x)' /\ Updates[x].kind = "add"
              /\ g[x] \in DOMAIN Updates
              /\ Updates[g[x]].guest = Updates[x].guest
              /\ Updates[g[x]].product = Updates[x].product
  <2>1. CASE x = u
    BY <1>3, <1>4, <1>7, <1>10, <2>1
  <2>2. CASE x # u
    <3>1. g[x] = f[x]
      BY <1>10, <2>2
    <3>2. /\ x \in seen /\ ~AtWork(x) /\ Updates[x].kind = "add"
          /\ f[x] \in DOMAIN Updates
          /\ Updates[f[x]].guest = Updates[x].guest
          /\ Updates[f[x]].product = Updates[x].product
      BY <1>11, <3>1 DEF Shared
    <3> QED BY <3>1, <3>2
  <2> QED BY <2>1, <2>2
<1>12. \A w : Went(f, w) \in Nat /\ Went(g, w) \in Nat
  BY WentNat
<1>13. ASSUME NEW k \in DOMAIN carts', NEW n \in carts'[k].lines PROVE n.quantity <= Went(g, n.by)
  <2>0. n.quantity \in Nat
    <3>1. carts' \in Seq(Cart)
      BY DEF CartTyped
    <3>2. carts'[k] \in Cart
      BY <3>1
    <3>3. n \in CartLine
      BY <3>2 DEF Cart
    <3> QED BY <3>3, CustomerAssumption DEF CartLine
  <2>1. n.by # 0
    <3>1. n.by \in seen
      BY DEF LinesRight, Stems
    <3> QED BY <1>1, <3>1, UpdatesHave
  <2>2. CASE n.quantity <= Went(f, n.by)
    BY <1>9, <1>12, <2>0, <2>1, <2>2
  <2>3. CASE n.by = v /\ n.quantity <= Went(f, v) + Asked(b).quantity
    BY <1>7, <1>9, <1>12, <2>0, <2>3
  <2> QED BY <2>2, <2>3
<1>14. ASSUME NEW c \in Bots, bot'[c].step = "read" PROVE bot'[c].quantity <= Went(g, bot'[c].by)
  <2>1. c # b
    BY <1>14 DEF Resting
  <2>2. bot'[c] = bot[c] /\ bot[c].step = "read"
    BY <1>14, <2>1
  <2>3. bot[c].quantity <= Went(f, bot[c].by) /\ bot[c].by # 0 /\ bot[c].quantity \in Nat
    <3>1. bot[c].by \in Nat \ {0} /\ bot[c].quantity \in 1..PerLine
      BY <1>1, <2>2, BotHas
    <3>2. bot[c].quantity <= Went(f, bot[c].by)
      BY <2>2 DEF Shared
    <3> QED BY <3>1, <3>2, CustomerAssumption
  <2> QED BY <1>9, <1>12, <2>2, <2>3
<1>15. \A w : Went(g, w)' = Went(g, w)
  BY DEF Went, Asking
<1>16. Shared(g)'
  BY <1>11, <1>13, <1>14, <1>15 DEF Shared
<1> QED BY <1>9, <1>16

LEMMA CappedFits ==
  ASSUME NEW n \in Nat \ {0}
  PROVE  Capped(n) \in 1..PerLine /\ Capped(n) <= n
BY CustomerAssumption DEF Capped

LEMMA BumpKeeps ==
  ASSUME CartInv, NEW b \in Bots, bot[b].step \in {"found", "insert"}, Asked(b).kind = "add",
         BumpLine(b), UNCHANGED <<placed, seen, tries>>
  PROVE  CartInv'
<1> DEFINE k == bot[b].cart
           q == Asked(b).quantity
           Bumped(x) == [x EXCEPT !.quantity = Capped(@ + q)]
           N == (Lines(b) \ OfProduct(b)) \cup {Bumped(x) : x \in OfProduct(b)}
<1>1. AtCart(b) /\ Rests(b) /\ Writes(b, N) /\ OfProduct(b) # {}
  BY DEF AtCart, BumpLine
<1>2. /\ k \in DOMAIN carts /\ Lines(b) \in SUBSET CartLine /\ IsFiniteSet(Lines(b))
      /\ \A l, n \in Lines(b) : l.by = n.by \/ l.product = n.product => l = n
      /\ \A l \in Lines(b) : Stems(k, l)
      /\ \A f : Shared(f) => \A l \in Lines(b) : l.quantity <= Went(f, l.by)
  BY <1>1, LinesHave
<1>3. PICK l \in Lines(b) : l.product = Asked(b).product /\ OfProduct(b) = {l}
  <2>1. PICK l \in OfProduct(b) : TRUE
    BY <1>1
  <2>2. \A n \in OfProduct(b) : n \in Lines(b) /\ n.product = Asked(b).product
    BY DEF OfProduct
  <2>3. OfProduct(b) = {l}
    BY <1>2, <2>1, <2>2
  <2> QED BY <2>1, <2>2, <2>3
<1>4. CartTyped /\ seen \in SUBSET DOMAIN Updates /\ LinesRight /\ BotRight(b)
  BY DEF CartInv, CartTyped
<1>5. q \in Nat \ {0}
  <2>1. bot[b].update \in DOMAIN Updates
    BY <1>4, BotHas
  <2> QED BY <2>1, UpdatesHave DEF Asked
<1> DEFINE n == Bumped(l)
<1>6. N = (Lines(b) \ {l}) \cup {n}
  BY <1>3
<1>7. /\ n \in CartLine /\ n.by = l.by /\ n.product = l.product
      /\ n.quantity = Capped(l.quantity + q) /\ l.quantity \in Nat \ {0}
  <2>1. l \in CartLine
    BY <1>2
  <2>2. l.quantity \in 1..PerLine /\ l.quantity \in Nat \ {0}
    BY <2>1, CustomerAssumption DEF CartLine
  <2>3. l.quantity + q \in Nat \ {0}
    BY <1>5, <2>2
  <2> HIDE DEF q
  <2>4. Capped(l.quantity + q) \in 1..PerLine
    BY <2>3, CappedFits
  <2>5. n.by = l.by /\ n.product = l.product /\ n.quantity = Capped(l.quantity + q)
    BY <2>1 DEF CartLine
  <2>6. n \in CartLine
    BY <2>1, <2>4 DEF CartLine
  <2> QED BY <2>2, <2>5, <2>6
<1>8. n.quantity <= l.quantity + q
  <2>1. l.quantity + q \in Nat \ {0}
    BY <1>5, <1>7
  <2> HIDE DEF n, q
  <2> QED BY <1>7, <2>1, CappedFits
<1> HIDE DEF n, N, q, k
<1>9. N \in SUBSET CartLine /\ IsFiniteSet(N)
  <2>1. IsFiniteSet(Lines(b) \ {l})
    BY <1>2, FS_RemoveElement
  <2>2. IsFiniteSet((Lines(b) \ {l}) \cup {n})
    BY <2>1, FS_AddElement
  <2> QED BY <1>2, <1>6, <1>7, <2>2
<1>10. /\ CartTyped' /\ (\A c \in Bots : BotRight(c))' /\ OnePays' /\ UpdatesApart'
       /\ OneCart' /\ OrderedOnce' /\ (\A i \in DOMAIN placed : OrderRight(i))'
       /\ DOMAIN carts' = DOMAIN carts
       /\ carts'[k].lines = N
       /\ \A m \in DOMAIN carts : /\ carts'[m].guest = carts[m].guest
                                  /\ m # k => carts'[m].lines = carts[m].lines
       /\ bot'[b] = Resting /\ \A c \in Bots \ {b} : bot'[c] = bot[c]
       /\ \A u \in DOMAIN Updates : AtWork(u)' => AtWork(u)
  BY <1>1, <1>9, WritesFrame DEF k
<1>11. carts[k].lines = Lines(b)
  BY DEF Lines, k
<1>12. LinesRight'
  <2>1. ASSUME NEW m \in DOMAIN carts', NEW o \in carts'[m].lines
        PROVE  m \in DOMAIN carts /\ \E x \in carts[m].lines : x.by = o.by /\ x.product = o.product
    <3>1. CASE m = k
      BY <1>2, <1>6, <1>7, <1>10, <1>11, <3>1
    <3>2. CASE m # k
      BY <1>10, <3>2
    <3> QED BY <3>1, <3>2
  <2>2. ASSUME NEW m \in DOMAIN carts', NEW o \in carts'[m].lines, NEW p \in carts'[m].lines, o.by = p.by
        PROVE  o = p
    <3>1. CASE m = k
      BY <1>2, <1>6, <1>7, <1>10, <2>2, <3>1
    <3>2. CASE m # k
      BY <1>4, <1>10, <2>2, <3>2 DEF LinesRight
    <3> QED BY <3>1, <3>2
  <2>3. seen \subseteq seen' /\ \A u \in seen : AtWork(u)' => AtWork(u)
    BY <1>4, <1>10
  <2> QED BY <1>4, <1>10, <2>1, <2>2, <2>3, LinesKept
<1>13. PICK f \in [DOMAIN Updates -> Nat] : Shared(f)
  BY DEF CartInv
<1>14. l.by \in DOMAIN Updates /\ Updates[l.by].guest = Asked(b).guest
       /\ Updates[l.by].product = Asked(b).product
  <2>1. Stems(k, l)
    BY <1>2
  <2>2. carts[k].guest = Asked(b).guest
    BY <1>4 DEF BotRight, k
  <2> QED BY <1>3, <1>4, <2>1, <2>2 DEF Stems
<1>15. l.quantity <= Went(f, l.by) /\ Went(f, l.by) \in Nat
  BY <1>2, <1>13, WentNat
<1>16. ASSUME NEW m \in DOMAIN carts', NEW o \in carts'[m].lines
       PROVE  \/ o.quantity <= Went(f, o.by)
              \/ o.by = l.by /\ o.quantity <= Went(f, l.by) + Asked(b).quantity
  <2>1. CASE m = k /\ o = n
    <3>1. n.quantity \in Nat
      BY <1>7, CustomerAssumption DEF CartLine
    <3> QED BY <1>5, <1>7, <1>8, <1>15, <2>1, <3>1 DEF q
  <2>2. CASE m = k /\ o # n
    BY <1>2, <1>6, <1>10, <1>13, <2>2
  <2>3. CASE m # k
    BY <1>10, <1>13, <2>3 DEF Shared
  <2> QED BY <2>1, <2>2, <2>3
<1>17. \E g \in [DOMAIN Updates -> Nat] : Shared(g)'
  BY <1>10, <1>12, <1>13, <1>14, <1>16, AdditionCounts
<1> QED BY <1>10, <1>12, <1>17 DEF CartInv

LEMMA InsertionKeeps ==
  ASSUME CartInv, NEW b \in Bots, InsertLine(b)
  PROVE  CartInv'
<1>0. PICK k, u : k = bot[b].cart /\ u = bot[b].update
  OBVIOUS
<1> DEFINE n == [product |-> Asked(b).product, by |-> u, price |-> bot[b].price,
                 quantity |-> Capped(Asked(b).quantity)]
           N == Lines(b) \cup {n}
<1>1. /\ AtCart(b) /\ bot[b].step = "insert" /\ Asked(b).kind = "add" /\ UNCHANGED <<placed, seen, tries>>
      /\ BumpLine(b) \/ (OfProduct(b) = {} /\ Writes(b, N) /\ Rests(b))
  BY <1>0 DEF InsertLine, Does, AtCart
<1>2. CASE BumpLine(b)
  BY <1>1, <1>2, BumpKeeps
<1>3. CASE OfProduct(b) = {} /\ Writes(b, N) /\ Rests(b)
  <2>1. /\ k \in DOMAIN carts /\ Lines(b) \in SUBSET CartLine /\ IsFiniteSet(Lines(b))
        /\ \A l, m \in Lines(b) : l.by = m.by \/ l.product = m.product => l = m
        /\ \A l \in Lines(b) : Stems(k, l)
    BY <1>0, <1>1, LinesHave
  <2>2. CartTyped /\ seen \in SUBSET DOMAIN Updates /\ LinesRight /\ BotRight(b) /\ UpdatesApart
    BY DEF CartInv, CartTyped
  <2>3. u \in DOMAIN Updates /\ bot[b].price \in Nat
    BY <1>0, <1>1, <2>2, BotHas
  <2>4. Updates[u] = Asked(b) /\ At(b, u) /\ AtWork(u) /\ u \in seen
    BY <1>0, <1>1, <2>2, <2>3 DEF Asked, At, AtWork, UpdatesApart
  <2>5. /\ u \in Nat \ {0} /\ Asked(b).product \in Products /\ Asked(b).quantity \in Nat \ {0}
    BY <2>3, <2>4, UpdatesHave
  <2>6. /\ Capped(Asked(b).quantity) \in 1..PerLine /\ Capped(Asked(b).quantity) <= Asked(b).quantity
    BY <2>5, CappedFits
  <2>7. /\ n \in CartLine /\ n.by = u /\ n.product = Asked(b).product
        /\ n.quantity = Capped(Asked(b).quantity)
    BY <2>3, <2>5, <2>6 DEF CartLine
  <2>8. \A l \in Lines(b) : l.product # n.product
    BY <1>3, <2>7 DEF OfProduct
  <2>9. N \in SUBSET CartLine /\ IsFiniteSet(N)
    <3> HIDE DEF n
    <3> QED BY <2>1, <2>7, FS_AddElement
  <2>10. carts[k].lines = Lines(b)
    BY <1>0 DEF Lines
  <2>11. carts[k].guest = Asked(b).guest
    BY <1>0, <1>1, <2>2 DEF BotRight
  <2>12. N = Lines(b) \cup {n}
    OBVIOUS
  <2> HIDE DEF n, N
  <2>13. /\ CartTyped' /\ (\A c \in Bots : BotRight(c))' /\ OnePays' /\ UpdatesApart'
         /\ OneCart' /\ OrderedOnce' /\ (\A i \in DOMAIN placed : OrderRight(i))'
         /\ DOMAIN carts' = DOMAIN carts
         /\ carts'[k].lines = N
         /\ \A m \in DOMAIN carts : /\ carts'[m].guest = carts[m].guest
                                    /\ m # k => carts'[m].lines = carts[m].lines
         /\ bot'[b] = Resting /\ \A c \in Bots \ {b} : bot'[c] = bot[c]
         /\ \A x \in DOMAIN Updates : AtWork(x)' => AtWork(x)
    BY <1>0, <1>1, <1>3, <2>9, WritesFrame
  <2>14. ~AtWork(u)'
    <3>1. ASSUME NEW c \in Bots, At(c, u)' PROVE FALSE
      <4>1. bot'[c].step \in {"find", "found", "insert"} /\ bot'[c].update = u
        BY <3>1 DEF At
      <4>2. c # b
        BY <2>13, <4>1 DEF Resting
      <4>3. At(c, u)
        BY <2>13, <4>1, <4>2 DEF At
      <4> QED BY <2>2, <2>3, <2>4, <4>2, <4>3 DEF UpdatesApart
    <3> QED BY <3>1 DEF AtWork
  <2>15. ASSUME NEW m \in DOMAIN carts', NEW o \in carts'[m].lines
         PROVE  \/ o = n /\ m = k
                \/ m \in DOMAIN carts /\ o \in carts[m].lines /\ Stems(m, o) /\ o.by # u
    <3>1. CASE m = k /\ o = n
      BY <3>1
    <3>2. CASE ~(m = k /\ o = n)
      <4>1. m \in DOMAIN carts /\ o \in carts[m].lines
        BY <2>10, <2>12, <2>13, <3>2
      <4>2. Stems(m, o)
        BY <2>2, <4>1 DEF LinesRight
      <4> QED BY <2>4, <4>1, <4>2 DEF Stems
    <3> QED BY <3>1, <3>2
  <2>16. LinesRight'
    <3>1. ASSUME NEW m \in DOMAIN carts', NEW o \in carts'[m].lines PROVE Stems(m, o)'
      <4>1. CASE o = n /\ m = k
        BY <1>1, <2>1, <2>4, <2>7, <2>11, <2>13, <2>14, <4>1 DEF Stems
      <4>2. CASE m \in DOMAIN carts /\ o \in carts[m].lines /\ Stems(m, o) /\ o.by # u
        <5>1. o.by \in DOMAIN Updates
          BY <2>2, <4>2 DEF Stems
        <5> QED BY <1>1, <2>13, <4>2, <5>1 DEF Stems
      <4> QED BY <2>15, <4>1, <4>2
    <3>2. ASSUME NEW m \in DOMAIN carts', NEW j \in DOMAIN carts',
                 NEW o \in carts'[m].lines, NEW p \in carts'[j].lines,
                 o.by = p.by \/ (m = j /\ o.product = p.product)
          PROVE  m = j /\ o = p
      <4>1. CASE (o = n /\ m = k) /\ (p = n /\ j = k)
        BY <4>1
      <4>2. CASE (o = n /\ m = k) /\ j \in DOMAIN carts /\ p \in carts[j].lines /\ p.by # u
        BY <2>7, <2>8, <2>10, <3>2, <4>2
      <4>3. CASE (p = n /\ j = k) /\ m \in DOMAIN carts /\ o \in carts[m].lines /\ o.by # u
        BY <2>7, <2>8, <2>10, <3>2, <4>3
      <4>4. CASE m \in DOMAIN carts /\ j \in DOMAIN carts /\ o \in carts[m].lines /\ p \in carts[j].lines
        BY <2>2, <3>2, <4>4 DEF LinesRight
      <4> QED BY <2>15, <4>1, <4>2, <4>3, <4>4
    <3> QED BY <3>1, <3>2 DEF LinesRight
  <2>17. PICK f \in [DOMAIN Updates -> Nat] : Shared(f)
    BY DEF CartInv
  <2>18. ASSUME NEW m \in DOMAIN carts', NEW o \in carts'[m].lines
         PROVE  \/ o.quantity <= Went(f, o.by)
                \/ o.by = u /\ o.quantity <= Went(f, u) + Asked(b).quantity
    <3>1. CASE o = n /\ m = k
      <4>1. n.quantity <= Asked(b).quantity /\ n.quantity \in Nat
        BY <2>6, <2>7, CustomerAssumption
      <4>2. Went(f, u) \in Nat
        BY WentNat
      <4> QED BY <2>5, <2>7, <3>1, <4>1, <4>2
    <3>2. CASE m \in DOMAIN carts /\ o \in carts[m].lines
      BY <2>17, <3>2 DEF Shared
    <3> QED BY <2>15, <3>1, <3>2
  <2>19. \E g \in [DOMAIN Updates -> Nat] : Shared(g)'
    <3>1. /\ bot[b].step \in {"found", "insert"} /\ seen' = seen
          /\ Updates[u].guest = Asked(b).guest /\ Updates[u].product = Asked(b).product
      BY <1>1, <2>4
    <3> QED BY <1>0, <1>1, <2>3, <2>13, <2>16, <2>17, <2>18, <3>1, AdditionCounts
  <2> QED BY <2>13, <2>16, <2>19 DEF CartInv
<1> QED BY <1>1, <1>2, <1>3

(* One bot goes on, and the carts and orders stay.                         *)
LEMMA BotGoes ==
  ASSUME CartInv, NEW b \in Bots, NEW x \in BotStates, bot' = [bot EXCEPT ![b] = x],
         UNCHANGED <<carts, placed>>, tries' \in Nat, seen' \in SUBSET DOMAIN Updates, seen \subseteq seen',
         UpdatesApart', \A u \in seen : AtWork(u)' => AtWork(u),
         BotRight(b)', \A k \in DOMAIN carts, c \in Bots \ {b} : Pays(b, k)' => ~Pays(c, k),
         x.step = "read" => \A f : Shared(f) => x.quantity <= Went(f, x.by)
  PROVE  CartInv'
<1>1. /\ CartTyped /\ OnePays /\ UpdatesApart /\ OneCart /\ OrderedOnce /\ LinesRight
      /\ \A c \in Bots : BotRight(c)
      /\ \A i \in DOMAIN placed : OrderRight(i)
  BY DEF CartInv
<1>2. /\ bot' \in [Bots -> BotStates] /\ bot'[b] = x /\ \A c \in Bots \ {b} : bot'[c] = bot[c]
  BY <1>1 DEF CartTyped
<1>3. CartTyped'
  BY <1>1, <1>2 DEF CartTyped
<1>4. (\A c \in Bots : BotRight(c))' /\ OnePays'
  <2>1. \A k \in DOMAIN carts, c \in Bots \ {b} : Pays(c, k) => carts'[k].active
    BY <1>1 DEF Pays, BotRight
  <2>2. \A k \in DOMAIN carts : k \in DOMAIN carts' /\ carts'[k].guest = carts[k].guest
    OBVIOUS
  <2>3. \A k \in DOMAIN carts', c \in Bots \ {b} : Pays(b, k)' => ~Pays(c, k)
    OBVIOUS
  <2> QED BY <1>1, <1>2, <2>1, <2>2, <2>3, RightAgain
<1>5. OneCart' /\ OrderedOnce' /\ (\A i \in DOMAIN placed : OrderRight(i))'
  <2>1. /\ DOMAIN carts' = DOMAIN carts /\ Len(carts') = Len(carts) /\ UNCHANGED placed
        /\ \A k \in DOMAIN carts : carts'[k].guest = carts[k].guest /\ carts'[k].active = carts[k].active
    OBVIOUS
  <2> QED BY <1>1, <2>1, OrdersRest
<1>6. LinesRight'
  <2>1. \A k \in DOMAIN carts' : \A n \in carts'[k].lines :
          k \in DOMAIN carts /\ \E l \in carts[k].lines : l.by = n.by /\ l.product = n.product
    OBVIOUS
  <2>2. \A k \in DOMAIN carts' : \A n, o \in carts'[k].lines : n.by = o.by => n = o
    BY <1>1 DEF LinesRight
  <2>3. \A k \in DOMAIN carts : carts'[k].guest = carts[k].guest
    OBVIOUS
  <2> QED BY <1>1, <2>1, <2>2, <2>3, LinesKept
<1>7. PICK f \in [DOMAIN Updates -> Nat] : Shared(f)
  BY DEF CartInv
<1>8. Shared(f)'
  <2>1. \A k \in DOMAIN carts' : \A n \in carts'[k].lines : n.quantity <= Went(f, n.by)
    BY <1>7 DEF Shared
  <2>2. ASSUME NEW c \in Bots, bot'[c].step = "read" PROVE bot'[c].quantity <= Went(f, bot'[c].by)
    <3>1. CASE c = b
      BY <1>2, <1>7, <2>2, <3>1
    <3>2. CASE c # b
      BY <1>2, <1>7, <2>2, <3>2 DEF Shared
    <3> QED BY <3>1, <3>2
  <2> QED BY <1>7, <2>1, <2>2, SharedAgain
<1> QED BY <1>3, <1>4, <1>5, <1>6, <1>7, <1>8 DEF CartInv

(* The same of a bot that keeps its update.                                *)
LEMMA BotGoesOn ==
  ASSUME CartInv, NEW b \in Bots, NEW x \in BotStates, bot' = [bot EXCEPT ![b] = x],
         UNCHANGED <<carts, placed, seen, tries>>,
         x.step \in {"find", "found", "insert"} => At(b, x.update),
         x.step \in {"found", "insert", "read", "checkout"} => AtCart(b) /\ x.cart = bot[b].cart,
         x.step \in {"found", "insert"} => bot[b].step \in {"found", "insert"},
         x.step = "checkout" => ~CartLocked(x.cart) /\ carts[x.cart].active /\ x.lines # {},
         x.step = "read" => \A f : Shared(f) => x.quantity <= Went(f, x.by)
  PROVE  CartInv'
<1>1. CartTyped /\ UpdatesApart /\ BotRight(b)
  BY DEF CartInv
<1>2. /\ bot'[b] = x /\ UpdatesApart' /\ \A u \in DOMAIN Updates : AtWork(u)' => AtWork(u)
  <2>1. seen \subseteq seen'
    OBVIOUS
  <2> QED BY <1>1, <2>1, OneBotMoves
<1>3. BotRight(b)'
  <2>1. AtCart(b)' => bot'[b].cart \in DOMAIN carts'
    BY <1>1, <1>2 DEF AtCart, BotRight
  <2>2. bot'[b].step \in {"found", "insert"} => carts'[bot'[b].cart].guest = Asked(b)'.guest
    <3>1. ASSUME x.step \in {"found", "insert"} PROVE x.update = bot[b].update
      BY <3>1 DEF At
    <3> QED BY <1>1, <1>2, <3>1 DEF Asked, BotRight
  <2>3. bot'[b].step = "checkout" => carts'[bot'[b].cart].active /\ bot'[b].lines # {}
    BY <1>2
  <2> QED BY <2>1, <2>2, <2>3 DEF BotRight
<1>4. \A k \in DOMAIN carts, c \in Bots \ {b} : Pays(b, k)' => ~Pays(c, k)
  BY <1>2 DEF Pays, CartLocked
<1>5. /\ tries' \in Nat /\ seen' \in SUBSET DOMAIN Updates /\ seen \subseteq seen'
      /\ UNCHANGED <<carts, placed>> /\ \A u \in seen : AtWork(u)' => AtWork(u)
  BY <1>1, <1>2 DEF CartTyped
<1> QED BY <1>2, <1>3, <1>4, <1>5, BotGoes

LEMMA RestKeeps ==
  ASSUME CartInv, NEW b \in Bots, Rests(b), UNCHANGED <<carts, placed, seen, tries>>
  PROVE  CartInv'
<1>1. Resting \in BotStates /\ bot' = [bot EXCEPT ![b] = Resting] /\ Resting.step = "idle"
  BY DEF Rests, BotStates, Resting
<1> QED BY <1>1, BotGoesOn

LEMMA CountKeeps ==
  ASSUME CartInv, NEW b \in Bots, CountLines(b)
  PROVE  CartInv'
<1>1. /\ bot[b].step = "found" /\ Asked(b).kind = "add" /\ UNCHANGED <<placed, seen, tries>>
      /\ BumpLine(b) \/ (UNCHANGED carts /\ (Rests(b) \/ bot' = [bot EXCEPT ![b].step = "insert"]))
  BY DEF CountLines, Does, Rests
<1>2. CASE BumpLine(b)
  BY <1>1, <1>2, BumpKeeps
<1>3. CASE UNCHANGED carts /\ Rests(b)
  BY <1>1, <1>3, RestKeeps
<1>4. CASE UNCHANGED carts /\ bot' = [bot EXCEPT ![b].step = "insert"]
  <2> DEFINE x == [bot[b] EXCEPT !.step = "insert"]
  <2>1. bot[b] \in [step : {"found", "insert"}, update : DOMAIN Updates, price : Nat, cart : Nat]
    <3>1. bot[b] \in BotStates
      BY DEF CartInv, CartTyped
    <3> QED BY <1>1, <3>1 DEF BotStates, Resting
  <2>2. /\ x \in [step : {"found", "insert"}, update : DOMAIN Updates, price : Nat, cart : Nat]
        /\ x.step = "insert" /\ x.update = bot[b].update /\ x.cart = bot[b].cart
    BY <2>1
  <2>3. bot' = [bot EXCEPT ![b] = x]
    BY <1>4
  <2> HIDE DEF x
  <2>4. x \in BotStates
    BY <2>2 DEF BotStates
  <2>5. At(b, x.update) /\ AtCart(b)
    BY <1>1, <2>2 DEF At, AtCart
  <2> QED BY <1>1, <1>4, <2>2, <2>3, <2>4, <2>5, BotGoesOn
<1> QED BY <1>1, <1>2, <1>3, <1>4

LEMMA ReadingKeeps ==
  ASSUME CartInv, NEW b \in Bots, ReadLine(b)
  PROVE  CartInv'
<1>1. bot[b].step = "found" /\ AtCart(b) /\ UNCHANGED <<carts, placed, seen, tries>>
  BY DEF ReadLine, Does, AtCart
<1>2. CASE OfProduct(b) = {}
  <2>1. Rests(b)
    BY <1>2 DEF ReadLine, Rests
  <2> QED BY <1>1, <2>1, RestKeeps
<1>3. CASE OfProduct(b) # {}
  <2> DEFINE c == CHOOSE l \in OfProduct(b) : TRUE
  <2>1. c \in Lines(b)
    <3>1. c \in OfProduct(b)
      BY <1>3
    <3> QED BY <3>1 DEF OfProduct
  <2>2. bot' = [bot EXCEPT ![b] = [step |-> "read", update |-> bot[b].update, cart |-> bot[b].cart,
                                   by |-> c.by, quantity |-> c.quantity]]
    BY <1>3 DEF ReadLine
  <2> HIDE DEF c
  <2>3. PICK l \in Lines(b) : l = c
    BY <2>1
  <2> DEFINE x == [step |-> "read", update |-> bot[b].update, cart |-> bot[b].cart,
                   by |-> l.by, quantity |-> l.quantity]
  <2>4. bot' = [bot EXCEPT ![b] = x]
    BY <2>2, <2>3
  <2>5. /\ l \in CartLine /\ Stems(bot[b].cart, l)
        /\ \A f : Shared(f) => l.quantity <= Went(f, l.by)
    BY <1>1, LinesHave
  <2>6. l.by \in Nat \ {0} /\ l.quantity \in 1..PerLine
    <3>1. l.by \in DOMAIN Updates
      BY <2>5 DEF Stems, CartInv, CartTyped
    <3> QED BY <2>5, <3>1, UpdatesHave DEF CartLine
  <2>7. bot[b].update \in DOMAIN Updates /\ bot[b].cart \in Nat
    BY <1>1, BotHas DEF CartInv
  <2>8. x \in BotStates
    <3>1. x \in [step : {"read"}, update : DOMAIN Updates, cart : Nat, by : Nat \ {0},
                 quantity : 1..PerLine]
      BY <2>6, <2>7
    <3> HIDE DEF x
    <3> QED BY <3>1 DEF BotStates
  <2>9. x.step = "read" /\ x.cart = bot[b].cart /\ x.by = l.by /\ x.quantity = l.quantity
    OBVIOUS
  <2> HIDE DEF x
  <2>10. \A f : Shared(f) => x.quantity <= Went(f, x.by)
    BY <2>5, <2>9
  <2> QED BY <1>1, <2>4, <2>8, <2>9, <2>10, BotGoesOn
<1> QED BY <1>2, <1>3

LEMMA LockingKeeps ==
  ASSUME CartInv, NEW b \in Bots, LockCart(b)
  PROVE  CartInv'
<1>1. /\ bot[b].step = "found" /\ AtCart(b) /\ ~CartLocked(bot[b].cart)
      /\ UNCHANGED <<carts, placed, seen, tries>>
  BY DEF LockCart, Does, AtCart
<1>2. CASE Refused(b)
  <2>1. Rests(b)
    BY <1>2 DEF LockCart, Rests
  <2> QED BY <1>1, <2>1, RestKeeps
<1>3. CASE ~Refused(b)
  <2> DEFINE x == [step |-> "checkout", update |-> bot[b].update, cart |-> bot[b].cart, lines |-> Lines(b)]
  <2>1. bot' = [bot EXCEPT ![b] = x]
    BY <1>3 DEF LockCart
  <2>2. carts[bot[b].cart].active /\ Lines(b) # {}
    BY <1>3 DEF Refused, Lines
  <2>3. Lines(b) \in SUBSET CartLine
    BY <1>1, LinesHave
  <2>4. bot[b].update \in DOMAIN Updates /\ bot[b].cart \in Nat
    BY <1>1, BotHas DEF CartInv
  <2>5. x \in BotStates
    <3>1. x \in [step : {"checkout"}, update : DOMAIN Updates, cart : Nat, lines : SUBSET CartLine]
      BY <2>3, <2>4
    <3> HIDE DEF x
    <3> QED BY <3>1 DEF BotStates
  <2>6. x.step = "checkout" /\ x.cart = bot[b].cart /\ x.lines = Lines(b)
    OBVIOUS
  <2> HIDE DEF x
  <2> QED BY <1>1, <2>1, <2>2, <2>5, <2>6, BotGoesOn
<1> QED BY <1>2, <1>3

LEMMA TakingKeeps ==
  ASSUME CartInv, NEW b \in Bots, NEW u \in DOMAIN Updates, TakeUpdate(b, u)
  PROVE  CartInv'
<1>1. CartTyped /\ UpdatesApart /\ seen \in SUBSET DOMAIN Updates /\ tries \in Nat
  BY DEF CartInv, CartTyped
<1>2. /\ bot[b] = Resting /\ UNCHANGED <<carts, placed>> /\ tries' \in Nat
      /\ seen' = seen \cup {u} /\ seen' \in SUBSET DOMAIN Updates /\ seen \subseteq seen'
  BY <1>1 DEF TakeUpdate
<1>3. PICK price \in Menu(u) :
        bot' = IF Unseen(u) /\ price # Gone
               THEN [bot EXCEPT ![b] = [step |-> "find", update |-> u, price |-> price]]
               ELSE bot
  BY DEF TakeUpdate
<1>4. price \in Nat
  <2>1. \A x \in Prices : x \in Nat
    BY CustomerAssumption
  <2>2. price \in Prices \/ price \in {0, 1}
    BY DEF Menu, Gone
  <2>3. CASE price \in Prices
    BY <2>1, <2>3
  <2>4. CASE price \in {0, 1}
    BY <2>4
  <2> QED BY <2>2, <2>3, <2>4
<1>5. CASE bot' = bot
  <2>1. Resting \in BotStates /\ bot' = [bot EXCEPT ![b] = Resting] /\ Resting.step = "idle"
    BY <1>1, <1>2, <1>5 DEF CartTyped, BotStates, Resting
  <2>2. \A w : AtWork(w)' <=> AtWork(w)
    BY <1>5 DEF AtWork, At
  <2>3. UpdatesApart'
    BY <1>1, <1>2, <1>5 DEF UpdatesApart, AtWork, At
  <2>4. BotRight(b)' /\ \A k \in DOMAIN carts, c \in Bots \ {b} : Pays(b, k)' => ~Pays(c, k)
    BY <1>2, <1>5 DEF BotRight, AtCart, Pays, Resting
  <2> QED BY <1>2, <2>1, <2>2, <2>3, <2>4, BotGoes
<1>6. CASE u \notin seen /\ bot' = [bot EXCEPT ![b] = [step |-> "find", update |-> u, price |-> price]]
  <2> DEFINE x == [step |-> "find", update |-> u, price |-> price]
  <2>1. x \in BotStates
    <3>1. x \in [step : {"find"}, update : DOMAIN Updates, price : Nat]
      BY <1>4
    <3> HIDE DEF x
    <3> QED BY <3>1 DEF BotStates
  <2>2. x.step = "find" /\ x.update = u /\ bot' = [bot EXCEPT ![b] = x]
    BY <1>6
  <2> HIDE DEF x
  <2>3. bot'[b] = x /\ \A c \in Bots \ {b} : bot'[c] = bot[c]
    BY <1>1, <2>2 DEF CartTyped
  <2>4. ASSUME NEW c \in Bots, NEW w \in DOMAIN Updates, At(c, w)'
        PROVE  (c = b /\ w = u) \/ (c # b /\ w # u /\ At(c, w))
    <3>1. CASE c = b
      BY <2>2, <2>3, <2>4, <3>1 DEF At
    <3>2. CASE c # b
      <4>1. At(c, w)
        BY <2>3, <2>4, <3>2 DEF At
      <4>2. w \in seen
        BY <1>1, <4>1 DEF UpdatesApart, AtWork
      <4> QED BY <1>6, <3>2, <4>1, <4>2
    <3> QED BY <3>1, <3>2
  <2>5. ASSUME NEW w \in seen, AtWork(w)' PROVE AtWork(w)
    <3>1. w \in DOMAIN Updates /\ w # u
      BY <1>1, <1>6
    <3> QED BY <2>4, <2>5, <3>1 DEF AtWork
  <2>6. UpdatesApart'
    <3>1. ASSUME NEW w \in DOMAIN Updates, AtWork(w)' PROVE w \in seen'
      <4>1. PICK c \in Bots : At(c, w)'
        BY <3>1 DEF AtWork
      <4>2. CASE w = u
        BY <1>2, <4>2
      <4>3. CASE w # u
        BY <1>1, <1>2, <2>4, <4>1, <4>3 DEF UpdatesApart, AtWork
      <4> QED BY <4>2, <4>3
    <3>2. ASSUME NEW w \in DOMAIN Updates, NEW c \in Bots, NEW d \in Bots, At(c, w)', At(d, w)'
          PROVE  c = d
      <4>1. /\ (c = b /\ w = u) \/ (c # b /\ w # u /\ At(c, w))
            /\ (d = b /\ w = u) \/ (d # b /\ w # u /\ At(d, w))
        BY <2>4, <3>2
      <4> QED BY <1>1, <4>1 DEF UpdatesApart
    <3> QED BY <3>1, <3>2 DEF UpdatesApart
  <2>7. BotRight(b)' /\ \A k \in DOMAIN carts, c \in Bots \ {b} : Pays(b, k)' => ~Pays(c, k)
    BY <2>2, <2>3 DEF BotRight, AtCart, Pays
  <2> QED BY <1>2, <2>1, <2>2, <2>5, <2>6, <2>7, BotGoes
<1> QED BY <1>3, <1>5, <1>6 DEF Unseen

LEMMA Appended ==
  ASSUME NEW K, NEW s \in Seq(K), NEW e \in K, NEW t, t = Append(s, e)
  PROVE  /\ t \in Seq(K) /\ Len(s) \in Nat /\ Len(t) = Len(s) + 1 /\ DOMAIN s = 1..Len(s)
         /\ DOMAIN t = DOMAIN s \cup {Len(s) + 1} /\ Len(s) + 1 \notin DOMAIN s
         /\ t[Len(s) + 1] = e /\ \A i \in DOMAIN s : t[i] = s[i]
OBVIOUS

LEMMA FindingKeeps ==
  ASSUME CartInv, NEW b \in Bots, FindCart(b)
  PROVE  CartInv'
<1>0. PICK g, u, price, own :
        g = Asked(b).guest /\ u = bot[b].update /\ price = bot[b].price /\ own = Active(g)
  OBVIOUS
<1>1. /\ CartTyped /\ OnePays /\ UpdatesApart /\ OneCart /\ OrderedOnce /\ LinesRight
      /\ \A c \in Bots : BotRight(c)
      /\ \A i \in DOMAIN placed : OrderRight(i)
      /\ seen \in SUBSET DOMAIN Updates
  BY DEF CartInv, CartTyped
<1>2. /\ bot[b].step = "find" /\ UNCHANGED <<placed, seen, tries>>
      /\ carts' = IF own # {} THEN carts ELSE Append(carts, [guest |-> g, active |-> TRUE, lines |-> {}])
      /\ bot' = [bot EXCEPT ![b] =
           [step |-> "found", update |-> u, price |-> price,
            cart |-> IF own = {} THEN Len(carts) + 1 ELSE CHOOSE k \in own : TRUE]]
  BY <1>0 DEF FindCart
<1>3. u \in DOMAIN Updates /\ price \in Nat /\ g \in Guests /\ Updates[u].guest = g /\ At(b, u)
  <2>1. u \in DOMAIN Updates /\ price \in Nat /\ Updates[u].guest = g /\ At(b, u)
    BY <1>0, <1>1, <1>2, BotHas DEF Asked, At
  <2> QED BY <2>1, UpdatesHave
<1>4. PICK k : k = IF own = {} THEN Len(carts) + 1 ELSE CHOOSE m \in own : TRUE
  OBVIOUS
<1>5. carts \in Seq(Cart) /\ Len(carts) \in Nat
  BY <1>1 DEF CartTyped
<1>6. PICK x : x = [step |-> "found", update |-> u, price |-> price, cart |-> k]
  OBVIOUS
<1>7. bot' = [bot EXCEPT ![b] = x]
  BY <1>2, <1>4, <1>6
<1>8. own # {} => k \in DOMAIN carts /\ carts[k].guest = g
  BY <1>0, <1>4 DEF Active
<1>9. k \in Nat
  BY <1>1, <1>4, <1>5, <1>8, CartsHave
<1>10. x \in BotStates /\ x.step = "found" /\ x.update = u /\ x.cart = k
  <2>1. /\ x \in [step : {"found", "insert"}, update : DOMAIN Updates, price : Nat, cart : Nat]
        /\ x.step = "found" /\ x.update = u /\ x.cart = k
    BY <1>3, <1>6, <1>9
  <2> QED BY <2>1 DEF BotStates
<1>11. /\ bot' \in [Bots -> BotStates] /\ bot'[b] = x /\ \A c \in Bots \ {b} : bot'[c] = bot[c]
       /\ \A w \in DOMAIN Updates : AtWork(w)' => AtWork(w)
       /\ UpdatesApart'
  <2>1. seen \subseteq seen' /\ At(b, x.update)
    BY <1>2, <1>3, <1>10
  <2> QED BY <1>1, <1>7, <1>10, <2>1, OneBotMoves
<1>12. \A c \in Bots \ {b} : \A m : Pays(b, m)' => ~Pays(c, m)
  BY <1>10, <1>11 DEF Pays
<1>13. \A w \in seen : AtWork(w)' => AtWork(w)
  BY <1>1, <1>11
<1>14. CASE own # {}
  <2>1. /\ UNCHANGED <<carts, placed>> /\ tries' \in Nat
        /\ seen' \in SUBSET DOMAIN Updates /\ seen \subseteq seen'
    BY <1>1, <1>2, <1>14 DEF CartTyped
  <2>2. BotRight(b)'
    BY <1>3, <1>8, <1>10, <1>11, <1>14, <2>1 DEF BotRight, AtCart, Asked
  <2>3. x.step # "read"
    BY <1>10
  <2> QED BY <1>7, <1>10, <1>11, <1>12, <1>13, <2>1, <2>2, <2>3, BotGoes
<1>15. CASE own = {}
  <2> DEFINE c0 == [guest |-> g, active |-> TRUE, lines |-> {}]
  <2>1. carts' = Append(carts, c0) /\ k = Len(carts) + 1
    BY <1>2, <1>4, <1>15
  <2>2. c0 \in Cart /\ c0.guest = g /\ c0.active = TRUE /\ c0.lines = {}
    BY <1>3 DEF Cart
  <2> HIDE DEF c0
  <2>3. /\ carts' \in Seq(Cart) /\ Len(carts') = Len(carts) + 1 /\ DOMAIN carts = 1..Len(carts)
        /\ DOMAIN carts' = DOMAIN carts \cup {k} /\ k \notin DOMAIN carts /\ carts'[k] = c0
        /\ \A m \in DOMAIN carts : carts'[m] = carts[m]
    BY <1>5, <2>1, <2>2, Appended
  <2>4. CartTyped'
    <3>1. \A m \in DOMAIN carts' : IsFiniteSet(carts'[m].lines)
      BY <1>1, <2>2, <2>3, FS_EmptySet DEF CartTyped
    <3> QED BY <1>1, <1>2, <1>11, <2>3, <3>1 DEF CartTyped
  <2>5. (\A c \in Bots : BotRight(c))' /\ OnePays'
    <3>1. BotRight(b)'
      BY <1>3, <1>10, <1>11, <2>2, <2>3 DEF BotRight, AtCart, Asked
    <3>2. \A m \in DOMAIN carts, c \in Bots \ {b} : Pays(c, m) => carts'[m].active
      BY <1>1, <2>3 DEF Pays, BotRight
    <3>3. \A m \in DOMAIN carts : m \in DOMAIN carts' /\ carts'[m].guest = carts[m].guest
      BY <2>3
    <3>4. \A m \in DOMAIN carts', c \in Bots \ {b} : Pays(b, m)' => ~Pays(c, m)
      BY <1>12
    <3> QED BY <1>1, <1>11, <3>1, <3>2, <3>3, <3>4, RightAgain
  <2>6. OneCart'
    <3>1. ASSUME NEW h \in Guests, NEW m \in Active(h)', NEW n \in Active(h)' PROVE m = n
      <4>1. /\ m \in DOMAIN carts' /\ carts'[m].guest = h /\ carts'[m].active
            /\ n \in DOMAIN carts' /\ carts'[n].guest = h /\ carts'[n].active
        BY DEF Active
      <4>2. ASSUME NEW i \in DOMAIN carts, carts'[i].guest = h, carts'[i].active
            PROVE  i \in Active(h) /\ h # g
        <5>1. i \in Active(h)
          BY <2>3, <4>2 DEF Active
        <5> QED BY <1>0, <1>15, <5>1
      <4>3. carts'[k].guest = g
        BY <2>2, <2>3
      <4> QED BY <1>1, <2>3, <4>1, <4>2, <4>3 DEF OneCart
    <3> QED BY <3>1 DEF OneCart
  <2>7. OrderedOnce' /\ (\A i \in DOMAIN placed : OrderRight(i))'
    <3>1. \A i \in DOMAIN placed : placed[i].cart \in 0..Len(carts)
      BY <1>1 DEF OrderRight
    <3>2. \A i \in DOMAIN placed : placed[i].cart # k /\ placed[i].cart \in 0..Len(carts')
      BY <1>5, <2>1, <2>3, <3>1
    <3>3. (\A i \in DOMAIN placed : OrderRight(i))'
      BY <1>1, <1>2, <3>2 DEF OrderRight, Worth
    <3>4. OrderedOnce'
      BY <1>1, <1>2, <2>2, <2>3, <3>2 DEF OrderedOnce
    <3> QED BY <3>3, <3>4
  <2>8. seen \subseteq seen'
    BY <1>2
  <2>9. LinesRight'
    <3>1. \A m \in DOMAIN carts' : \A n \in carts'[m].lines :
            m \in DOMAIN carts /\ \E l \in carts[m].lines : l.by = n.by /\ l.product = n.product
      BY <2>2, <2>3
    <3>2. \A m \in DOMAIN carts' : \A n, o \in carts'[m].lines : n.by = o.by => n = o
      BY <1>1, <2>2, <2>3 DEF LinesRight
    <3>3. \A m \in DOMAIN carts : carts'[m].guest = carts[m].guest
      BY <2>3
    <3> QED BY <1>1, <1>13, <2>8, <3>1, <3>2, <3>3, LinesKept
  <2>10. PICK f \in [DOMAIN Updates -> Nat] : Shared(f)
    BY DEF CartInv
  <2>11. Shared(f)'
    <3>1. \A m \in DOMAIN carts' : \A n \in carts'[m].lines : n.quantity <= Went(f, n.by)
      BY <2>2, <2>3, <2>10 DEF Shared
    <3>2. \A c \in Bots : bot'[c].step = "read" => bot'[c].quantity <= Went(f, bot'[c].by)
      BY <1>10, <1>11, <2>10 DEF Shared
    <3> QED BY <1>13, <2>8, <2>10, <3>1, <3>2, SharedAgain
  <2> QED BY <1>11, <2>4, <2>5, <2>6, <2>7, <2>9, <2>10, <2>11 DEF CartInv
<1> QED BY <1>14, <1>15

LEMMA WorthInt ==
  ASSUME NEW N \in SUBSET CartLine, IsFiniteSet(N)
  PROVE  Worth(N) \in Int
<1> DEFINE cost == [l \in N |-> l.price * l.quantity]
<1>1. ASSUME NEW l \in N PROVE cost[l] \in Int
  <2>1. l.price \in Nat /\ l.quantity \in Nat
    BY CustomerAssumption DEF CartLine
  <2>2. \A i, j \in Nat : i * j \in Int
    OBVIOUS
  <2>3. l.price * l.quantity \in Int
    BY <2>1, <2>2
  <2> QED BY <2>3
<1> HIDE DEF cost
<1>2. SumFunctionOnSet(cost, N) \in Int
  BY <1>1, SumInt
<1> QED BY <1>2 DEF Worth, cost

LEMMA DisplayInt == CartTyped => NextDisplay \in Int
<1> SUFFICES ASSUME CartTyped PROVE NextDisplay \in Int
  OBVIOUS
<1>1. placed \in Seq(CartOrder) /\ WrapAt \in Nat \ {0}
  BY CustomerAssumption DEF CartTyped
<1>2. Len(placed) \in Nat
  BY <1>1
<1> QED BY <1>1, <1>2 DEF NextDisplay

LEMMA PlacingKeeps ==
  ASSUME CartInv, NEW b \in Bots, PlaceOrder(b)
  PROVE  CartInv'
<1>1. /\ CartTyped /\ OnePays /\ UpdatesApart /\ OneCart /\ OrderedOnce /\ LinesRight
      /\ \A c \in Bots : BotRight(c)
      /\ \A i \in DOMAIN placed : OrderRight(i)
      /\ seen \in SUBSET DOMAIN Updates /\ placed \in Seq(CartOrder) /\ carts \in Seq(Cart)
  BY DEF CartInv, CartTyped
<1>2. PICK k : k = bot[b].cart
  OBVIOUS
<1>3. PICK o : o = [cart |-> k, lines |-> bot[b].lines, total |-> Worth(Lines(b)),
                    display |-> NextDisplay, torn |-> Lines(b) # bot[b].lines]
  OBVIOUS
<1>4. /\ bot[b].step = "checkout" /\ placed' = Append(placed, o)
      /\ carts' = [carts EXCEPT ![k].active = FALSE] /\ Rests(b) /\ UNCHANGED <<seen, tries>>
  BY <1>2, <1>3 DEF PlaceOrder
<1>5. AtCart(b) /\ Pays(b, k)
  BY <1>2, <1>4 DEF AtCart, Pays
<1>6. k \in DOMAIN carts /\ carts[k].active /\ bot[b].lines # {} /\ k \in Nat
  <2>1. k \in DOMAIN carts /\ carts[k].active /\ bot[b].lines # {}
    BY <1>1, <1>2, <1>4, <1>5 DEF BotRight
  <2> QED BY <1>1, <2>1, CartsHave
<1>7. o \in CartOrder /\ o.cart = k /\ o.lines # {} /\ (o.torn \/ o.total = Worth(o.lines))
  <2>1. Lines(b) \in SUBSET CartLine /\ IsFiniteSet(Lines(b))
    BY <1>5, LinesHave
  <2>2. Worth(Lines(b)) \in Int /\ NextDisplay \in Int
    BY <1>1, <2>1, WorthInt, DisplayInt
  <2>3. bot[b].lines \in SUBSET CartLine
    BY <1>1, <1>4, BotHas
  <2>4. PICK torn \in BOOLEAN : torn <=> Lines(b) # bot[b].lines
    OBVIOUS
  <2>5. torn = (Lines(b) # bot[b].lines)
    BY <2>4, Zenon
  <2>6. o = [cart |-> k, lines |-> bot[b].lines, total |-> Worth(Lines(b)),
             display |-> NextDisplay, torn |-> torn]
    BY <1>3, <2>5, Zenon
  <2>7. o \in CartOrder
    BY <1>6, <2>2, <2>3, <2>6 DEF CartOrder
  <2>8. o.cart = k /\ o.lines = bot[b].lines /\ o.total = Worth(Lines(b)) /\ (o.torn <=> torn)
    BY <2>6
  <2> QED BY <1>6, <2>4, <2>7, <2>8
<1>8. PICK c : c = [carts[k] EXCEPT !.active = FALSE]
  OBVIOUS
<1>9. c \in Cart /\ c.guest = carts[k].guest /\ ~c.active /\ c.lines = carts[k].lines
  <2>1. carts[k] \in Cart
    BY <1>1, <1>6, CartsHave
  <2> QED BY <1>8, <2>1 DEF Cart
<1>10. /\ carts' \in Seq(Cart) /\ DOMAIN carts' = DOMAIN carts /\ Len(carts') = Len(carts) /\ carts'[k] = c
       /\ \A m \in DOMAIN carts : m # k => carts'[m] = carts[m]
  <2>1. carts' = [carts EXCEPT ![k] = c]
    BY <1>4, <1>8
  <2> QED BY <1>1, <1>6, <1>9, <2>1, CartPut
<1>11. Resting \in BotStates /\ bot' = [bot EXCEPT ![b] = Resting] /\ Resting.step = "idle"
  BY <1>4 DEF BotStates, Rests, Resting
<1>12. /\ bot' \in [Bots -> BotStates] /\ bot'[b] = Resting /\ \A d \in Bots \ {b} : bot'[d] = bot[d]
       /\ \A u \in DOMAIN Updates : AtWork(u)' => AtWork(u)
       /\ UpdatesApart'
  <2>1. seen \subseteq seen' /\ Resting.step \notin {"find", "found", "insert"}
    BY <1>4, <1>11
  <2> QED BY <1>1, <1>11, <2>1, OneBotMoves
<1>13. PICK n : n = Len(placed) + 1
  OBVIOUS
<1>14. /\ placed' \in Seq(CartOrder) /\ DOMAIN placed' = DOMAIN placed \cup {n} /\ n \notin DOMAIN placed
       /\ placed'[n] = o /\ \A i \in DOMAIN placed : placed'[i] = placed[i]
  BY <1>1, <1>4, <1>7, <1>13, Appended
<1>15. CartTyped'
  <2>1. \A m \in DOMAIN carts' : IsFiniteSet(carts'[m].lines)
    BY <1>1, <1>6, <1>9, <1>10 DEF CartTyped
  <2> QED BY <1>1, <1>4, <1>10, <1>12, <1>14, <2>1 DEF CartTyped
<1>16. \A m \in DOMAIN carts : /\ m \in DOMAIN carts' /\ carts'[m].guest = carts[m].guest
                               /\ carts'[m].lines = carts[m].lines
                               /\ m # k => carts'[m].active = carts[m].active
  BY <1>9, <1>10
<1>17. (\A d \in Bots : BotRight(d))' /\ OnePays'
  <2>1. BotRight(b)'
    BY <1>11, <1>12 DEF BotRight, AtCart
  <2>2. ASSUME NEW m \in DOMAIN carts, NEW d \in Bots \ {b}, Pays(d, m) PROVE carts'[m].active
    <3>1. m # k
      BY <1>1, <1>5, <2>2 DEF OnePays
    <3>2. carts[m].active
      BY <1>1, <2>2 DEF Pays, BotRight
    <3> QED BY <1>16, <3>1, <3>2
  <2>3. \A m \in DOMAIN carts', d \in Bots \ {b} : Pays(b, m)' => ~Pays(d, m)
    BY <1>11, <1>12 DEF Pays
  <2> QED BY <1>1, <1>12, <1>16, <2>1, <2>2, <2>3, RightAgain
<1>18. OneCart'
  <2>1. \A g \in Guests : Active(g)' \subseteq Active(g)
    BY <1>9, <1>10 DEF Active
  <2> QED BY <1>1, <2>1 DEF OneCart
<1>19. (\A i \in DOMAIN placed : OrderRight(i))'
  <2>1. ASSUME NEW i \in DOMAIN placed' PROVE OrderRight(i)'
    <3>1. CASE i = n
      <4>1. k \in 0..Len(carts)
        BY <1>1, <1>6, CartsHave
      <4> QED BY <1>7, <1>10, <1>14, <3>1, <4>1 DEF OrderRight, Worth
    <3>2. CASE i # n
      BY <1>1, <1>10, <1>14, <3>2 DEF OrderRight, Worth
    <3> QED BY <3>1, <3>2
  <2> QED BY <2>1
<1>20. OrderedOnce'
  <2> SUFFICES ASSUME NEW m \in DOMAIN carts'
               PROVE  IF carts'[m].active THEN \A i \in DOMAIN placed' : placed'[i].cart # m
                      ELSE \E i \in DOMAIN placed' : \A j \in DOMAIN placed' : placed'[j].cart = m <=> j = i
    BY DEF OrderedOnce
  <2>1. CASE m = k
    <3>1. \A i \in DOMAIN placed : placed[i].cart # k
      BY <1>1, <1>6 DEF OrderedOnce
    <3>2. \A j \in DOMAIN placed' : placed'[j].cart = k <=> j = n
      BY <1>7, <1>14, <3>1
    <3>3. ~carts'[k].active /\ n \in DOMAIN placed'
      BY <1>9, <1>10, <1>14
    <3> QED BY <2>1, <3>2, <3>3
  <2>2. CASE m # k
    <3>1. m \in DOMAIN carts /\ carts'[m].active = carts[m].active
      BY <1>10, <1>16, <2>2
    <3>2. placed'[n].cart # m
      BY <1>7, <1>14, <2>2
    <3>3. CASE carts[m].active
      <4>1. \A i \in DOMAIN placed : placed[i].cart # m
        BY <1>1, <3>1, <3>3 DEF OrderedOnce
      <4> QED BY <1>14, <3>1, <3>2, <3>3, <4>1
    <3>4. CASE ~carts[m].active
      <4>1. PICK i \in DOMAIN placed : \A j \in DOMAIN placed : placed[j].cart = m <=> j = i
        BY <1>1, <3>1, <3>4 DEF OrderedOnce
      <4>2. i \in DOMAIN placed' /\ \A j \in DOMAIN placed' : placed'[j].cart = m <=> j = i
        BY <1>14, <3>2, <4>1
      <4> QED BY <3>1, <3>4, <4>2
    <3> QED BY <3>3, <3>4
  <2> QED BY <2>1, <2>2
<1>21. seen \subseteq seen' /\ \A u \in seen : AtWork(u)' => AtWork(u)
  BY <1>1, <1>4, <1>12
<1>22. LinesRight'
  <2>1. \A m \in DOMAIN carts' : \A l \in carts'[m].lines :
          m \in DOMAIN carts /\ \E j \in carts[m].lines : j.by = l.by /\ j.product = l.product
    BY <1>10, <1>16
  <2>2. \A m \in DOMAIN carts' : \A l, j \in carts'[m].lines : l.by = j.by => l = j
    BY <1>1, <1>10, <1>16 DEF LinesRight
  <2>3. \A m \in DOMAIN carts : carts'[m].guest = carts[m].guest
    BY <1>16
  <2> QED BY <1>1, <1>21, <2>1, <2>2, <2>3, LinesKept
<1>23. PICK f \in [DOMAIN Updates -> Nat] : Shared(f)
  BY DEF CartInv
<1>24. Shared(f)'
  <2>1. \A m \in DOMAIN carts' : \A l \in carts'[m].lines : l.quantity <= Went(f, l.by)
    BY <1>10, <1>16, <1>23 DEF Shared
  <2>2. \A d \in Bots : bot'[d].step = "read" => bot'[d].quantity <= Went(f, bot'[d].by)
    BY <1>11, <1>12, <1>23 DEF Shared
  <2> QED BY <1>21, <1>23, <2>1, <2>2, SharedAgain
<1> QED BY <1>12, <1>15, <1>17, <1>18, <1>19, <1>20, <1>22, <1>23, <1>24 DEF CartInv

LEMMA QrOrderKeeps ==
  ASSUME CartInv, NEW p \in Products, NEW q \in 1..PerLine, NEW price \in Prices, PlaceQrOrder(p, q, price)
  PROVE  CartInv'
<1>1. /\ CartTyped /\ OrderedOnce /\ placed \in Seq(CartOrder) /\ carts \in Seq(Cart)
      /\ \A i \in DOMAIN placed : OrderRight(i)
  BY DEF CartInv, CartTyped
<1>2. PICK line : line = [product |-> p, by |-> 0, price |-> price, quantity |-> q]
  OBVIOUS
<1>3. PICK o : o = [cart |-> 0, lines |-> {line}, total |-> Worth({line}), display |-> NextDisplay,
                   torn |-> FALSE]
  OBVIOUS
<1>4. placed' = Append(placed, o) /\ UNCHANGED <<carts, seen, tries, bot>>
  BY <1>2, <1>3 DEF PlaceQrOrder
<1>5. o \in CartOrder /\ o.cart = 0 /\ o.lines # {} /\ o.total = Worth(o.lines)
  <2>1. line \in CartLine
    BY <1>2, CustomerAssumption DEF CartLine
  <2>2. Worth({line}) \in Int /\ NextDisplay \in Int
    <3>1. {line} \in SUBSET CartLine /\ IsFiniteSet({line})
      BY <2>1, FS_Singleton
    <3> QED BY <1>1, <3>1, WorthInt, DisplayInt
  <2> QED BY <1>3, <2>1, <2>2 DEF CartOrder
<1>6. PICK n : n = Len(placed) + 1
  OBVIOUS
<1>7. /\ placed' \in Seq(CartOrder) /\ DOMAIN placed' = DOMAIN placed \cup {n} /\ n \notin DOMAIN placed
      /\ placed'[n] = o /\ \A i \in DOMAIN placed : placed'[i] = placed[i]
  BY <1>1, <1>4, <1>5, <1>6, Appended
<1>8. CartTyped' /\ OneCart' /\ OnePays' /\ UpdatesApart' /\ LinesRight' /\ (\A b \in Bots : BotRight(b))'
  <2>1. CartTyped'
    BY <1>1, <1>4, <1>7 DEF CartTyped
  <2>2. OneCart' /\ OnePays' /\ UpdatesApart'
    BY <1>4 DEF CartInv, OneCart, Active, OnePays, Pays, UpdatesApart, AtWork, At
  <2>3. LinesRight'
    BY <1>4 DEF CartInv, LinesRight, Stems, AtWork, At
  <2>4. (\A b \in Bots : BotRight(b))'
    BY <1>4 DEF CartInv, BotRight, AtCart, Asked
  <2> QED BY <2>1, <2>2, <2>3, <2>4
<1>9. (\A i \in DOMAIN placed : OrderRight(i))'
  <2>1. ASSUME NEW i \in DOMAIN placed' PROVE OrderRight(i)'
    <3>1. CASE i = n
      <4>1. 0 \in 0..Len(carts)
        BY <1>1
      <4> QED BY <1>4, <1>5, <1>7, <3>1, <4>1 DEF OrderRight, Worth
    <3>2. CASE i # n
      BY <1>1, <1>4, <1>7, <3>2 DEF OrderRight, Worth
    <3> QED BY <3>1, <3>2
  <2> QED BY <2>1
<1>10. OrderedOnce'
  <2> SUFFICES ASSUME NEW m \in DOMAIN carts'
               PROVE  IF carts'[m].active THEN \A i \in DOMAIN placed' : placed'[i].cart # m
                      ELSE \E i \in DOMAIN placed' : \A j \in DOMAIN placed' : placed'[j].cart = m <=> j = i
    BY DEF OrderedOnce
  <2>1. m \in DOMAIN carts /\ carts' = carts /\ m # 0
    BY <1>1, <1>4
  <2>2. placed'[n].cart # m
    BY <1>5, <1>7, <2>1
  <2>3. CASE carts[m].active
    <3>1. \A i \in DOMAIN placed : placed[i].cart # m
      BY <1>1, <2>1, <2>3 DEF OrderedOnce
    <3> QED BY <1>7, <2>1, <2>2, <2>3, <3>1
  <2>4. CASE ~carts[m].active
    <3>1. PICK i \in DOMAIN placed : \A j \in DOMAIN placed : placed[j].cart = m <=> j = i
      BY <1>1, <2>1, <2>4 DEF OrderedOnce
    <3>2. i \in DOMAIN placed' /\ \A j \in DOMAIN placed' : placed'[j].cart = m <=> j = i
      BY <1>7, <2>2, <3>1
    <3> QED BY <2>1, <2>4, <3>2
  <2> QED BY <2>3, <2>4
<1>11. (\E f \in [DOMAIN Updates -> Nat] : Shared(f))'
  BY <1>4 DEF CartInv, Shared, AtWork, At, Went, Asking
<1> QED BY <1>8, <1>9, <1>10, <1>11 DEF CartInv

LEMMA CartInitial == CartInit => CartInv
<1> SUFFICES ASSUME CartInit PROVE CartInv
  OBVIOUS
<1>1. /\ carts = <<>> /\ placed = <<>> /\ seen = {} /\ tries = 0 /\ bot = [b \in Bots |-> Resting]
      /\ DOMAIN carts = {} /\ DOMAIN placed = {}
  BY DEF CartInit
<1>2. CartTyped
  <2>1. Resting \in BotStates
    BY DEF BotStates
  <2>2. bot \in [Bots -> BotStates]
    BY <1>1, <2>1
  <2> QED BY <1>1, <2>2 DEF CartTyped
<1>3. \A b \in Bots : bot[b].step = "idle"
  BY <1>1 DEF Resting
<1>4. (\A b \in Bots : BotRight(b)) /\ OnePays /\ UpdatesApart
  BY <1>3 DEF BotRight, AtCart, OnePays, Pays, UpdatesApart, AtWork, At
<1>5. OneCart /\ OrderedOnce /\ (\A i \in DOMAIN placed : OrderRight(i)) /\ LinesRight
  BY <1>1 DEF OneCart, Active, OrderedOnce, LinesRight
<1>6. PICK f : f = [u \in DOMAIN Updates |-> 0]
  OBVIOUS
<1>7. f \in [DOMAIN Updates -> Nat] /\ Shared(f)
  BY <1>1, <1>3, <1>6 DEF Shared
<1> QED BY <1>2, <1>4, <1>5, <1>7 DEF CartInv

LEMMA CartStep == CartInv /\ [CartNext]_cartVars => CartInv'
<1> SUFFICES ASSUME CartInv, [CartNext]_cartVars PROVE CartInv'
  OBVIOUS
<1>1. CASE UNCHANGED cartVars
  <2>1. UNCHANGED <<carts, placed, seen, tries, bot>>
    BY <1>1 DEF cartVars
  <2>2. CartTyped' /\ OneCart' /\ OrderedOnce' /\ (\A i \in DOMAIN placed : OrderRight(i))'
    BY <2>1 DEF CartInv, CartTyped, OneCart, Active, OrderedOnce, OrderRight, Worth
  <2>3. OnePays' /\ UpdatesApart' /\ LinesRight' /\ (\A b \in Bots : BotRight(b))'
    BY <2>1 DEF CartInv, OnePays, Pays, UpdatesApart, AtWork, At, LinesRight, Stems, BotRight, AtCart, Asked
  <2>4. (\E f \in [DOMAIN Updates -> Nat] : Shared(f))'
    <3>1. PICK f \in [DOMAIN Updates -> Nat] : Shared(f)
      BY DEF CartInv
    <3>2. Shared(f)'
      BY <2>1, <3>1 DEF Shared, AtWork, At, Went, Asking
    <3> QED BY <3>1, <3>2
  <2> QED BY <2>2, <2>3, <2>4 DEF CartInv
<1>2. ASSUME NEW p \in Products, NEW n \in 1..PerLine, NEW price \in Prices, PlaceQrOrder(p, n, price)
      PROVE  CartInv'
  BY <1>2, QrOrderKeeps
<1>3. ASSUME NEW b \in Bots, NEW u \in DOMAIN Updates, TakeUpdate(b, u) PROVE CartInv'
  BY <1>3, TakingKeeps
<1>4. ASSUME NEW b \in Bots, LoseUpdate(b) PROVE CartInv'
  BY <1>4, RestKeeps DEF LoseUpdate
<1> QED BY <1>1, <1>2, <1>3, <1>4, FindingKeeps, CountKeeps, InsertionKeeps, RemovalKeeps,
           ReadingKeeps, WritingKeeps, LockingKeeps, PlacingKeeps DEF CartNext

(* What the carts of a guest hold of a product went to their lines.        *)
LEMMA HeldIsWanted ==
  ASSUME CartInv, NEW g \in Guests, NEW p \in Products
  PROVE  Held(g, p) <= Wanted(g, p)
<1>1. CartTyped /\ LinesRight /\ carts \in Seq(Cart) /\ seen \in SUBSET DOMAIN Updates
  BY DEF CartInv, CartTyped
<1>2. PICK f \in [DOMAIN Updates -> Nat] : Shared(f)
  BY DEF CartInv
<1> DEFINE K == {k \in DOMAIN carts : carts[k].guest = g}
           U == {u \in seen : Updates[u].guest = g /\ Updates[u].kind = "add" /\ Updates[u].product = p}
           Part(v) == {u \in DOMAIN Updates : f[u] = v}
           Mine(k) == {l \in carts[k].lines : l.product = p}
           A == [k \in K |-> UNION {Part(l.by) : l \in Mine(k)}]
           h == [k \in DOMAIN carts |-> OfCart(k, p)]
<1>3. IsFiniteSet(K)
  <2>1. K \subseteq 1..Len(carts) /\ 1 \in Int /\ Len(carts) \in Int
    BY <1>1
  <2>2. IsFiniteSet(1..Len(carts))
    BY <2>1, FS_Interval
  <2> HIDE DEF K
  <2> QED BY <2>1, <2>2, FS_Subset
<1>4. IsFiniteSet(U) /\ \A u \in U : Asking[u] \in Nat
  <2>1. IsFiniteSet(DOMAIN Updates)
    <3>1. DOMAIN Updates = 1..Len(Updates) /\ 1 \in Int /\ Len(Updates) \in Int
      BY CustomerAssumption
    <3> QED BY <3>1, FS_Interval
  <2>2. U \subseteq DOMAIN Updates
    BY <1>1
  <2>3. \A u \in U : Asking[u] \in Nat
    BY <2>2, UpdatesHave DEF Asking
  <2> HIDE DEF U
  <2> QED BY <2>1, <2>2, <2>3, FS_Subset
<1>5. ASSUME NEW k \in K, NEW l \in Mine(k)
      PROVE  /\ Part(l.by) \in SUBSET U /\ l.by # 0
             /\ \A m \in K : \A n \in Mine(m) : l # n \/ k # m => l.by # n.by
  <2>1. k \in DOMAIN carts /\ carts[k].guest = g /\ l \in carts[k].lines /\ l.product = p
    OBVIOUS
  <2>2. Stems(k, l)
    BY <1>1, <2>1 DEF LinesRight
  <2>3. l.by \in DOMAIN Updates /\ l.by # 0
    <3>1. l.by \in DOMAIN Updates
      BY <1>1, <2>2 DEF Stems
    <3> QED BY <3>1, UpdatesHave
  <2>4. ASSUME NEW u \in Part(l.by) PROVE u \in U
    <3>1. u \in DOMAIN Updates /\ f[u] = l.by
      OBVIOUS
    <3>2. /\ u \in seen /\ Updates[u].kind = "add"
          /\ Updates[l.by].guest = Updates[u].guest /\ Updates[l.by].product = Updates[u].product
      BY <1>2, <2>3, <3>1 DEF Shared
    <3> QED BY <2>1, <2>2, <3>2 DEF Stems
  <2>5. ASSUME NEW m \in K, NEW n \in Mine(m), l.by = n.by PROVE k = m /\ l = n
    BY <1>1, <2>1, <2>5 DEF LinesRight
  <2> QED BY <2>3, <2>4, <2>5
<1>6. ASSUME NEW k \in K PROVE A[k] \in SUBSET U
  BY <1>5
<1>7. ASSUME NEW k \in K, NEW m \in K, k # m PROVE A[k] \cap A[m] = {}
  BY <1>5, <1>7
<1>8. ASSUME NEW k \in K PROVE h[k] \in Nat /\ h[k] <= SumFunctionOnSet(Asking, A[k])
  <2> DEFINE L == carts[k].lines
             e == [l \in L |-> IF l.product = p THEN l.quantity ELSE 0]
             B == [l \in L |-> IF l.product = p THEN Part(l.by) ELSE {}]
             V == A[k]
  <2>1. k \in DOMAIN carts /\ IsFiniteSet(L) /\ L \in SUBSET CartLine
    BY <1>1, CartsHave
  <2>2. ASSUME NEW l \in L PROVE l.quantity \in Nat
    BY <2>1, CustomerAssumption DEF CartLine
  <2>3. IsFiniteSet(V) /\ \A u \in V : Asking[u] \in Nat
    <3>1. V \in SUBSET U
      BY <1>6
    <3> HIDE DEF V, U
    <3> QED BY <1>4, <3>1, FS_Subset
  <2>4. \A l \in L : B[l] \in SUBSET V
    OBVIOUS
  <2>5. ASSUME NEW l \in L, NEW n \in L, l # n PROVE B[l] \cap B[n] = {}
    BY <1>5, <2>5
  <2>6. ASSUME NEW l \in L PROVE e[l] \in Nat /\ e[l] <= SumFunctionOnSet(Asking, B[l])
    <3>1. CASE l.product = p
      <4>1. l.quantity <= Went(f, l.by)
        BY <1>2, <2>1 DEF Shared
      <4> QED BY <2>2, <3>1, <4>1 DEF Went
    <3>2. CASE l.product # p
      <4>1. SumFunctionOnSet(Asking, {}) = 0
        BY SumEmpty
      <4> QED BY <3>2, <4>1
    <3> QED BY <3>1, <3>2
  <2>7. OfCart(k, p) = SumFunctionOnSet(e, L)
    BY DEF OfCart
  <2>8. h[k] = OfCart(k, p)
    BY <2>1
  <2> HIDE DEF L, e, B, V, h
  <2>9. SumFunctionOnSet(e, L) <= SumFunctionOnSet(Asking, V)
    BY <2>1, <2>3, <2>4, <2>5, <2>6, SumCovered
  <2>10. SumFunctionOnSet(e, L) \in Nat
    BY <2>1, <2>6, SumNat
  <2> QED BY <2>7, <2>8, <2>9, <2>10 DEF V
<1>9. Held(g, p) = SumFunctionOnSet(h, K) /\ Wanted(g, p) = SumFunctionOnSet(Asking, U)
  BY DEF Held, Wanted
<1> HIDE DEF K, U, A, h, Part, Mine
<1> QED BY <1>3, <1>4, <1>6, <1>7, <1>8, <1>9, SumCovered

LEMMA CartOrdered == CartInv => CartOrderedOnce
<1> SUFFICES ASSUME CartInv PROVE CartOrderedOnce
  OBVIOUS
<1>1. ASSUME NEW k \in DOMAIN carts
      PROVE  Cardinality({i \in DOMAIN placed : placed[i].cart = k}) = IF carts[k].active THEN 0 ELSE 1
  <2>1. CASE carts[k].active
    <3>1. {i \in DOMAIN placed : placed[i].cart = k} = {}
      BY <2>1 DEF CartInv, OrderedOnce
    <3> QED BY <2>1, <3>1, FS_EmptySet
  <2>2. CASE ~carts[k].active
    <3>1. PICK i \in DOMAIN placed : \A j \in DOMAIN placed : placed[j].cart = k <=> j = i
      BY <2>2 DEF CartInv, OrderedOnce
    <3>2. {j \in DOMAIN placed : placed[j].cart = k} = {i}
      BY <3>1
    <3> QED BY <2>2, <3>2, FS_Singleton
  <2> QED BY <2>1, <2>2
<1>2. ASSUME NEW g \in Guests PROVE Cardinality(Active(g)) <= 1
  <2>1. CASE Active(g) = {}
    BY <2>1, FS_EmptySet
  <2>2. CASE Active(g) # {}
    <3>1. PICK k \in Active(g) : Active(g) = {k}
      BY <2>2 DEF CartInv, OneCart
    <3>2. Cardinality(Active(g)) = 1
      BY <3>1, FS_Singleton
    <3> QED BY <3>2
  <2> QED BY <2>1, <2>2
<1>3. ASSUME NEW i \in DOMAIN placed
      PROVE  /\ placed[i].lines # {} /\ \A l \in placed[i].lines : l.quantity \in 1..PerLine
             /\ placed[i].torn \/ placed[i].total = Worth(placed[i].lines)
  <2>1. OrderRight(i) /\ placed \in Seq(CartOrder)
    BY DEF CartInv, CartTyped
  <2>2. placed[i] \in CartOrder
    BY <2>1
  <2>3. placed[i].lines \in SUBSET CartLine
    BY <2>2 DEF CartOrder
  <2> QED BY <2>1, <2>3 DEF OrderRight, CartLine
<1> QED BY <1>1, <1>2, <1>3, HeldIsWanted DEF CartOrderedOnce

LEMMA StampsRest == StampInv /\ UNCHANGED stampVars => StampInv'
BY StampStep

LEMMA CartsRest == CartInv /\ UNCHANGED cartVars => CartInv'
BY CartStep

(* Nothing a customer does counts twice, for any tills and bots, any       *)
(* schemes of stamps and any updates: a balance is what credited orders    *)
(* gave less what rewards took; a cart is ordered once, when it is left,   *)
(* and what a guest's carts ever held of a product was asked for.          *)
THEOREM CountedOnce == CustomerSpec => []NothingTwice
<1>1. StampInit /\ CartInit => StampInv /\ CartInv
  BY StampInitial, CartInitial
<1>2. StampInv /\ CartInv /\ [CustomerNext]_<<stampVars, cartVars>> => StampInv' /\ CartInv'
  <2> SUFFICES ASSUME StampInv, CartInv, [CustomerNext]_<<stampVars, cartVars>> PROVE StampInv' /\ CartInv'
    OBVIOUS
  <2>1. CASE StampNext /\ UNCHANGED cartVars
    BY <2>1, StampStep, CartsRest
  <2>2. CASE CartNext /\ UNCHANGED stampVars
    BY <2>2, CartStep, StampsRest
  <2>3. CASE UNCHANGED <<stampVars, cartVars>>
    <3>1. UNCHANGED stampVars /\ UNCHANGED cartVars
      BY <2>3
    <3> QED BY <3>1, StampsRest, CartsRest
  <2> QED BY <2>1, <2>2, <2>3 DEF CustomerNext
<1>3. StampInv /\ CartInv => NothingTwice
  BY CartOrdered DEF StampInv, NothingTwice
<1> QED BY <1>1, <1>2, <1>3, PTL DEF CustomerSpec

=============================================================================
