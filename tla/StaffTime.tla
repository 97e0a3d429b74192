------------------------------ MODULE StaffTime ------------------------------
(***************************************************************************)
(* The time of one employee: the leave requests of a year against its      *)
(* balance, the attendance of one working day with the adjustments and     *)
(* excuses of it, the schedule that day is measured by, and the audits of  *)
(* late orders that the employee may answer for.                           *)
(*                                                                         *)
(* Requests lock the rows they decide on, and are one step, except those   *)
(* that read first and write later: creating, rejecting and cancelling a   *)
(* leave, and checking out.  Between the two, an officer's hand holds what *)
(* was read.                                                               *)
(***************************************************************************)
EXTENDS Integers, FiniteSets, FiniteSetsExt

CONSTANTS
  Officers,  \* who handles requests at the same time
  Leaves,    \* leave requests of the year
  Days,      \* [Leaves -> Nat]: the length of each
  Collides,  \* <<l, m>>: the dates of l and m overlap
  Annual,    \* days a year allots
  MaxCarry,  \* days of last year that may be carried over
  LastYear,  \* days left of last year
  Hours,     \* bound: the hours of a day are 1..Hours
  Grace,     \* hours of grace a schedule gives
  Schedules, \* the schedules that may be entered, <<first day, last day>>
  Audits     \* orders whose preparation is audited

ASSUME StaffAssumption ==
  /\ IsFiniteSet(Leaves) /\ Days \in [Leaves -> Nat \ {0}]
  /\ Collides \subseteq Leaves \X Leaves
  /\ Annual \in Nat /\ MaxCarry \in Nat /\ LastYear \in Int
  /\ Hours \in Nat /\ Grace \in Nat

VARIABLES
  leave,    \* leave[l]: the status of a request
  balance,  \* the balance of the year
  misgiven, \* whether days went back twice, or to a balance of before
  hand,     \* hand[k]: what officer k has read and not yet written
  day,      \* the attendance of the day
  hour,     \* the hour it is
  adjust,   \* the adjustment asked for last
  excuse,   \* the excuse given last
  schedule, \* the schedules in force
  audit,    \* audit[a]: the review of an order's preparation
  closed    \* whether the period of the audits is closed

leaves == <<leave, balance, misgiven>>
attendance == <<day, hour, adjust, excuse, schedule>>
audits == <<audit, closed>>
staffVars == <<leaves, hand, attendance, audits>>

NoBalance == [exists |-> FALSE, quota |-> 0, used |-> 0]
NoDay == [exists |-> FALSE, in |-> 0, out |-> 0, start |-> 0, late |-> 0, absent |-> FALSE]
NoAsk == [status |-> "NONE", by |-> "nobody", in |-> 0, out |-> 0]
NoExcuse == [status |-> "NONE", by |-> "nobody", late |-> 0]
NoAudit == [needed |-> FALSE, status |-> "NONE", current |-> 0]
Free == [op |-> "none", on |-> "nothing", saw |-> 0]

StaffInit ==
  /\ leave = [l \in Leaves |-> "NONE"]
  /\ balance = NoBalance /\ misgiven = FALSE
  /\ hand = [k \in Officers |-> Free]
  /\ day = NoDay /\ hour = 1 /\ adjust = NoAsk /\ excuse = NoExcuse /\ schedule = {}
  /\ audit = [a \in Audits |-> NoAudit] /\ closed = FALSE

Takes(k, op, on, saw) ==
  hand[k] = Free /\ hand' = [hand EXCEPT ![k] = [op |-> op, on |-> on, saw |-> saw]]
Holds(k, op, on) == hand[k].op = op /\ hand[k].on = on
Drops(k) == hand' = [hand EXCEPT ![k] = Free]

-----------------------------------------------------------------------------
(* Leave.                                                                  *)

(* A cancellation has written the request and not committed: the row is    *)
(* locked until it has given the days back.                                *)
Locked(l) == \E k \in Officers : Holds(k, "give back", l)

Left == balance.quota - balance.used

(* Without a balance, only a type that has no quota lets days through.     *)
Covered(l) == IF balance.exists THEN Days[l] <= Left ELSE Annual = 0

(* Mutant: the balance was looked at when the leave was asked for.         *)
CoveredAtRequest(l) == TRUE

(* The balance is looked at again under its lock.                          *)
CoveredNow(l) == Covered(l)

Clashes(l) == \E m \in Leaves : <<l, m>> \in Collides /\ leave[m] \in {"PENDING", "APPROVED"}

LookForLeave(k, l) ==
  /\ leave[l] = "NONE" /\ \A o \in Officers : ~Holds(o, "ask", l)
  /\ ~Clashes(l) /\ Covered(l)
  /\ Takes(k, "ask", l, 0)
  /\ UNCHANGED leaves

AskLeave(k, l) ==
  /\ Holds(k, "ask", l) /\ Drops(k)
  /\ leave' = [leave EXCEPT ![l] = "PENDING"] /\ UNCHANGED <<balance, misgiven>>

(* Request and balance are locked, and both are looked at again.           *)
ApproveLeave(l) ==
  /\ leave[l] = "PENDING" /\ ~Locked(l) /\ CoveredNow(l)
  /\ leave' = [leave EXCEPT ![l] = "APPROVED"]
  /\ balance' = IF balance.exists THEN [balance EXCEPT !.used = @ + Days[l]] ELSE balance
  /\ UNCHANGED <<misgiven, hand>>

LookToReject(k, l) ==
  /\ leave[l] = "PENDING" /\ Takes(k, "reject", l, 0) /\ UNCHANGED leaves

RejectLeave(k, l) ==
  /\ Holds(k, "reject", l) /\ ~Locked(l) /\ Drops(k)
  /\ leave' = [leave EXCEPT ![l] = "REJECTED"] /\ UNCHANGED <<balance, misgiven>>

(* A cancellation goes by the status it read, which another may have       *)
(* changed since, gives the days of what was approved back to the balance  *)
(* it read, without a lock, and commits both together.                     *)
LookToCancel(k, l) ==
  /\ leave[l] \in {"PENDING", "APPROVED"}
  /\ Takes(k, IF leave[l] = "APPROVED" THEN "cancel" ELSE "withdraw", l, 0)
  /\ UNCHANGED leaves

WithdrawLeave(k, l) ==
  /\ Holds(k, "withdraw", l) /\ ~Locked(l) /\ Drops(k)
  /\ leave' = [leave EXCEPT ![l] = "CANCELED"] /\ UNCHANGED <<balance, misgiven>>

ReadBalance(k, l) ==
  /\ Holds(k, "cancel", l) /\ ~Locked(l)
  /\ hand' = [hand EXCEPT ![k] = [op |-> "give back", on |-> l, saw |-> balance.used]]
  /\ UNCHANGED leaves

GiveBack(k, l) ==
  /\ Holds(k, "give back", l) /\ Drops(k)
  /\ leave' = [leave EXCEPT ![l] = "CANCELED"]
  /\ balance' = IF balance.exists
                THEN [balance EXCEPT !.used = Max({0, hand[k].saw - Days[l]})] ELSE balance
  /\ misgiven' = (misgiven \/ leave[l] # "APPROVED" \/ hand[k].saw # balance.used)

(* The year's balances, once: a concurrent second run meets the constraint.*)
CarriedOver == Max({0, Min({LastYear, MaxCarry})})
InitializeBalance ==
  /\ ~balance.exists
  /\ balance' = [exists |-> TRUE, quota |-> Annual + CarriedOver, used |-> 0]
  /\ UNCHANGED <<leave, misgiven, hand>>

LeaveNext ==
  \/ InitializeBalance
  \/ \E l \in Leaves :
       \/ ApproveLeave(l)
       \/ \E k \in Officers :
            \/ LookForLeave(k, l) \/ AskLeave(k, l) \/ LookToReject(k, l) \/ RejectLeave(k, l)
            \/ LookToCancel(k, l) \/ WithdrawLeave(k, l) \/ ReadBalance(k, l) \/ GiveBack(k, l)

-----------------------------------------------------------------------------
(* Attendance.  A day is counted in hours; 0 stands for no time.           *)

clockOnly == <<hour, adjust, excuse, schedule>>

(* Without a schedule nothing is late.                                     *)
Lateness(d) == IF d.start # 0 THEN Max({0, d.in - (d.start + Grace)}) ELSE 0

(* Mutant: a lateness of before is not reset.                              *)
RecalculatedUp(d) == [d EXCEPT !.late = Max({@, Lateness(d)}), !.absent = d.in = 0]

Recalculated(d) == [d EXCEPT !.late = Lateness(d), !.absent = d.in = 0]

ValidTimes(in, out) == in # 0 /\ in <= hour /\ out <= hour /\ (out # 0 => out > in)

(* Only a schedule in force today, day 1, says when the day starts.        *)
StartsAt == IF \E s \in schedule : s[1] <= 1 /\ 1 <= s[2] THEN 1 ELSE 0

PassHour == hour < Hours /\ hour' = hour + 1
            /\ UNCHANGED <<day, adjust, excuse, schedule, hand>>

(* A check-in by the till or by hand; a second one finds the first.        *)
Arrived == [day EXCEPT !.exists = TRUE, !.in = hour, !.absent = FALSE]

CheckIn ==
  /\ ~day.exists \/ day.in = 0
  /\ day' = Arrived
  /\ UNCHANGED <<clockOnly, hand>>

LookToCheckOut(k) ==
  /\ day.in # 0 /\ hour >= day.in
  /\ Takes(k, "check out", "day", 0) /\ UNCHANGED attendance

CheckOut(k) ==
  /\ Holds(k, "check out", "day") /\ Drops(k)
  /\ day' = [day EXCEPT !.out = hour] /\ UNCHANGED clockOnly

MarkAbsent ==
  /\ ~day.exists
  /\ day' = [NoDay EXCEPT !.exists = TRUE, !.absent = TRUE]
  /\ UNCHANGED <<clockOnly, hand>>

EnterByHand(in, out) ==
  /\ ~day.exists /\ ValidTimes(in, out)
  /\ day' = Recalculated([exists |-> TRUE, in |-> in, out |-> out, start |-> StartsAt, late |-> 0,
                          absent |-> FALSE])
  /\ UNCHANGED <<clockOnly, hand>>

(* One adjustment waits at a time; who asked for it may not review it.     *)
RequestAdjustment(k, in, out) ==
  /\ day.exists /\ adjust.status # "PENDING" /\ <<in, out>> # <<0, 0>>
  /\ ValidTimes(IF in # 0 THEN in ELSE day.in, IF out # 0 THEN out ELSE day.out)
  /\ adjust' = [status |-> "PENDING", by |-> k, in |-> in, out |-> out]
  /\ UNCHANGED <<day, hour, excuse, schedule, hand>>

Adjusted == [day EXCEPT !.in = IF adjust.in # 0 THEN adjust.in ELSE @,
                        !.out = IF adjust.out # 0 THEN adjust.out ELSE @]

ReviewAdjustment(k, approve) ==
  /\ adjust.status = "PENDING" /\ adjust.by # k
  /\ approve => ValidTimes(Adjusted.in, Adjusted.out)
  /\ day' = IF approve THEN Recalculated(Adjusted) ELSE day
  /\ adjust' = [adjust EXCEPT !.status = IF approve THEN "APPROVED" ELSE "REJECTED"]
  /\ UNCHANGED <<hour, excuse, schedule, hand>>

CreateExcuse(k) ==
  /\ day.exists /\ excuse.status # "PENDING"
  /\ excuse' = [status |-> "PENDING", by |-> k, late |-> 0]
  /\ UNCHANGED <<day, hour, adjust, schedule, hand>>

(* An excuse is granted for the lateness as it is then.                    *)
ReviewExcuse(k, approve) ==
  /\ excuse.status = "PENDING" /\ excuse.by # k
  /\ excuse' = IF approve THEN [excuse EXCEPT !.status = "APPROVED", !.late = day.late]
                          ELSE [excuse EXCEPT !.status = "REJECTED"]
  /\ UNCHANGED <<day, hour, adjust, schedule, hand>>

(* Schedules of one weekday, as ranges of days that must not overlap; day  *)
(* 1 is today.                                                             *)
Meets(s, t) == s[1] <= t[2] /\ t[1] <= s[2]

CreateSchedule(s) ==
  /\ s[1] <= s[2] /\ \A t \in schedule : ~Meets(s, t)
  /\ schedule' = schedule \cup {s}
  /\ UNCHANGED <<day, hour, adjust, excuse, hand>>

(* A schedule that has begun is cut off and the new one added from its     *)
(* first day on; one to come is replaced.  The old one is gone even when   *)
(* the new one is refused.                                                 *)
PatchSchedule(s, t) ==
  /\ s \in schedule
  /\ s[1] <= 1 => t[1] > 1
  /\ LET kept == (schedule \ {s}) \cup IF s[1] <= 1 THEN {<<s[1], t[1] - 1>>} ELSE {}
     IN schedule' = kept \cup IF t[1] <= t[2] /\ \A u \in kept : ~Meets(t, u) THEN {t} ELSE {}
  /\ UNCHANGED <<day, hour, adjust, excuse, hand>>

Times == 0..Hours
AttendanceNext ==
  \/ PassHour \/ CheckIn \/ MarkAbsent
  \/ \E in, out \in Times : EnterByHand(in, out)
  \/ \E k \in Officers :
       \/ LookToCheckOut(k) \/ CheckOut(k) \/ CreateExcuse(k)
       \/ \E in, out \in Times : RequestAdjustment(k, in, out)
       \/ \E approve \in BOOLEAN : ReviewAdjustment(k, approve) \/ ReviewExcuse(k, approve)
  \/ \E s \in Schedules : CreateSchedule(s) \/ \E t \in Schedules : PatchSchedule(t, s)

-----------------------------------------------------------------------------
(* Audits of preparation times.  current counts the current reviews.       *)

(* An order that becomes ready is measured once.                           *)
MeasureOrder(a, late) ==
  /\ audit[a].status = "NONE"
  /\ audit' = [audit EXCEPT ![a] = [needed |-> late, current |-> 0,
                                    status |-> IF late THEN "PENDING" ELSE "NOT_REQUIRED"]]
  /\ UNCHANGED <<closed, hand>>

ReviewAudit(a) ==
  /\ audit[a].current = 0 /\ audit[a].needed
  /\ audit' = [audit EXCEPT ![a].current = @ + 1, ![a].status = "COMPLETED"]
  /\ UNCHANGED <<closed, hand>>

ReopenAudit(a) ==
  /\ audit[a].status = "COMPLETED"
  /\ audit' = [audit EXCEPT ![a].current = 0, ![a].status = "PENDING"]
  /\ UNCHANGED <<closed, hand>>

ClosePeriod ==
  /\ \A a \in Audits : audit[a].status # "PENDING"
  /\ closed' = TRUE /\ UNCHANGED <<audit, hand>>

AuditNext ==
  \/ ClosePeriod
  \/ \E a \in Audits : \/ \E late \in BOOLEAN : MeasureOrder(a, late)
                       \/ ReviewAudit(a) \/ ReopenAudit(a)

StaffNext ==
  \/ LeaveNext /\ UNCHANGED <<attendance, audits>>
  \/ AttendanceNext /\ UNCHANGED <<leaves, audits>>
  \/ AuditNext /\ UNCHANGED <<leaves, attendance>>

StaffSpec == StaffInit /\ [][StaffNext]_staffVars

-----------------------------------------------------------------------------
(* Properties.                                                             *)

(* However requests are made, approved, rejected and cancelled at the same *)
(* time, the balance never counts more days than it was given ("re-check   *)
(* the available balance under the lock - request-time validation ... may  *)
(* have been satisfied for both", leave_service.py:385), and the leaves    *)
(* that are approved fit into the days it counts, unless a cancellation    *)
(* has given days back twice or to a balance that had changed since it was *)
(* read (:482, :492).  A type without an annual quota is not tracked.      *)
Approved == {l \in Leaves : leave[l] = "APPROVED"}
UsedWithinQuota ==
  /\ balance.used <= balance.quota
  /\ Annual > 0 /\ ~misgiven => SumFunctionOnSet(Days, Approved) <= balance.used

(* What is reported of a day agrees with what is recorded: the lateness is *)
(* that of the recorded check-in, however the day was entered, adjusted or *)
(* checked in and out; and an audit counts as reviewed exactly while it    *)
(* has a current review, one, however often it is reopened.                *)
ReportsAgree ==
  /\ day.late = Lateness(day)
  /\ day.absent => day.in = 0
  /\ \A a \in Audits : /\ audit[a].current = IF audit[a].status = "COMPLETED" THEN 1 ELSE 0
                       /\ audit[a].status = "PENDING" => audit[a].needed
=============================================================================
