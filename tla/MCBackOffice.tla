---------------------------- MODULE MCBackOffice ----------------------------
(* What a shop keeps of people and of its cash: the pay of an employee,    *)
(* the employee's time, the stamps of a customer and the customer's cart,  *)
(* and the drawer.  A behaviour exercises one of the parts.                *)
EXTENDS Payroll, StaffTime, Customers, BranchCash

CONSTANTS k1, k2, c1, l1, l2, l3, g1, m1, m2, x1, x2

(* One command of the cash costs one unit, another two.                    *)
CashOut == [p \in Commands \cup Local |-> IF p \in {m2, x2} THEN 2 ELSE 1]

WrittenByK1 == [c \in Cases |-> k1]
FieldEdits == {<<"deduction", 1>>}

LengthOf == [l \in Leaves |-> IF l = l1 THEN 2 ELSE 1]
FirstTwo == {<<l1, l2>>, <<l2, l1>>}
Weeks == {<<1, 3>>, <<2, 4>>}

TwoSchemes ==
  {[enabled |-> TRUE, perOrder |-> 1, perReward |-> 2], [enabled |-> TRUE, perOrder |-> 2, perReward |-> 1]}
OfOneGuest == [m \in Meals |-> g1]

Tap(kind, p) == [guest |-> g1, kind |-> kind, product |-> p, quantity |-> 1]
Taps ==
  <<[Tap("add", "p1") EXCEPT !.quantity = 2], Tap("add", "p1"), Tap("add", "p2"), Tap("dec", "p1"),
    Tap("rm", "p1"), Tap("clear", "p1"), Tap("checkout", "p1"), Tap("checkout", "p1")>>

VARIABLE part

people == <<payrollVars, staffVars, stampVars, cartVars>>
mcvars == <<people, vars, part>>

MCInit ==
  /\ PayrollInit /\ StaffInit /\ StampInit /\ CartInit /\ Init
  /\ part \in {"payroll", "leave", "day", "audit", "stamps", "cart", "cash"}
  /\ part # "stamps" => \A r \in Schemes : scheme.stored.perOrder <= r.perOrder

Office == part \in {"payroll", "leave", "day", "audit"} /\ UNCHANGED <<stampVars, cartVars, vars, part>>

MCNext ==
  \/ Office /\ part = "payroll" /\ PayrollNext /\ UNCHANGED staffVars
  \/ Office /\ part = "leave" /\ LeaveNext /\ UNCHANGED <<payrollVars, attendance, audits>>
  \/ Office /\ part = "day" /\ AttendanceNext /\ UNCHANGED <<payrollVars, leaves, audits>>
  \/ Office /\ part = "audit" /\ AuditNext /\ UNCHANGED <<payrollVars, leaves, attendance>>
  \/ part = "stamps" /\ StampNext /\ UNCHANGED <<payrollVars, staffVars, cartVars, vars, part>>
  \/ part = "cart" /\ CartNext /\ UNCHANGED <<payrollVars, staffVars, stampVars, vars, part>>
  \/ part = "cash" /\ Next /\ UNCHANGED <<people, part>>

MCSpec == MCInit /\ [][MCNext]_mcvars

(* The sync loop is fair to the cash, as in BranchCash.                    *)
Syncs(A) == part = "cash" /\ A /\ UNCHANGED <<people, part>>

MCFairSpec ==
  /\ MCSpec
  /\ \A c \in Commands : WF_<<vars, part>>(Syncs(PullRow(c))) /\ WF_<<vars, part>>(Syncs(Redeliver(c)))
  /\ WF_<<vars, part>>(Syncs(Push))
  /\ WF_<<vars, part>>(Syncs(\E s \in wire : Deliver(s)))
=============================================================================
