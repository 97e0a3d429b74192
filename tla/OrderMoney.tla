----------------------------- MODULE OrderMoney -----------------------------
(***************************************************************************)
(* What the hub knows of the payment of one order.  The payment lines of   *)
(* the till and the collections of a courier arrive one by one, beside the *)
(* header that says how the order was paid; two devices may each have      *)
(* settled it.  The split of the total over tenders is derived from what   *)
(* has arrived (tender.py), a header that was lost is repaired from it     *)
(* (order_payment_reconciliation.py), refunds are taken out of it          *)
(* (order_refund.py).                                                      *)
(***************************************************************************)
EXTENDS Integers, Sequences, FiniteSets, Functions

CONSTANTS
  Actions,    \* checkouts (payment_action_id), one per device
  Total,      \* what the order costs
  Plans,      \* their contents: [named, till], till a sequence of
              \* [method, amount] by line_index; older terminals send no
              \* action id, and are not named
  Rounds,     \* what a courier may collect: sets of [id, method, amount]
  Extra,      \* a method recognised only while it is configured
  Events      \* refunds of a provider: [id, method, amount]


VARIABLES
  plan,        \* plan[a]: what the device of a recorded
  round,       \* what the courier collected
  lines,       \* the till's lines at the hub: [by, index, method, amount]
  collected,   \* the courier's rows at the hub
  head,        \* the order's header at the hub
  configured,  \* Extra is an active PaymentMethodConfig
  refunds      \* the OrderRefund rows

moneyVars == <<plan, round, lines, collected, head, configured, refunds>>

None == "none"

(* "MIXED" is no method but the header's word for several.                 *)
ASSUME MoneyAssumption ==
  /\ Total \in Nat \ {0}
  /\ None \notin Actions
  /\ Extra \notin {"CASH", "UZCARD", "PAYME", "MIXED"}
  /\ Plans \subseteq [named : BOOLEAN, till : Seq([method : STRING, amount : Nat])]
  /\ \A door \in Rounds :
       IsFiniteSet(door) /\ door \subseteq [id : STRING, method : STRING, amount : Nat]
  /\ \A e \in Events : e.id # "cancel" /\ e.amount \in Nat

Concrete == {"CASH", "UZCARD", "PAYME"} \cup IF configured THEN {Extra} ELSE {}
CardMethods == {"UZCARD", Extra}
Bucket(m) == CASE m = "CASH" -> "cash" [] m = "PAYME" -> "payme" [] OTHER -> "card"
Buckets == {"cash", "card", "payme", "unknown"}

ActionOf(a) == IF plan[a].named THEN a ELSE None
LinesOf(a) ==
  LET till == plan[a].till
  IN {[by |-> a, index |-> i - 1, method |-> till[i].method, amount |-> till[i].amount] :
        i \in 1..Len(till)}

Worth(S) == SumFunctionOnSet([r \in S |-> r.amount], S)
Methods(S) == {r.method : r \in S}
Cash(S) == {r \in S : r.method = "CASH"}

(* How the header names the methods of a checkout.                         *)
RolledUp(ms) == IF Cardinality(ms) = 1 THEN CHOOSE m \in ms : TRUE ELSE "MIXED"

(* A till collects what is due, and gives change only for cash.            *)
Exact(till, door) == Worth(till \ Cash(till)) + Worth(door)
Pays(till, door) ==
  /\ Exact(till, door) <= Total
  /\ IF Cash(till) = {} THEN Exact(till, door) = Total
     ELSE Worth(till) + Worth(door) >= Total

MoneyInit ==
  /\ plan \in [Actions -> Plans] /\ round \in Rounds
  /\ \A a \in Actions : Pays(LinesOf(a), round)
  /\ lines = {} /\ collected = {} /\ refunds = {} /\ configured = TRUE
  /\ head = [paid |-> FALSE, method |-> None, action |-> None, canceled |-> FALSE]

-----------------------------------------------------------------------------
(* The split of the order over tenders.                                    *)

AllTo(b) == [x \in Buckets |-> IF x = b THEN Total ELSE 0]

(* Cash is what the other tenders leave: a cash line holds what was handed *)
(* over, change included.                                                  *)
Attributed(S) ==
  [b \in Buckets |->
     IF b = "cash" THEN Total - Worth(S \ Cash(S))
     ELSE Worth({r \in S \ Cash(S) : Bucket(r.method) = b})]

(* An order with an action needs all lines of that action, gapless, whose  *)
(* methods are those of its header.                                        *)
Evidenced ==
  /\ lines \cup collected # {}
  /\ \A l \in lines : ActionOf(l.by) = head.action
  /\ {l.index : l \in lines} = 0..(Cardinality(lines) - 1)
  /\ LET ms == Methods(lines \cup collected)
     IN IF head.method = "MIXED" THEN Cardinality(ms) >= 2 ELSE ms = {head.method}

(* Mutant: rows that fall short of the total are taken for all of them.    *)
CoveredSoFar ==
  /\ Methods(lines \cup collected) \subseteq Concrete
  /\ Exact(lines, collected) <= Total

(* The rows must cover the total, and what is exact must not exceed it.    *)
Covered ==
  /\ Methods(lines \cup collected) \subseteq Concrete
  /\ Exact(lines, collected) <= Total
  /\ LET all == lines \cup collected
     IN Worth(Cash(all)) >= Total - Worth(all \ Cash(all))

(* What the rows do not prove is nobody's.                                 *)
Unproved ==
  \/ head.action # None /\ ~Evidenced
  \/ lines \cup collected # {} /\ ~Covered

(* Without rows the header is believed.                                    *)
Declared ==
  IF head.method = None THEN AllTo("cash")
  ELSE IF head.method \in Concrete THEN AllTo(Bucket(head.method)) ELSE AllTo("unknown")

Split ==
  IF Unproved THEN AllTo("unknown")
  ELSE IF lines \cup collected = {} THEN Declared ELSE Attributed(lines \cup collected)

Least(a, b) == IF a <= b THEN a ELSE b

(* What of the cash is in the drawer: the courier's never was.             *)
DrawerCash ==
  IF Split["unknown"] > 0 THEN 0
  ELSE IF lines \cup collected = {} THEN Split["cash"]
  ELSE LET due == Total - Exact(lines, collected)
       IN Least(Split["cash"], Least(Worth(Cash(lines)), IF due > 0 THEN due ELSE 0))

Detail ==
  [m \in CardMethods |->
     IF Split["unknown"] > 0 \/ m \notin Concrete THEN 0
     ELSE IF lines \cup collected = {} THEN (IF head.method = m THEN Total ELSE 0)
     ELSE Worth({r \in lines \cup collected : r.method = m})]

-----------------------------------------------------------------------------
(* What arrives.  A line of another action than the header's is a          *)
(* duplicate; one whose method is unknown is refused.                      *)

AcceptLine(a) ==
  \E l \in LinesOf(a) \ lines :
    /\ head.action # None => ActionOf(a) = head.action
    /\ l.method \in Concrete
    /\ lines' = lines \cup {l}
    /\ UNCHANGED <<plan, round, collected, head, configured, refunds>>

AcceptCollection ==
  \E r \in round \ collected :
    /\ r.method \in Concrete
    /\ collected' = collected \cup {r}
    /\ UNCHANGED <<plan, round, lines, head, configured, refunds>>

(* A paid header is never rewritten by a branch, only given the action it  *)
(* lacks.                                                                  *)
AcceptHeader(a) ==
  /\ head' = [head EXCEPT
       !.paid = TRUE,
       !.method = IF head.paid THEN @ ELSE RolledUp(Methods(LinesOf(a) \cup round)),
       !.action = IF @ = None THEN ActionOf(a) ELSE @]
  /\ head' # head
  /\ UNCHANGED <<plan, round, lines, collected, configured, refunds>>

(* reconcile_stale_paid_headers, after a batch and periodically.           *)
Anonymous == {l \in lines : ActionOf(l.by) = None}
Named == {ActionOf(l.by) : l \in lines \ Anonymous}

Provable ==
  /\ lines \cup collected # {}
  /\ Cardinality(Named) <= 1
  /\ Named = {} \/ Anonymous = {}
  /\ Methods(lines \cup collected) \subseteq Concrete
  /\ Pays(lines, collected)

RepairHeader ==
  /\ ~head.paid /\ ~head.canceled /\ Provable
  /\ head' = [head EXCEPT
       !.paid = TRUE, !.method = RolledUp(Methods(lines \cup collected)),
       !.action = IF Named = {} THEN @ ELSE CHOOSE a \in Named : TRUE]
  /\ UNCHANGED <<plan, round, lines, collected, configured, refunds>>

Configure ==
  /\ configured' = ~configured
  /\ UNCHANGED <<plan, round, lines, collected, head, refunds>>

-----------------------------------------------------------------------------
(* Refunds.                                                                *)

Returned(b) == SumFunctionOnSet([r \in refunds |-> r.split[b]], refunds)
ReturnedInAll == Worth(refunds)
ReturnedDrawer == SumFunctionOnSet([r \in refunds |-> r.drawer], refunds)
ReturnedDetail(m) == SumFunctionOnSet([r \in refunds |-> r.detail[m]], refunds)

(* Mutant: only the refund of a cancellation counts as given back.         *)
PriorForgotten == [b \in Buckets |-> 0]

Prior == [b \in Buckets |-> Returned(b)]

Remaining == [b \in Buckets |-> Split[b] - Prior[b]]
RemainingDetail == [m \in CardMethods |-> IF m \in Concrete THEN Detail[m] - ReturnedDetail(m) ELSE 0]
Left == SumFunctionOnSet(Remaining, Buckets)

CancelRefund ==
  [id |-> "cancel", amount |-> Left, split |-> Remaining,
   drawer |-> DrawerCash - ReturnedDrawer, detail |-> RemainingDetail,
   under |-> head.action]

Reconciles ==
  /\ \A b \in Buckets : Remaining[b] >= 0
  /\ DrawerCash >= ReturnedDrawer
  /\ \A m \in CardMethods : RemainingDetail[m] >= 0

(* A paid order is canceled with the refund of what is left of it, or not  *)
(* at all; an unpaid one has nothing to return.                            *)
Cancel ==
  /\ ~\E r \in refunds : r.id = "cancel"
  /\ head.canceled => head.paid
  /\ \/ ~head.paid /\ refunds' = refunds
     \/ head.paid /\ Left = 0 /\ Reconciles /\ ~head.canceled /\ refunds' = refunds
     \/ head.paid /\ Left > 0 /\ Reconciles /\ refunds' = refunds \cup {CancelRefund}
  /\ head' = [head EXCEPT !.canceled = TRUE]
  /\ UNCHANGED <<plan, round, lines, collected, configured>>

RefundByProvider(e) ==
  /\ ~\E r \in refunds : r.id = e.id
  /\ head.paid /\ e.method \in Concrete
  /\ e.amount <= Total - ReturnedInAll
  /\ refunds' = refunds \cup
       {[id |-> e.id, amount |-> e.amount, drawer |-> 0, under |-> head.action,
         split |-> [b \in Buckets |-> IF b = Bucket(e.method) THEN e.amount ELSE 0],
         detail |-> [m \in CardMethods |-> IF m = e.method THEN e.amount ELSE 0]]}
  /\ UNCHANGED <<plan, round, lines, collected, head, configured>>

MoneyNext ==
  \/ \E a \in Actions : AcceptLine(a) \/ AcceptHeader(a)
  \/ AcceptCollection \/ RepairHeader \/ Configure \/ Cancel
  \/ \E e \in Events : RefundByProvider(e)

MoneySpec == MoneyInit /\ [][MoneyNext]_moneyVars

-----------------------------------------------------------------------------
(* Properties.                                                             *)

(* What the parts of a checkout say cannot be told from the whole when a   *)
(* till has given as much change as a missing row is worth.                *)
ChangeIsSmall(a) ==
  LET change == Worth(LinesOf(a)) + Worth(round) - Total
  IN \A r \in (LinesOf(a) \ Cash(LinesOf(a))) \cup round : r.amount > change

(* The split always sums to the order's total ("the returned split sums    *)
(* EXACTLY to total", tender.py:176).  Whatever part of the rows of one or *)
(* two checkouts has arrived, in whatever order, with the header or with   *)
(* one repaired from the rows, an order with an action is attributed as    *)
(* its till settled it or not at all ("fail closed", tender.py:191), and   *)
(* is attributed once all has arrived.                                     *)
TenderRight ==
  /\ SumFunctionOnSet(Split, Buckets) = Total
  /\ \A a \in Actions :
       (head.action = a /\ ChangeIsSmall(a)) =>
         LET settled == LinesOf(a) \cup round
         IN /\ Split \in {AllTo("unknown"), Attributed(settled)}
            /\ (lines \cup collected = settled /\ head.method = RolledUp(Methods(settled))
                  /\ configured) => Split = Attributed(settled)

(* However provider refunds, a cancellation, late rows and a change of the *)
(* configured methods interleave, no more is returned than was paid, a     *)
(* cancellation returns exactly what is left, and the drawer pays back     *)
(* only cash it kept ("otherwise the same money would be subtracted        *)
(* twice", order_refund.py:147).                                           *)
RefundedOnce ==
  /\ ReturnedInAll <= Total
  /\ (\E r \in refunds : r.id = "cancel") => ReturnedInAll = Total
  /\ \A r \in refunds : r.under \in Actions /\ ChangeIsSmall(r.under) =>
       r.drawer <= Total - Exact(LinesOf(r.under), round)
=============================================================================
