-------------------------- MODULE ShiftSettlement --------------------------
(***************************************************************************)
(* One cashier's shifts from the terminal to the manager's confirmation.   *)
(*                                                                         *)
(* The terminal closes a shift with a manifest: exactly the rows its money *)
(* is made of.  Header, orders, payments, refunds, drawer expenses and     *)
(* tender totals then travel to the hub one by one, in any order, some of  *)
(* them twice, while the hub may refund an order or pay an expense of a    *)
(* shift it still takes for active.  The hub acknowledges the close, and   *)
(* lets a manager confirm it and post the money, only when what it holds   *)
(* is what the manifest says; a confirmed shift takes no other evidence.   *)
(***************************************************************************)
EXTENDS Treasury

CONSTANTS
  Orders,      \* orders of the cashier
  Expenses,    \* expenses paid out of the drawer
  Amount,      \* [Orders \cup Expenses -> Nat \ {0}]
  Method,      \* [Orders -> Methods]: how an order is paid
  LastShift,   \* bound: shifts started
  HubRows,     \* bound: rows the hub makes itself
  Counts       \* sums a manager may confirm for a tender

Shifts == 1..LastShift

Methods == {"CASH", "CARD"}

ASSUME ShiftSettlementAssumption ==
  /\ Orders \cap Expenses = {}
  /\ Amount \in [Orders \cup Expenses -> Nat \ {0}]
  /\ Method \in [Orders -> Methods]
  /\ LastShift \in Nat \ {0} /\ HubRows \in Nat
  /\ Counts \subseteq Nat

VARIABLES
  till,      \* till[s]: the shift at the terminal
  hub,       \* hub[s]: the hub's copy of its header
  local,     \* rows of orders, money and tenders at the terminal
  cloud,     \* the hub's copies, and rows made there
  queue,     \* what the terminal has still to push
  manifest,  \* manifest[s]: the evidence frozen by the close
  recon,     \* recon[s]: what the manager has confirmed
  acked      \* shifts the terminal knows to be complete at the hub

shifts == <<till, hub, local, cloud, queue, manifest, recon, acked>>

vars == <<shifts, balance, book>>

OrderKinds == {"open", "canceled", "sale"}

Record(kind, of, in, by) == [kind |-> kind, of |-> of, in |-> in, by |-> by]

HubMade == {r \in cloud : r.by = "hub"}

Record_ == [kind : OrderKinds \cup {"payment", "refund"}, of : Orders,
            in : Shifts, by : {"till", "hub"}]
           \cup [kind : {"expense", "void"}, of : Expenses,
                 in : Shifts, by : {"till", "hub"}]
           \cup [kind : {"tenders", "header"}, of : {"shift"},
                 in : Shifts, by : {"till"}]

NotYet == [m \in Methods |-> -1]

TypeOK ==
  /\ till \in [Shifts -> {"none", "active", "ended"}]
  /\ hub \in [Shifts -> {"none", "active", "ended", "completed"}]
  /\ local \subseteq Record_ /\ cloud \subseteq Record_ /\ queue \subseteq Record_
  /\ manifest \in [Shifts -> SUBSET Record_]
  /\ recon \in [Shifts -> {NotYet} \cup [Methods -> Counts]]
  /\ acked \subseteq {s \in Shifts : till[s] = "ended"}
  /\ \A s, t \in Shifts : s < t /\ till[t] # "none" => till[s] = "ended"

Init ==
  /\ till = [s \in Shifts |-> "none"]
  /\ hub = [s \in Shifts |-> "none"]
  /\ local = {} /\ cloud = {} /\ queue = {}
  /\ manifest = [s \in Shifts |-> {}]
  /\ recon = [s \in Shifts |-> NotYet]
  /\ acked = {}
  /\ TreasuryInit

-----------------------------------------------------------------------------
(* What the money of a shift is derived from.                              *)

(* A shift without an end takes in whatever is paid later.                 *)
Window(s, state) == IF state = "active" THEN s..LastShift ELSE {s}

OrderRow(rows, o) == {r \in rows : r.kind \in OrderKinds /\ r.of = o}

Sales(rows, window) == {r \in rows : r.kind = "sale" /\ r.in \in window}

Unpaid(rows, window) == {r \in rows : r.kind = "open" /\ r.in \in window}

(* Payments count through their orders; the other rows name their shift.   *)
Evidence(rows, s, window) ==
  LET sales == Sales(rows, window)
  IN sales
     \cup {r \in rows : r.kind = "payment" /\ \E o \in sales : o.of = r.of}
     \cup {r \in rows : r.kind \in {"refund", "expense", "void"} /\ r.in = s}

Sum(rows) == SumFunctionOnSet([r \in rows |-> Amount[r.of]], rows)

Expected(evidence, m) ==
  LET by(kind) == {r \in evidence : r.kind = kind}
      tender(kind) == {r \in by(kind) : Method[r.of] = m}
      drawer == Sum(by("expense")) - Sum(by("void"))
  IN Sum(tender("sale")) - Sum(tender("refund"))
     - (IF m = "CASH" THEN drawer ELSE 0)

Refunded(rows, o) == \E r \in rows : r.kind = "refund" /\ r.of = o

Voided(rows, x) == \E r \in rows : r.kind = "void" /\ r.of = x

-----------------------------------------------------------------------------
(* The terminal.                                                           *)

Write(gone, new) ==
  /\ local' = (local \ gone) \cup new
  /\ queue' = (queue \ gone) \cup new

Header(s) == Record("header", "shift", s, "till")

Tenders(s) == Record("tenders", "shift", s, "till")

(* One live shift for a cashier; the hub hears of it later.                *)
StartShift(s) ==
  /\ till[s] = "none"
  /\ \A t \in Shifts : t < s => till[t] = "ended"
  /\ till' = [till EXCEPT ![s] = "active"]
  /\ queue' = queue \cup {Header(s)}
  /\ UNCHANGED <<hub, local, cloud, manifest, recon, acked, treasury>>

TakeOrder(s, o) ==
  /\ till[s] = "active"
  /\ OrderRow(local, o) = {}
  /\ Write({}, {Record("open", o, s, "till")})
  /\ UNCHANGED <<till, hub, cloud, manifest, recon, acked, treasury>>

CancelOrder(s, o) ==
  /\ till[s] = "active"
  /\ Record("open", o, s, "till") \in local
  /\ Write({Record("open", o, s, "till")}, {Record("canceled", o, s, "till")})
  /\ UNCHANGED <<till, hub, cloud, manifest, recon, acked, treasury>>

Pay(s, o) ==
  /\ till[s] = "active"
  /\ Record("open", o, s, "till") \in local
  /\ Write({Record("open", o, s, "till")},
           {Record("sale", o, s, "till"), Record("payment", o, s, "till")})
  /\ UNCHANGED <<till, hub, cloud, manifest, recon, acked, treasury>>

(* A refund belongs to the shift that gives the money back.                *)
Refund(s, o) ==
  /\ till[s] = "active"
  /\ \E r \in OrderRow(local, o) : r.kind = "sale"
  /\ ~Refunded(local, o)
  /\ Write({}, {Record("refund", o, s, "till")})
  /\ UNCHANGED <<till, hub, cloud, manifest, recon, acked, treasury>>

PayExpense(s, x) ==
  /\ till[s] = "active"
  /\ \A r \in local : r.of # x
  /\ Amount[x] <= Expected(Evidence(local, s, {s}), "CASH")
  /\ Write({}, {Record("expense", x, s, "till")})
  /\ UNCHANGED <<till, hub, cloud, manifest, recon, acked, treasury>>

(* A reversal goes to the shift of what it reverses, open or closed.       *)
VoidExpense(x) ==
  /\ ~Voided(local, x)
  /\ \E r \in local : /\ r.kind = "expense" /\ r.of = x
                      /\ Write({}, {Record("void", x, r.in, "till")})
  /\ UNCHANGED <<till, hub, cloud, manifest, recon, acked, treasury>>

(* end_shift: totals, tender rows and manifest are frozen in one step.     *)
EndShift(s) ==
  /\ till[s] = "active"
  /\ Unpaid(local, {s}) = {}
  /\ till' = [till EXCEPT ![s] = "ended"]
  /\ manifest' = [manifest EXCEPT ![s] = Evidence(local, s, {s})]
  /\ Write({}, {Header(s), Tenders(s)})
  /\ UNCHANGED <<hub, cloud, recon, acked, treasury>>

-----------------------------------------------------------------------------
(* The hub's own writers.                                                  *)

(* A cashier with two live shifts may not settle money.                    *)
OnlyLive(s) == {t \in Shifts : hub[t] = "active"} = {s}

RefundAtHub(s, o) ==
  /\ Cardinality(HubMade) < HubRows
  /\ OnlyLive(s)
  /\ \E r \in OrderRow(cloud, o) : r.kind = "sale"
  /\ ~Refunded(cloud, o)
  /\ cloud' = cloud \cup {Record("refund", o, s, "hub")}
  /\ UNCHANGED <<till, hub, local, queue, manifest, recon, acked, treasury>>

PayExpenseAtHub(s, x) ==
  /\ Cardinality(HubMade) < HubRows
  /\ hub[s] = "active"
  /\ \A r \in local \cup cloud : r.of # x
  /\ Amount[x] <= Expected(Evidence(cloud, s, Window(s, hub[s])), "CASH")
  /\ cloud' = cloud \cup {Record("expense", x, s, "hub")}
  /\ UNCHANGED <<till, hub, local, queue, manifest, recon, acked, treasury>>

VoidAtHub(x) ==
  /\ Cardinality(HubMade) < HubRows
  /\ ~Voided(cloud, x)
  /\ \E r \in cloud : /\ r.kind = "expense" /\ r.of = x
                      /\ cloud' = cloud \cup {Record("void", x, r.in, "hub")}
  /\ UNCHANGED <<till, hub, local, queue, manifest, recon, acked, treasury>>

(* The terminal pulls what the hub has made.  A refund it has made itself  *)
(* takes the identity and the shift of the hub's.                          *)
PullRow(r) ==
  /\ r \in cloud \ local /\ r.by = "hub"
  /\ r.kind = "void" => /\ ~Voided(local, r.of)
                        /\ \E e \in local : e.kind = "expense" /\ e.of = r.of
  /\ LET same == {q \in local : r.kind = "refund" /\ q.kind = "refund" /\ q.of = r.of}
     IN /\ local' = (local \ same) \cup {r}
        /\ queue' = queue \ same
  /\ UNCHANGED <<till, hub, cloud, manifest, recon, acked, treasury>>

-----------------------------------------------------------------------------
(* The hub receives what the terminal pushes.                              *)

Settled(s) == recon[s] # NotYet \/ hub[s] = "completed"

(* The shifts whose money a row may be part of.                            *)
Owners(r) ==
  LET sold == \/ r.kind = "sale"
              \/ r.kind = "payment" /\ Sales(OrderRow(cloud, r.of), Shifts) # {}
      direct == r.kind \in {"refund", "expense", "void", "tenders"}
  IN {s \in Shifts : \/ direct /\ s = r.in
                     \/ sold /\ hub[s] # "none" /\ r.in \in Window(s, hub[s])}

ParentsHere(r) ==
  /\ r.kind = "payment" => OrderRow(cloud, r.of) # {}
  /\ r.kind = "refund" => OrderRow(cloud, r.of) # {} /\ hub[r.in] # "none"
  /\ r.kind \in {"expense", "tenders"} => hub[r.in] # "none"
  /\ r.kind = "void" => \E e \in cloud : e.kind = "expense" /\ e.of = r.of

(* Another row already stands for the same event.                          *)
Taken(r) ==
  \/ r.kind = "refund" /\ Refunded(cloud \ {r}, r.of)
  \/ r.kind = "void" /\ Voided(cloud \ {r}, r.of)

(* Mutant: whatever is well formed is taken.                               *)
AdmittedLate(r) == r \in Record_

(* Mutant: a shift is settled as soon as it is closed.                     *)
AdmittedOpen(r) == r \in cloud \/ (\A s \in Owners(r) : hub[s] = "active")

(* Evidence of a settled shift may be repeated, never added.               *)
Admitted(r) == r \in cloud \/ (\A s \in Owners(r) : ~Settled(s))

(* A row whose answer was lost is sent again, and found where it is.       *)
Receive(r) ==
  /\ r \in local /\ r.kind # "header"
  /\ ParentsHere(r) /\ ~Taken(r) /\ Admitted(r)
  /\ cloud' = (IF r.kind \in OrderKinds THEN cloud \ OrderRow(cloud, r.of) ELSE cloud)
              \cup {r}
  /\ queue' = queue \ {r}
  /\ UNCHANGED <<till, hub, local, manifest, recon, acked, treasury>>

(* The queue holds the newest header; a close is stored once and replayed. *)
ReceiveHeader(s) ==
  /\ Header(s) \in queue
  /\ hub' = [hub EXCEPT ![s] = IF @ \in {"none", "active"} THEN till[s] ELSE @]
  /\ queue' = queue \ {Header(s)}
  /\ UNCHANGED <<till, local, cloud, manifest, recon, acked, treasury>>

-----------------------------------------------------------------------------
(* Acknowledgement and confirmation.                                       *)

BundleOK(s) ==
  /\ hub[s] \in {"ended", "completed"}
  /\ Tenders(s) \in cloud
  /\ Unpaid(cloud, {s}) = {}
  /\ Evidence(cloud, s, {s}) = manifest[s]

Acknowledge(s) ==
  /\ till[s] = "ended" /\ s \notin acked
  /\ BundleOK(s)
  /\ acked' = acked \cup {s}
  /\ UNCHANGED <<till, hub, local, cloud, queue, manifest, recon, treasury>>

(* A tender whose refunds exceed its sales posts that, not the count.      *)
Posted(s, confirmed) ==
  [m \in Methods |-> LET e == Expected(manifest[s], m)
                     IN IF e < 0 THEN e ELSE confirmed[m]]

Reconcile(s, confirmed) ==
  /\ hub[s] = "ended" /\ recon[s] = NotYet
  /\ BundleOK(s)
  /\ PostSettlement(s, Posted(s, confirmed))
  /\ recon' = [recon EXCEPT ![s] = confirmed]
  /\ hub' = [hub EXCEPT ![s] = "completed"]
  /\ UNCHANGED <<till, local, cloud, queue, manifest, acked>>

(* The same confirmation again answers from what is posted.                *)
ReconcileAgain(s) ==
  /\ recon[s] # NotYet
  /\ PostSettlement(s, Posted(s, recon[s]))
  /\ UNCHANGED shifts

-----------------------------------------------------------------------------
Next ==
  \/ \E s \in Shifts : \/ StartShift(s) \/ EndShift(s) \/ ReceiveHeader(s)
                       \/ Acknowledge(s) \/ ReconcileAgain(s)
  \/ \E s \in Shifts, c \in [Methods -> Counts] : Reconcile(s, c)
  \/ \E s \in Shifts, o \in Orders : \/ TakeOrder(s, o) \/ CancelOrder(s, o)
                                     \/ Pay(s, o) \/ Refund(s, o) \/ RefundAtHub(s, o)
  \/ \E s \in Shifts, x \in Expenses : PayExpense(s, x) \/ PayExpenseAtHub(s, x)
  \/ \E x \in Expenses : VoidExpense(x) \/ VoidAtHub(x)
  \/ \E r \in cloud : PullRow(r)
  \/ \E r \in local : Receive(r)

Spec == Init /\ [][Next]_vars

(* The push loop goes on delivering whatever of its queue the hub takes.   *)
(* Nothing is assumed of the people at the terminal, at the hub, or of the *)
(* pull.                                                                   *)
Deliver ==
  \/ \E r \in queue : Receive(r)
  \/ \E s \in Shifts : ReceiveHeader(s)

Fairness == WF_vars(Deliver)

FairSpec == Spec /\ Fairness

-----------------------------------------------------------------------------
(* Reversals written after the close.                                      *)
LateVoids(s) == {r \in local : r.kind = "void" /\ r.in = s} \ manifest[s]

(* The money a manager confirmed rests, for ever, on the rows the terminal *)
(* froze: nothing that arrives after the confirmation changes them, and    *)
(* what is in the book is what was confirmed (receiver.py:469, service.py: *)
(* 1503).  Reversals made at the hub itself are left out: its own services *)
(* write them into a confirmed shift.                                      *)
SettledIsEvidence ==
  \A s \in Shifts : recon[s] # NotYet =>
    /\ {r \in Evidence(cloud, s, {s}) : r.kind # "void" \/ r.by = "till" \/ r \in manifest[s]}
         = manifest[s]
    /\ \A m \in Methods :
         Deltas({r \in Deposits(s) : r.item = m}) = Posted(s, recon[s])[m]

(* However often a confirmation is repeated, the accounts hold each        *)
(* tender of each shift once.                                              *)
CreditedOnce ==
  /\ \A r \in Rows : book[r] = 1
  /\ \A k \in Kinds : balance[k] = Moved(Rows, k)

(* Every close becomes complete at the hub by itself, and those of several *)
(* shifts at one time, if the hub made no row of its own and no expense of *)
(* the shift was reversed after the close.                                 *)
CloseArrives ==
  []<>(\A s \in Shifts : till[s] = "ended" =>
         \/ hub[s] # "none" /\ Evidence(cloud, s, {s}) = manifest[s]
         \/ LateVoids(s) # {}
         \/ \E r \in cloud \cup local : r.by = "hub")
=============================================================================
