----------------------------- MODULE StockRoom -----------------------------
(***************************************************************************)
(* What takes stock at a branch: orders that reserve, deduct and give      *)
(* back, production that reserves ingredients and turns them into output,  *)
(* and physical counts that set a level.                                   *)
(*                                                                         *)
(* The terminal's database takes the write lock when a transaction begins  *)
(* (IMMEDIATE), so that a transaction is one step.  ProductionOrderService *)
(* .complete reads the status before its transaction: it is two.           *)
(***************************************************************************)
EXTENDS StockLevels

CONSTANTS
  Sold,             \* the slot orders, production and counts take from
  Made,             \* the slot production puts its output into
  Orders, MostItems,\* orders, and the items in one
  MostEdits,        \* bound: stock movements of one order by edits
  Productions, Planned, Yield,
  Counts, Counted,  \* counts, and the quantities a person may find
  DeductAt,         \* StockSettings.deduct_on_order_status
  ReserveOnCreate,  \* StockSettings.reserve_on_order_create
  CountApproval     \* StockSettings.require_count_approval

ASSUME StockRoomAssumption ==
  /\ Sold \in Slots /\ Made \in Slots
  /\ IsFiniteSet(Orders) /\ IsFiniteSet(Productions) /\ Orders \cap Productions = {}
  /\ MostItems \in Nat /\ MostEdits \in Nat
  /\ Planned \in Nat \ {0} /\ Yield \in Nat \ {0}
  /\ Counted \subseteq Nat
  /\ DeductAt \in {"CREATED", "OPEN", "PREPARING", "READY"}
  /\ ReserveOnCreate \in BOOLEAN /\ CountApproval \in BOOLEAN

VARIABLES
  order,  \* order[o]: status and number of items
  po,     \* po[p]: status, started, the ingredient's status, completions begun
  count   \* count[c]: status, what was counted, auto_adjust

room == <<order, po, count>>

Live == {"OPEN", "PREPARING", "READY"}

RoomTypeOK ==
  /\ order \in [Orders -> [st : {"none", "CANCELED"} \cup Live, qty : 0..MostItems]]
  /\ po \in [Productions ->
              [st : {"none", "DRAFT", "PLANNED", "IN_PROGRESS", "ON_HOLD",
                     "COMPLETED", "CANCELED"},
               started : BOOLEAN, ing : {"PENDING", "ALLOCATED", "CONSUMED"},
               asked : 0..2]]
  /\ count \in [Counts ->
                 [st : {"none", "DRAFT", "IN_PROGRESS", "PENDING_APPROVAL",
                        "APPROVED", "CANCELED"},
                  found : {-1} \cup Counted, auto : BOOLEAN]]

NoOrder == [st |-> "none", qty |-> 0]
NoProduction == [st |-> "none", started |-> FALSE, ing |-> "PENDING", asked |-> 0]
NoCount == [st |-> "none", found |-> -1, auto |-> FALSE]

RoomInit ==
  /\ order = [o \in Orders |-> NoOrder]
  /\ po = [p \in Productions |-> NoProduction]
  /\ count = [c \in Counts |-> NoCount]

-----------------------------------------------------------------------------
(* Orders.                                                                 *)

Has(type, of) == Rows(type, of) # {}

DeductionDue(old, new) ==
  \/ new = DeductAt
  \/ old = "none" /\ DeductAt = "CREATED"
  \/ old = "none" /\ DeductAt = "PREPARING" /\ new = "READY"

ReserveRows(o, qty) ==
  IF ReserveOnCreate THEN {Row(Sold, "RESERVATION", qty, o)} ELSE {}

(* Every reservation of the order is given up, once.                       *)
ReleaseRows(o, held) ==
  IF ReserveOnCreate /\ ~Has("RESERVATION_RELEASE", o)
  THEN {[r EXCEPT !.type = "RESERVATION_RELEASE"] : r \in held}
  ELSE {}

DeductRows(o, qty) ==
  IF Has("SALE_OUT", o) THEN {} ELSE {Row(Sold, "SALE_OUT", qty, o)}

(* Everything ever taken for the order comes back, once.                   *)
ReverseRows(o) ==
  IF Has("SALE_OUT", o) /\ ~Has("ORDER_REVERSAL", o)
  THEN {Row(Sold, "ORDER_REVERSAL", Moved("SALE_OUT", o), o)}
  ELSE {}

(* on_status_change, in the transaction of the status.                     *)
OrderCreated(o, new, qty) ==
  /\ order[o].st = "none" /\ new \in {"OPEN", "PREPARING", "READY"}
  /\ LET made == ReserveRows(o, qty)
         due == DeductionDue("none", new)
     IN Post(made \cup IF due THEN ReleaseRows(o, made) \cup DeductRows(o, qty) ELSE {})
  /\ order' = [order EXCEPT ![o] = [st |-> new, qty |-> qty]]
  /\ UNCHANGED <<po, count>>

OrderMoves(o, new) ==
  /\ <<order[o].st, new>> \in {<<"OPEN", "PREPARING">>, <<"PREPARING", "READY">>}
  /\ Post(IF DeductionDue(order[o].st, new)
          THEN ReleaseRows(o, Rows("RESERVATION", o)) \cup DeductRows(o, order[o].qty)
          ELSE {})
  /\ order' = [order EXCEPT ![o].st = new]
  /\ UNCHANGED <<po, count>>

OrderCanceled(o) ==
  /\ order[o].st \in Live
  /\ Post(ReleaseRows(o, Rows("RESERVATION", o)) \cup ReverseRows(o))
  /\ order' = [order EXCEPT ![o].st = "CANCELED"]
  /\ UNCHANGED <<po, count>>

(* order_stock_deduct: a manager deducts what was not deducted.            *)
DeductByHand(o) ==
  /\ order[o].st \in Live
  /\ Post(DeductRows(o, order[o].qty))
  /\ UNCHANGED room

(* adjust_for_item_change: an order that has taken stock takes or returns  *)
(* the difference.                                                         *)
EditItems(o, qty) ==
  /\ order[o].st \in Live /\ qty # order[o].qty
  /\ Moved("RETURN_FROM_CUSTOMER", o) + Moved("SALE_OUT", o) < MostItems + MostEdits
  /\ LET more == qty - order[o].qty
     IN Post(IF ~Has("SALE_OUT", o) THEN {}
             ELSE IF more > 0 THEN {Row(Sold, "SALE_OUT", more, o)}
             ELSE {Row(Sold, "RETURN_FROM_CUSTOMER", -more, o)})
  /\ order' = [order EXCEPT ![o].qty = qty]
  /\ UNCHANGED <<po, count>>

-----------------------------------------------------------------------------
(* Production.                                                             *)

Allocate(p) ==
  IF po[p].ing = "PENDING" THEN {Row(Sold, "RESERVATION", Planned, p)} ELSE {}

Release(p) ==
  IF po[p].ing = "ALLOCATED" THEN {Row(Sold, "RESERVATION_RELEASE", Planned, p)} ELSE {}

CreateProduction(p, allocate) ==
  /\ po[p].st = "none"
  /\ Post(IF allocate THEN Allocate(p) ELSE {})
  /\ po' = [po EXCEPT ![p] = [@ EXCEPT !.st = "DRAFT",
                                       !.ing = IF allocate THEN "ALLOCATED" ELSE po[p].ing]]
  /\ UNCHANGED <<order, count>>

(* The check counts what the order itself already holds as taken.          *)
PlanProduction(p) ==
  /\ po[p].st = "DRAFT"
  /\ level[Sold] - reserved[Sold] >= Planned
  /\ Post(Allocate(p))
  /\ po' = [po EXCEPT ![p] = [@ EXCEPT !.st = "PLANNED", !.ing = "ALLOCATED"]]
  /\ UNCHANGED <<order, count>>

StartProduction(p) ==
  /\ po[p].st = "PLANNED"
  /\ po' = [po EXCEPT ![p] = [@ EXCEPT !.st = "IN_PROGRESS", !.started = TRUE]]
  /\ UNCHANGED <<stock, order, count>>

HoldProduction(p) ==
  /\ po[p].st \in {"PLANNED", "IN_PROGRESS"}
  /\ po' = [po EXCEPT ![p].st = "ON_HOLD"]
  /\ UNCHANGED <<stock, order, count>>

ResumeProduction(p) ==
  /\ po[p].st = "ON_HOLD"
  /\ po' = [po EXCEPT ![p].st = IF po[p].started THEN "IN_PROGRESS" ELSE "PLANNED"]
  /\ UNCHANGED <<stock, order, count>>

(* Ingredients are released in two of the states only.                     *)
CancelProduction(p) ==
  /\ po[p].st \in {"DRAFT", "PLANNED", "IN_PROGRESS", "ON_HOLD"}
  /\ LET frees == po[p].st \in {"PLANNED", "IN_PROGRESS"} /\ po[p].ing = "ALLOCATED"
     IN /\ Post(IF frees THEN Release(p) ELSE {})
        /\ po' = [po EXCEPT ![p] = [@ EXCEPT !.st = "CANCELED",
                                             !.ing = IF frees THEN "PENDING" ELSE po[p].ing]]
  /\ UNCHANGED <<order, count>>

AskCompletion(p) ==
  /\ po[p].st = "IN_PROGRESS" /\ po[p].asked < 2
  /\ po' = [po EXCEPT ![p].asked = po[p].asked + 1]
  /\ UNCHANGED <<stock, order, count>>

(* Mutant: the reservation stays behind when its ingredient is consumed.   *)
CompleteHolding(p) ==
  /\ po[p].asked > 0
  /\ Post({Row(Sold, "PRODUCTION_OUT", Planned, p), Row(Made, "PRODUCTION_IN", Yield, p)})
  /\ po' = [po EXCEPT ![p] = [@ EXCEPT !.st = "COMPLETED", !.ing = "CONSUMED",
                                       !.asked = po[p].asked - 1]]
  /\ UNCHANGED <<order, count>>

(* The transaction reads neither the status nor whether it was consumed.   *)
CompleteProduction(p) ==
  /\ po[p].asked > 0
  /\ Post(Release(p) \cup {Row(Sold, "PRODUCTION_OUT", Planned, p),
                           Row(Made, "PRODUCTION_IN", Yield, p)})
  /\ po' = [po EXCEPT ![p] = [@ EXCEPT !.st = "COMPLETED", !.ing = "CONSUMED",
                                       !.asked = po[p].asked - 1]]
  /\ UNCHANGED <<order, count>>

-----------------------------------------------------------------------------
(* Physical counts.                                                        *)

CreateCount(c, auto) ==
  /\ count[c].st = "none"
  /\ \A d \in Counts : count[d].st \notin {"DRAFT", "IN_PROGRESS"}
  /\ count' = [count EXCEPT ![c] = [@ EXCEPT !.st = "DRAFT", !.auto = auto]]
  /\ UNCHANGED <<stock, order, po>>

StartCount(c) ==
  /\ count[c].st = "DRAFT"
  /\ count' = [count EXCEPT ![c].st = "IN_PROGRESS"]
  /\ UNCHANGED <<stock, order, po>>

RecordCount(c, n) ==
  /\ count[c].st \in {"DRAFT", "IN_PROGRESS"}
  /\ count' = [count EXCEPT ![c] = [@ EXCEPT !.st = "IN_PROGRESS", !.found = n]]
  /\ UNCHANGED <<stock, order, po>>

(* The level becomes what was counted, whatever moved it meanwhile.        *)
Adjustment(c) ==
  IF count[c].found = level[Sold] THEN {}
  ELSE {Row(Sold, "COUNT_ADJUSTMENT", count[c].found - level[Sold], c)}

CompleteCount(c) ==
  /\ count[c].st = "IN_PROGRESS" /\ count[c].found # -1
  /\ count' = [count EXCEPT ![c].st = IF CountApproval THEN "PENDING_APPROVAL" ELSE "APPROVED"]
  /\ Post(IF count[c].auto /\ ~CountApproval THEN Adjustment(c) ELSE {})
  /\ UNCHANGED <<order, po>>

ApproveCount(c, apply) ==
  /\ count[c].st = "PENDING_APPROVAL"
  /\ count' = [count EXCEPT ![c] = [@ EXCEPT !.st = "APPROVED", !.auto = apply]]
  /\ Post(IF apply THEN Adjustment(c) ELSE {})
  /\ UNCHANGED <<order, po>>

CancelCount(c) ==
  /\ count[c].st \in {"DRAFT", "IN_PROGRESS", "PENDING_APPROVAL"}
  /\ count' = [count EXCEPT ![c].st = "CANCELED"]
  /\ UNCHANGED <<stock, order, po>>

-----------------------------------------------------------------------------
OrderStep ==
  \E o \in Orders :
    \/ \E new \in Live : \/ OrderMoves(o, new)
                         \/ \E qty \in 1..MostItems : OrderCreated(o, new, qty)
    \/ OrderCanceled(o) \/ DeductByHand(o)
    \/ \E qty \in 1..MostItems : EditItems(o, qty)

ProductionStep ==
  \E p \in Productions :
    \/ \E allocate \in BOOLEAN : CreateProduction(p, allocate)
    \/ PlanProduction(p) \/ StartProduction(p) \/ HoldProduction(p)
    \/ ResumeProduction(p) \/ CancelProduction(p)
    \/ AskCompletion(p) \/ CompleteProduction(p)

CountStep ==
  \E c \in Counts :
    \/ \E auto \in BOOLEAN : CreateCount(c, auto) \/ ApproveCount(c, auto)
    \/ StartCount(c) \/ CompleteCount(c) \/ CancelCount(c)
    \/ \E n \in Counted : RecordCount(c, n)

RoomNext == OrderStep \/ ProductionStep \/ CountStep

-----------------------------------------------------------------------------
Claimed(o) == Moved("RESERVATION", o) - Moved("RESERVATION_RELEASE", o)

ReservedIsClaimed ==
  /\ reserved[Sold] = SumFunctionOnSet([o \in Orders |-> Claimed(o)], Orders)
                      + Planned * Cardinality({p \in Productions : po[p].ing = "ALLOCATED"})
  /\ \A o \in Orders : order[o].st = "CANCELED" => Claimed(o) = 0

OrderTakesItsItems ==
  \A o \in Orders :
    /\ order[o].st \in Live /\ Has("SALE_OUT", o) =>
         Moved("SALE_OUT", o) - Moved("RETURN_FROM_CUSTOMER", o) = order[o].qty
    /\ order[o].st = "CANCELED" /\ ~Has("RETURN_FROM_CUSTOMER", o) =>
         Moved("ORDER_REVERSAL", o) = Moved("SALE_OUT", o)

(* What is reserved is exactly what open orders and allocated ingredients  *)
(* have claimed: nothing is released twice, and a consumed ingredient does *)
(* not go on holding stock (production_service.py:613, order_service.py:   *)
(* 376).  A reservation an ON_HOLD or DRAFT production leaves behind when  *)
(* it is canceled is in the sum as well: its ingredient stays ALLOCATED.   *)
(* An order that has taken stock holds what it sells, through every edit,  *)
(* and one that is canceled before an edit has returned anything has given *)
(* back what was taken for it, once (order_service.py:95, 171).            *)
RoomAccounts == ReservedIsClaimed /\ OrderTakesItsItems

(* A canceled order has given back what was taken for it and no more: what *)
(* its edits returned and what the reversal returned are what was sold.    *)
(* order_service.py:177-183 speaks of the remaining stock of an order that *)
(* had an item reduced; the reversal credits every sale in full (213).     *)
GivenBackOnce ==
  \A o \in Orders : order[o].st = "CANCELED" =>
    Moved("ORDER_REVERSAL", o) + Moved("RETURN_FROM_CUSTOMER", o) = Moved("SALE_OUT", o)

=============================================================================
