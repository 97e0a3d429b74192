---------------------------- MODULE StockBatches ----------------------------
(***************************************************************************)
(* The batches of one item at one location, the adjustments that touch     *)
(* them, and the average cost of the item.                                 *)
(*                                                                         *)
(* A call runs in one transaction that locks the item, the batch and the   *)
(* level, and is one step.  A StockTransaction row names what caused it:   *)
(* the command of a request, the batch that came in, or who consumed it.   *)
(* Sales and transfers, which move the level alone, are left to StockRoom  *)
(* and StockTransfers.                                                     *)
(***************************************************************************)
EXTENDS Integers, FiniteSets, Functions

CONSTANTS
  Batches,      \* StockBatch rows of the item
  Sizes,        \* quantities that come in or go out
  Losses,       \* quantities a person adjusts by
  Changes,      \* signed quantities a request may ask for
  Expiry,       \* [Batches -> Nat]: the expiry date of a batch
  Marks,        \* statuses a person sets
  Prices,       \* unit costs, in the last of their four places
  Commands,     \* action ids of adjustments and reversals
  Consumers,    \* production orders that consume the item
  Requests,     \* StockAdjustmentRequest rows
  Method        \* StockSettings.costing_method

LotStatuses == {"AVAILABLE", "QUARANTINE", "EXPIRED", "CONSUMED"}

(* Batches, commands, consumers and requests are rows of different tables, *)
(* so that what caused a movement names one of them.                       *)
ASSUME StockBatchesAssumption ==
  /\ IsFiniteSet(Batches)
  /\ Batches \cap (Commands \cup Consumers \cup Requests) = {}
  /\ Commands \cap Consumers = {} /\ Requests \cap (Commands \cup Consumers) = {}
  /\ "none" \notin Batches \cup Commands
  /\ Expiry \in [Batches -> Nat] /\ Changes \subseteq Int \ {0}
  /\ Marks \subseteq LotStatuses
  /\ Sizes \subseteq Nat \ {0} /\ Losses \subseteq Nat \ {0} /\ Prices \subseteq Nat
  /\ Method \in {"FIFO", "LIFO", "FEFO"}

VARIABLES
  lot,      \* lot[b]: the batch
  shelf,    \* quantity of the StockLevel
  avg,      \* avg_cost_price of the item
  log,      \* its StockTransaction rows
  petition  \* petition[q]: status of the request, and what it asks for

batches == <<lot, shelf, avg, log, petition>>

NoLot == [st |-> "none", initial |-> 0, current |-> 0, cost |-> 0, seq |-> 0]

NoPetition == [st |-> "none", change |-> 0]

(* The row says which batch, and which row it undoes.                      *)
Entry(by, type, qty, b, of) == [by |-> by, type |-> type, qty |-> qty, lot |-> b, of |-> of]

Outgoing == {"PRODUCTION_OUT", "ADJUSTMENT_MINUS", "WASTE", "RETURN_TO_SUPPLIER"}

Signed(e) == IF e.type \in Outgoing THEN -e.qty ELSE e.qty

Net(rows) == SumFunctionOnSet([e \in rows |-> Signed(e)], rows)

Opened == {b \in Batches : lot[b].st # "none"}

BatchesInit ==
  /\ lot = [b \in Batches |-> NoLot]
  /\ shelf = 0 /\ avg = 0 /\ log = {}
  /\ petition = [q \in Requests |-> NoPetition]

-----------------------------------------------------------------------------
(* Costs: an average of what was there and what came, rounded half up.     *)

Rounded(value, qty) == (2 * value + qty) \div (2 * qty)

UpdatedCost(qty, price) ==
  IF shelf > 0 THEN Rounded(shelf * avg + qty * price, shelf + qty) ELSE price

LeftValue(qty, price) == shelf * avg - qty * price

ReversedCost(qty, price) ==
  IF shelf > qty THEN Rounded(LeftValue(qty, price), shelf - qty) ELSE 0

-----------------------------------------------------------------------------
(* Batches come in.                                                        *)

NewLot(qty, price) ==
  [st |-> "AVAILABLE", initial |-> qty, current |-> qty, cost |-> price,
   seq |-> Cardinality(Opened) + 1]

(* A batch made by hand adds nothing to the level.                         *)
CreateLot(b, qty) ==
  /\ lot[b].st = "none"
  /\ lot' = [lot EXCEPT ![b] = NewLot(qty, avg)]
  /\ UNCHANGED <<shelf, avg, log, petition>>

ReceiveLot(b, qty, price) ==
  /\ lot[b].st = "none"
  /\ lot' = [lot EXCEPT ![b] = NewLot(qty, price)]
  /\ shelf' = shelf + qty
  /\ avg' = UpdatedCost(qty, price)
  /\ log' = log \cup {Entry(b, "PURCHASE_IN", qty, b, "none")}
  /\ UNCHANGED petition

Came(b) == {e \in log : e.by = b /\ e.type = "PURCHASE_IN"}

(* Mutant: the goods go back and stay in the batch.                        *)
CorrectLevelOnly(b) ==
  /\ Came(b) # {} /\ \A e \in log : e.of # b
  /\ lot[b].current >= lot[b].initial /\ shelf >= lot[b].initial
  /\ LeftValue(lot[b].initial, lot[b].cost) >= 0
  /\ avg' = ReversedCost(lot[b].initial, lot[b].cost)
  /\ shelf' = shelf - lot[b].initial
  /\ log' = log \cup {Entry(b, "RETURN_TO_SUPPLIER", lot[b].initial, b, b)}
  /\ UNCHANGED <<lot, petition>>

(* An approved correction of the receiving gives everything back, once,    *)
(* while all of it is still there and the average can bear it.             *)
CorrectReceiving(b) ==
  /\ Came(b) # {} /\ \A e \in log : e.of # b
  /\ lot[b].current >= lot[b].initial /\ shelf >= lot[b].initial
  /\ LeftValue(lot[b].initial, lot[b].cost) >= 0
  /\ avg' = ReversedCost(lot[b].initial, lot[b].cost)
  /\ shelf' = shelf - lot[b].initial
  /\ lot' = [lot EXCEPT ![b].current = @ - lot[b].initial]
  /\ log' = log \cup {Entry(b, "RETURN_TO_SUPPLIER", lot[b].initial, b, b)}
  /\ UNCHANGED petition

SetLotStatus(b, st) ==
  /\ lot[b].st # "none"
  /\ lot' = [lot EXCEPT ![b].st = st]
  /\ UNCHANGED <<shelf, avg, log, petition>>

-----------------------------------------------------------------------------
(* Consumption: available batches that have not expired, in the order of   *)
(* the costing method, and all of the quantity or nothing.                 *)

Ready(today) ==
  {b \in Batches : lot[b].st = "AVAILABLE" /\ lot[b].current > 0 /\ Expiry[b] >= today}

Before(a, b) ==
  CASE Method = "FIFO" -> lot[a].seq < lot[b].seq
    [] Method = "LIFO" -> lot[a].seq > lot[b].seq
    [] Method = "FEFO" -> \/ Expiry[a] < Expiry[b]
                          \/ Expiry[a] = Expiry[b] /\ lot[a].seq < lot[b].seq

Current(b) == lot[b].current

Holding(lots) == SumFunctionOnSet([b \in lots |-> Current(b)], lots)

Taken(b, ready, qty) ==
  LET wanted == qty - Holding({a \in ready : Before(a, b)})
  IN IF wanted <= 0 THEN 0 ELSE IF wanted < Current(b) THEN wanted ELSE Current(b)

Consume(p, qty, today) ==
  LET ready == Ready(today)
      taken == [b \in ready |-> Taken(b, ready, qty)]
      from == {b \in ready : taken[b] > 0}
  IN /\ \A e \in log : e.by # p
     /\ Holding(ready) >= qty /\ shelf >= qty
     /\ shelf' = shelf - qty
     /\ lot' = [b \in Batches |->
                 IF b \notin from THEN lot[b]
                 ELSE [lot[b] EXCEPT !.current = @ - taken[b],
                                     !.st = IF taken[b] = Current(b) THEN "CONSUMED" ELSE @]]
     /\ log' = log \cup {Entry(p, "PRODUCTION_OUT", taken[b], b, "none") : b \in from}
     /\ UNCHANGED <<avg, petition>>

-----------------------------------------------------------------------------
(* Adjustments of the endpoint are strict: a tracked item needs its batch, *)
(* and neither the level nor the batch may go below zero.  A command that  *)
(* has a row answers from it.                                              *)

Adjust(a, b, type, qty, of) ==
  LET change == IF type \in Outgoing THEN -qty ELSE qty
  IN /\ \A e \in log : e.by # a
     /\ shelf + change >= 0 /\ lot[b].current + change >= 0
     /\ shelf' = shelf + change
     /\ lot' = [lot EXCEPT ![b].current = @ + change]
     /\ log' = log \cup {Entry(a, type, qty, b, of)}
     /\ UNCHANGED <<avg, petition>>

AdjustByHand(a, b, type, qty) ==
  /\ lot[b].st # "none"
  /\ Adjust(a, b, type, qty, "none")

Opposite(type) ==
  IF type \in {"ADJUSTMENT_MINUS", "WASTE"} THEN "ADJUSTMENT_PLUS" ELSE "ADJUSTMENT_MINUS"

Reverse(a, e) ==
  /\ e.by \in Commands /\ e.of = "none"
  /\ \A r \in log : r.of # e.by
  /\ Adjust(a, e.lot, Opposite(e.type), e.qty, e.by)

(* A request of a storekeeper, and a second person's answer to it.         *)
AskAdjustment(q, change) ==
  /\ petition[q].st = "none"
  /\ petition' = [petition EXCEPT ![q] = [st |-> "PENDING", change |-> change]]
  /\ UNCHANGED <<lot, shelf, avg, log>>

RejectAdjustment(q) ==
  /\ petition[q].st = "PENDING"
  /\ petition' = [petition EXCEPT ![q].st = "REJECTED"]
  /\ UNCHANGED <<lot, shelf, avg, log>>

(* The approval names no batch: the level moves alone.                     *)
ApproveAdjustment(q) ==
  LET change == petition[q].change
  IN /\ petition[q].st = "PENDING" /\ shelf + change >= 0
     /\ petition' = [petition EXCEPT ![q].st = "APPROVED"]
     /\ shelf' = shelf + change
     /\ log' = log \cup {IF change > 0
                         THEN Entry(q, "ADJUSTMENT_PLUS", change, "none", "none")
                         ELSE Entry(q, "ADJUSTMENT_MINUS", -change, "none", "none")}
     /\ UNCHANGED <<lot, avg>>

-----------------------------------------------------------------------------
LotStep ==
  \E b \in Batches :
    \/ \E qty \in Sizes :
         \/ CreateLot(b, qty)
         \/ \E price \in Prices : ReceiveLot(b, qty, price)
    \/ CorrectReceiving(b)
    \/ \E st \in Marks : SetLotStatus(b, st)

AdjustStep ==
  \/ \E a \in Commands, b \in Batches, qty \in Losses, type \in {"ADJUSTMENT_PLUS", "WASTE"} :
       AdjustByHand(a, b, type, qty)
  \/ \E a \in Commands, e \in log : Reverse(a, e)
  \/ \E q \in Requests :
       \/ \E change \in Changes : AskAdjustment(q, change)
       \/ RejectAdjustment(q) \/ ApproveAdjustment(q)

BatchesNext ==
  \/ LotStep \/ AdjustStep
  \/ \E p \in Consumers, qty \in Sizes, today \in 1..2 : Consume(p, qty, today)

BatchesSpec == BatchesInit /\ [][BatchesNext]_batches

-----------------------------------------------------------------------------
(* Properties.                                                             *)

(* What rows of batches were worth when the batches came.                  *)
Value(rows) == SumFunctionOnSet([e \in rows |-> lot[e.lot].cost * Signed(e)], rows)

(* A batch holds what came in it less every row that names it, and the     *)
(* level is the sum of its rows, so that a reversal gives back exactly     *)
(* what its adjustment took and nothing is undone twice, however           *)
(* consumption, corrections and reversals follow each other                *)
(* (level_service.py:494, batch_service.py:424).  While goods have only    *)
(* come in and gone back, the average values the level at their cost, up   *)
(* to a rounding at each step (item_service.py:495, 519).                  *)
BatchAccounts ==
  LET traded == \A e \in log : e.type \in {"PURCHASE_IN", "RETURN_TO_SUPPLIER"}
      came == Net({e \in log : e.type = "PURCHASE_IN"})
      drift == shelf * avg - Value(log)
      slack == came * Cardinality(log)
  IN /\ \A b \in Opened :
          lot[b].current = lot[b].initial + Net({e \in log : e.lot = b /\ e.type # "PURCHASE_IN"})
     /\ shelf = Net(log)
     /\ \A e, f \in log : e.of # "none" /\ e.of = f.of => e = f
     /\ \A q \in Requests : petition[q].st = "APPROVED" <=> \E e \in log : e.by = q
     /\ traded => - slack <= 2 * drift /\ 2 * drift <= slack
=============================================================================
