------------------------------ MODULE MCStock ------------------------------
(* The stock of a branch.  In the room, an order, production and counts    *)
(* take from the slot that transfers from the store fill.  Two orders meet *)
(* production in one part and two requests of the hub a count in another,  *)
(* where nothing else runs.  Next to the levels, which share no row with   *)
(* them: the batches of one item, the catalogue, and the recipes, many     *)
(* versions with few edits or one with many.                               *)
EXTENDS StockTransfers, StockBatches, StockCatalogue, Recipes, TLC

CONSTANTS kitchen, cooked, store, b1, b2, o2, w2, x1, x2, x3, y1, y2, y3

OnHand == [s \in Slots |-> CASE s = kitchen -> 1 [] s = store -> 2 [] OTHER -> 0]

Dates == [b \in {b1, b2} |-> IF b = b1 THEN 2 ELSE 1]
Differences == {-1}

Alike == Permutations({x1, x2, x3}) \cup Permutations({y1, y2, y3})

VARIABLE part

vars == <<stock, room, transfers, batches, catalogue, recipes, part>>

Init ==
  /\ BranchInit
  /\ BatchesInit /\ CatalogueInit /\ RecipesInit
  /\ part \in {"room", "orders", "hub", "batches", "catalogue", "versions", "steps"}

Next ==
  \/ /\ part = "room" /\ BranchNext
     /\ order'[o2] = NoOrder /\ request'[w2] = Idle
     /\ UNCHANGED <<batches, catalogue, recipes, part>>
  \/ /\ part = "orders"
     /\ \/ (OrderStep \/ ProductionStep) /\ UNCHANGED transfers
        \/ UNCHANGED room /\ \E t \in Transfers, qty \in Asked : QuickTransfer(t, qty)
     /\ UNCHANGED <<batches, catalogue, recipes, part>>
  \/ /\ part = "hub"
     /\ (TransfersNext /\ UNCHANGED room) \/ (CountStep /\ UNCHANGED transfers)
     /\ UNCHANGED <<batches, catalogue, recipes, part>>
  \/ /\ part = "batches" /\ BatchesNext
     /\ UNCHANGED <<stock, room, transfers, catalogue, recipes, part>>
  \/ /\ part = "catalogue" /\ CatalogueNext
     /\ UNCHANGED <<stock, room, transfers, batches, recipes, part>>
  \/ /\ part \in {"versions", "steps"} /\ RecipesNext
     /\ part = "versions" => edits' <= 2
     /\ part = "steps" => \A r, v \in Recipes : Exists(r)' /\ Exists(v)' => r = v
     /\ UNCHANGED <<stock, room, transfers, batches, catalogue, part>>

Spec == Init /\ [][Next]_vars

(* Quantities are never negative, on hand or reserved, and statuses and    *)
(* requests are those of the services.                                     *)
TypeOK ==
  /\ level \in [Slots -> Nat] /\ reserved \in [Slots -> Nat]
  /\ RoomTypeOK /\ TransfersTypeOK
=============================================================================
