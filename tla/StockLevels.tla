---------------------------- MODULE StockLevels ----------------------------
(***************************************************************************)
(* Stock levels and the StockTransaction rows that move them.              *)
(*                                                                         *)
(* A slot is an item at a location.  A level is changed under its row lock *)
(* and in one transaction with the rows that say why, so that a service    *)
(* call is one step: it posts a set of rows, or nothing.  The rows are a   *)
(* bag, since two movements may be equal.  StockRoom and StockTransfers    *)
(* are the callers.                                                        *)
(***************************************************************************)
EXTENDS Integers, FiniteSets, Functions, Bags

CONSTANTS
  Slots,          \* items at locations
  Start,          \* [Slots -> Nat]: quantity on hand at the beginning
  AllowNegative   \* StockSettings.allow_negative_stock

ASSUME StockLevelsAssumption ==
  /\ Start \in [Slots -> Nat]
  /\ AllowNegative \in BOOLEAN

VARIABLES
  level,     \* level[s]: quantity of the StockLevel
  reserved,  \* reserved[s]: its reserved_quantity
  moves      \* the bag of StockTransaction rows

stock == <<level, reserved, moves>>

OutTypes == {"SALE_OUT", "TRANSFER_OUT", "PRODUCTION_OUT", "ADJUSTMENT_MINUS"}

InTypes == {"RETURN_FROM_CUSTOMER", "ORDER_REVERSAL", "TRANSFER_IN",
            "PRODUCTION_IN", "ADJUSTMENT_PLUS"}

(* The quantity has a sign for a count only; the type says the direction.  *)
Row(s, type, qty, of) == [slot |-> s, type |-> type, qty |-> qty, of |-> of]

Effect(r) ==
  CASE r.type \in OutTypes -> -r.qty
    [] r.type \in InTypes \cup {"COUNT_ADJUSTMENT"} -> r.qty
    [] OTHER -> 0

Of(rows, type) == {r \in rows : r.type = type}

Held(r) ==
  CASE r.type = "RESERVATION" -> r.qty
    [] r.type = "RESERVATION_RELEASE" -> -r.qty
    [] OTHER -> 0

At(rows, s) == {r \in rows : r.slot = s}

Effects(rows) == SumFunctionOnSet([r \in rows |-> Effect(r)], rows)

Holds(rows) == SumFunctionOnSet([r \in rows |-> Held(r)], rows)

(* An order may not take what is not there, nor reserve what others hold.  *)
Enough(rows) ==
  \A s \in Slots :
    /\ AllowNegative \/ level[s] + Effects(At(rows, s)) >= 0
    /\ \A r \in Of(At(rows, s), "RESERVATION") : r.qty <= level[s] - reserved[s]
    /\ reserved[s] + Holds(At(rows, s)) >= 0

(* adjust, reserve and release_reservation for the rows of one call.       *)
Post(rows) ==
  /\ Enough(rows)
  /\ level' = [s \in Slots |-> level[s] + Effects(At(rows, s))]
  /\ reserved' = [s \in Slots |-> reserved[s] + Holds(At(rows, s))]
  /\ moves' = moves (+) SetToBag(rows)

Rows(type, of) == {r \in Of(BagToSet(moves), type) : r.of = of}

Moved(type, of) ==
  SumFunctionOnSet([r \in BagToSet(moves) |-> moves[r] * r.qty], Rows(type, of))

StockInit ==
  /\ level = Start
  /\ reserved = [s \in Slots |-> 0]
  /\ moves = EmptyBag
=============================================================================
