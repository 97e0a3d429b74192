-------------------------- MODULE StockTransfers --------------------------
(***************************************************************************)
(* Transfers of stock from one location to another, of an item kept in     *)
(* batches.                                                                *)
(*                                                                         *)
(* Each operation reads the transfer without a lock, checks its status and *)
(* then works in one transaction.  At a terminal the write lock is taken   *)
(* first: one request at a time.  At the hub several requests may have     *)
(* read the status before the first of them writes it.                     *)
(***************************************************************************)
EXTENDS StockRoom

CONSTANTS
  From, To,        \* the slots of the two locations
  Transfers, Asked,\* transfers, and the quantities asked for
  Workers          \* requests served at once: one at a terminal

ASSUME StockTransfersAssumption ==
  /\ From \in Slots /\ To \in Slots /\ From # To
  /\ Asked \subseteq Nat \ {0}

VARIABLES
  transfer,  \* transfer[t]: status and the quantities of its item
  batch,     \* batch[s]: current_quantity of the batches at a slot
  request,   \* request[w]: the operation whose status check has passed
  overtaken  \* transfers written by a request after another had moved them

transfers == <<transfer, batch, request, overtaken>>

Idle == [op |-> "none", t |-> "none", saw |-> "none"]

Operations == {"edit", "request", "approve", "ship", "receive", "cancel"}

Statuses == {"none", "DRAFT", "REQUESTED", "APPROVED", "IN_TRANSIT",
             "RECEIVED", "CANCELED"}

TransfersTypeOK ==
  /\ transfer \in [Transfers ->
       [st : Statuses,
        qty : {0} \cup Asked, got : Nat]]
  /\ batch \in [{From, To} -> Nat]
  /\ request \in [Workers -> {Idle} \cup [op : Operations, t : Transfers, saw : Statuses]]
  /\ overtaken \subseteq Transfers

NoTransfer == [st |-> "none", qty |-> 0, got |-> 0]

TransfersInit ==
  /\ transfer = [t \in Transfers |-> NoTransfer]
  /\ batch = [s \in {From, To} |-> Start[s]]
  /\ request = [w \in Workers |-> Idle]
  /\ overtaken = {}

-----------------------------------------------------------------------------
(* The statuses an operation starts from.                                  *)
MayStart(op) ==
  CASE op = "request" -> {"DRAFT"}
    [] op = "edit" -> {"DRAFT", "REQUESTED"}
    [] op = "approve" -> {"DRAFT", "REQUESTED"}
    [] op = "ship" -> {"APPROVED"}
    [] op = "receive" -> {"IN_TRANSIT"}
    [] op = "cancel" -> {"DRAFT", "REQUESTED", "APPROVED", "IN_TRANSIT"}

Move(t, type, s, qty) == {Row(s, type, qty, t)}

CreateTransfer(t, qty) ==
  /\ transfer[t].st = "none"
  /\ transfer' = [transfer EXCEPT ![t] = [st |-> "DRAFT", qty |-> qty, got |-> 0]]
  /\ UNCHANGED <<stock, batch, request, overtaken>>

Check(w, op, t) ==
  /\ request[w] = Idle
  /\ transfer[t].st \in MayStart(op)
  /\ request' = [request EXCEPT ![w] = [op |-> op, t |-> t, saw |-> transfer[t].st]]
  /\ UNCHANGED <<stock, transfer, batch, overtaken>>

(* The status is written without a look at what it is by now.              *)
Answer(w) ==
  LET t == request[w].t
  IN /\ request' = [request EXCEPT ![w] = Idle]
     /\ overtaken' = overtaken \cup (IF transfer[t].st = request[w].saw THEN {} ELSE {t})

Done(w, st) ==
  /\ transfer' = [transfer EXCEPT ![request[w].t].st = st]
  /\ Answer(w)

(* The requested quantity; from the approval on it is no longer read.      *)
EditTransferItem(w, qty) ==
  LET t == request[w].t
  IN /\ request[w].op = "edit"
     /\ transfer' = [transfer EXCEPT ![t].qty =
                       IF transfer[t].st \in MayStart("edit") THEN qty ELSE @]
     /\ request' = [request EXCEPT ![w] = Idle]
     /\ UNCHANGED <<stock, batch, overtaken>>

RequestTransfer(w) ==
  /\ request[w].op = "request"
  /\ Done(w, "REQUESTED")
  /\ UNCHANGED <<stock, batch>>

(* The level is locked and read, but nothing is set aside.                 *)
ApproveTransfer(w) ==
  /\ request[w].op = "approve"
  /\ AllowNegative \/ transfer[request[w].t].qty <= level[From] - reserved[From]
  /\ Done(w, "APPROVED")
  /\ UNCHANGED <<stock, batch>>

ShipTransfer(w) ==
  LET t == request[w].t
  IN /\ request[w].op = "ship"
     /\ transfer[t].qty <= batch[From]
     /\ batch' = [batch EXCEPT ![From] = @ - transfer[t].qty]
     /\ Post(Move(t, "TRANSFER_OUT", From, transfer[t].qty))
     /\ Done(w, "IN_TRANSIT")

(* What arrives goes into a batch of its own; a shortfall is a variance.   *)
ReceiveTransfer(w, got) ==
  LET t == request[w].t
  IN /\ request[w].op = "receive"
     /\ got <= transfer[t].qty
     /\ batch' = [batch EXCEPT ![To] = @ + got]
     /\ Post(Move(t, "TRANSFER_IN", To, got))
     /\ transfer' = [transfer EXCEPT ![t].st = "RECEIVED", ![t].got = got]
     /\ Answer(w)

(* Mutant: a transfer is canceled as if it had never left.                 *)
CancelKeeping(w) ==
  /\ request[w].op = "cancel"
  /\ Done(w, "CANCELED")
  /\ UNCHANGED <<stock, batch>>

(* The level gets back what was shipped; the batch does not.               *)
CancelTransfer(w) ==
  LET t == request[w].t
  IN /\ request[w].op = "cancel"
     /\ Post(IF request[w].saw = "IN_TRANSIT"
             THEN Move(t, "TRANSFER_IN", From, transfer[t].qty) ELSE {})
     /\ Done(w, "CANCELED")
     /\ UNCHANGED batch

(* All four steps in one call.  A step that fails is undone alone, and the *)
(* transfer stays where the steps before it have brought it.               *)
QuickTransfer(t, qty) ==
  LET free == AllowNegative \/ qty <= level[From] - reserved[From]
      whole == free /\ qty <= batch[From] /\ Enough(Move(t, "TRANSFER_OUT", From, qty))
  IN /\ transfer[t].st = "none"
     /\ transfer' = [transfer EXCEPT ![t] =
          [st |-> IF whole THEN "RECEIVED" ELSE IF free THEN "APPROVED" ELSE "DRAFT",
           qty |-> qty, got |-> IF whole THEN qty ELSE 0]]
     /\ Post(IF whole THEN Move(t, "TRANSFER_OUT", From, qty) \cup Move(t, "TRANSFER_IN", To, qty)
             ELSE {})
     /\ batch' = IF whole THEN [batch EXCEPT ![From] = @ - qty, ![To] = @ + qty] ELSE batch
     /\ UNCHANGED <<request, overtaken>>

(* An operation that fails changes nothing.                                *)
Refuse(w) ==
  /\ request[w] # Idle
  /\ request' = [request EXCEPT ![w] = Idle]
  /\ UNCHANGED <<stock, transfer, batch, overtaken>>

TransfersNext ==
  \/ \E t \in Transfers, qty \in Asked : CreateTransfer(t, qty) \/ QuickTransfer(t, qty)
  \/ \E w \in Workers, op \in Operations, t \in Transfers : Check(w, op, t)
  \/ \E w \in Workers : \/ RequestTransfer(w) \/ ApproveTransfer(w) \/ ShipTransfer(w)
                        \/ CancelTransfer(w) \/ Refuse(w)
                        \/ \E got \in {0} \cup Asked : ReceiveTransfer(w, got)
                        \/ \E qty \in Asked : EditTransferItem(w, qty)

-----------------------------------------------------------------------------
(* The branch: orders, production and counts take from the levels between  *)
(* which transfers move stock.                                             *)
BranchInit == StockInit /\ RoomInit /\ TransfersInit

BranchNext ==
  \/ RoomNext /\ UNCHANGED transfers
  \/ TransfersNext /\ UNCHANGED room

branchVars == <<stock, room, transfers>>

BranchSpec == BranchInit /\ [][BranchNext]_branchVars

-----------------------------------------------------------------------------
(* What has left a location for a transfer is on its way, has arrived, is  *)
(* a recorded variance, or is back (transfer_service.py:426), through      *)
(* requests that overlap; except for a transfer that a request wrote after *)
(* another had moved it (overtaken): two that both saw it approved ship it *)
(* twice, for the status is not read again under a lock (370, 522).        *)
TransferAccounts ==
  \A t \in Transfers \ overtaken :
    Moved("TRANSFER_OUT", t) - Moved("TRANSFER_IN", t) =
      CASE transfer[t].st = "IN_TRANSIT" -> transfer[t].qty
        [] transfer[t].st = "RECEIVED" -> transfer[t].qty - transfer[t].got
        [] OTHER -> 0

=============================================================================
