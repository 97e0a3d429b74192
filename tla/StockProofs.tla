---------------------------- MODULE StockProofs ----------------------------
(* What the stock of a branch keeps, for any orders, productions, counts   *)
(* and transfers, in any order, and what its batches, its recipes and its  *)
(* catalogue keep.                                                         *)
EXTENDS StockTransfers, StockBatches, StockCatalogue, Recipes, SumProofs

-----------------------------------------------------------------------------
(* What posting rows does to the sums over the rows.                       *)

Sized(rows) == IsFiniteSet(rows) /\ \A r \in rows : r.qty \in Int

Chosen(rows, type, of) == {r \in rows : r.type = type /\ r.of = of}

Quantity(rows) == SumFunctionOnSet([r \in rows |-> r.qty], rows)

(* The levels are numbers, the ledger is finite, and every row of it is    *)
(* there a number of times.                                                *)
StockTyped ==
  /\ level \in [Slots -> Int] /\ reserved \in [Slots -> Int]
  /\ Sized(BagToSet(moves)) /\ \A r \in BagToSet(moves) : moves[r] \in Nat \ {0}

LEMMA QuantityOfNone == Quantity({}) = 0
  BY SumEmpty DEF Quantity

LEMMA QuantityOfOne ==
  ASSUME NEW r, r.qty \in Int
  PROVE  Quantity({r}) = r.qty
<1> DEFINE f == [x \in {r} |-> x.qty]
<1>1. f[r] = r.qty
  OBVIOUS
<1>2. SumFunctionOnSet(f, {r}) = f[r]
  <2> HIDE DEF f
  <2> QED BY <1>1, SumOne
<1> QED BY <1>1, <1>2 DEF Quantity

LEMMA QuantityInt ==
  ASSUME NEW rows, Sized(rows)
  PROVE  Quantity(rows) \in Int
BY SumInt DEF Quantity, Sized

LEMMA Subrows ==
  ASSUME NEW rows, Sized(rows), NEW part \in SUBSET rows
  PROVE  Sized(part)
BY FS_Subset DEF Sized

LEMMA MovedInt ==
  ASSUME StockTyped, NEW type, NEW of
  PROVE  Moved(type, of) \in Int
<1> DEFINE f == [r \in BagToSet(moves) |-> moves[r] * r.qty]
<1>1. Rows(type, of) \in SUBSET BagToSet(moves)
  BY DEF Rows, Of
<1>2. IsFiniteSet(Rows(type, of))
  BY <1>1, FS_Subset DEF StockTyped, Sized
<1>3. \A r \in BagToSet(moves) : moves[r] * r.qty \in Int
  BY DEF StockTyped, Sized
<1>4. \A r \in Rows(type, of) : f[r] \in Int
  BY <1>1, <1>3
<1> HIDE DEF f
<1>5. SumFunctionOnSet(f, Rows(type, of)) \in Int
  BY <1>2, <1>4, SumInt
<1> QED BY <1>5 DEF Moved, f

(* Where there is no row, nothing has moved.                               *)
LEMMA NoneMoved ==
  ASSUME NEW type, NEW of, Rows(type, of) = {}
  PROVE  Moved(type, of) = 0
BY SumEmpty DEF Moved

Copies(r) == IF r \in BagToSet(moves) THEN moves[r] ELSE 0

LEMMA LedgerGrows ==
  ASSUME NEW rows, Post(rows)
  PROVE  /\ BagToSet(moves)' = BagToSet(moves) \cup rows
         /\ \A r \in BagToSet(moves)' : moves'[r] = Copies(r) + (IF r \in rows THEN 1 ELSE 0)
         /\ \A type, of : Rows(type, of)' = Rows(type, of) \cup Chosen(rows, type, of)
<1> DEFINE B == SetToBag(rows)
<1>1. moves' = moves (+) B
  BY DEF Post
<1>2. DOMAIN B = rows /\ \A r \in rows : B[r] = 1
  BY DEF SetToBag
<1> HIDE DEF B
<1>3. moves' = [e \in DOMAIN moves \cup DOMAIN B |->
                  (IF e \in DOMAIN moves THEN moves[e] ELSE 0) + (IF e \in DOMAIN B THEN B[e] ELSE 0)]
  BY <1>1 DEF (+)
<1>4. BagToSet(moves)' = BagToSet(moves) \cup rows
  BY <1>2, <1>3 DEF BagToSet
<1>5. ASSUME NEW r \in BagToSet(moves)'
      PROVE  moves'[r] = Copies(r) + (IF r \in rows THEN 1 ELSE 0)
  <2>1. r \in DOMAIN moves \cup DOMAIN B
    BY <1>2, <1>4 DEF BagToSet
  <2>2. moves'[r] = (IF r \in DOMAIN moves THEN moves[r] ELSE 0) + (IF r \in DOMAIN B THEN B[r] ELSE 0)
    BY <1>3, <2>1
  <2> QED BY <1>2, <2>2 DEF Copies, BagToSet
<1>6. \A type, of : Rows(type, of)' = Rows(type, of) \cup Chosen(rows, type, of)
  BY <1>4 DEF Rows, Of, Chosen
<1> QED BY <1>4, <1>5, <1>6

LEMMA StockStaysTyped ==
  ASSUME StockTyped, NEW rows, Sized(rows), Post(rows)
  PROVE  StockTyped'
<1>1. BagToSet(moves)' = BagToSet(moves) \cup rows
  BY LedgerGrows
<1>2. \A r \in BagToSet(moves)' : moves'[r] \in Nat \ {0}
  <2> TAKE r \in BagToSet(moves)'
  <2>1. moves'[r] = Copies(r) + (IF r \in rows THEN 1 ELSE 0)
    BY LedgerGrows
  <2>2. CASE r \in BagToSet(moves)
    BY <2>1, <2>2 DEF StockTyped, Copies
  <2>3. CASE r \notin BagToSet(moves)
    BY <1>1, <2>1, <2>3 DEF Copies
  <2> QED BY <2>2, <2>3
<1>3. IsFiniteSet(BagToSet(moves)')
  BY <1>1, FS_Union DEF StockTyped, Sized
<1>4. \A r \in BagToSet(moves)' : r.qty \in Int
  BY <1>1 DEF StockTyped, Sized
<1>5. \A s \in Slots : Effects(At(rows, s)) \in Int /\ Holds(At(rows, s)) \in Int
  <2> TAKE s \in Slots
  <2> DEFINE S == At(rows, s)
             e == [r \in S |-> Effect(r)]
             h == [r \in S |-> Held(r)]
  <2>1. S \in SUBSET rows
    BY DEF At
  <2>2. IsFiniteSet(S) /\ \A r \in S : r.qty \in Int
    BY <2>1, FS_Subset DEF Sized
  <2>3. \A r \in S : Effect(r) \in Int
    BY <2>2 DEF Effect
  <2>4. \A r \in S : Held(r) \in Int
    BY <2>2 DEF Held
  <2>5. SumFunctionOnSet(e, S) \in Int
    BY <2>2, <2>3, SumInt
  <2>6. SumFunctionOnSet(h, S) \in Int
    BY <2>2, <2>4, SumInt
  <2> QED BY <2>5, <2>6 DEF Effects, Holds
<1>6. level' \in [Slots -> Int] /\ reserved' \in [Slots -> Int]
  BY <1>5 DEF Post, StockTyped
<1> QED BY <1>2, <1>3, <1>4, <1>6 DEF StockTyped, Sized

(* The rows that are posted, and no others, add to what has moved.         *)
LEMMA PostMoves ==
  ASSUME StockTyped, NEW rows, Sized(rows), Post(rows), NEW type, NEW of
  PROVE  Moved(type, of)' = Moved(type, of) + Quantity(Chosen(rows, type, of))
<1> DEFINE D == BagToSet(moves)
           S == Rows(type, of)
           T == Chosen(rows, type, of)
           E == BagToSet(moves)'
           f == [r \in D |-> moves[r] * r.qty]
           g == [r \in T |-> r.qty]
           h == [r \in E |-> moves'[r] * r.qty]
           F == [r \in S \cup T |-> IF r \in S THEN moves[r] * r.qty ELSE 0]
           G == [r \in S \cup T |-> IF r \in T THEN r.qty ELSE 0]
<1>1. E = D \cup rows /\ Rows(type, of)' = S \cup T
  BY LedgerGrows
<1>2. S \in SUBSET D /\ T \in SUBSET rows
  BY DEF Rows, Of, Chosen
<1>3. IsFiniteSet(S) /\ IsFiniteSet(T) /\ IsFiniteSet(S \cup T)
  <2>1. IsFiniteSet(S) /\ IsFiniteSet(T)
    BY <1>2, FS_Subset DEF StockTyped, Sized
  <2> QED BY <2>1, FS_Union
<1>4. \A r \in S : moves[r] \in Int /\ r.qty \in Int /\ moves[r] * r.qty \in Int
  <2> TAKE r \in S
  <2>1. moves[r] \in Int /\ r.qty \in Int
    BY <1>2 DEF StockTyped, Sized
  <2> QED BY <2>1
<1>5. \A r \in T : r.qty \in Int
  BY <1>2 DEF Sized
<1>6. ASSUME NEW r \in S \cup T
      PROVE  F[r] \in Int /\ G[r] \in Int /\ h[r] = F[r] + G[r]
  <2>1. r \in E /\ h[r] = moves'[r] * r.qty
    BY <1>1, <1>2
  <2>2. moves'[r] = Copies(r) + (IF r \in rows THEN 1 ELSE 0)
    BY <2>1, LedgerGrows
  <2>3. r \in D <=> r \in S
    BY DEF Rows, Of, Chosen
  <2>4. r \in rows <=> r \in T
    BY DEF Rows, Of, Chosen
  <2>5. Copies(r) = IF r \in S THEN moves[r] ELSE 0
    BY <2>3 DEF Copies
  <2>6. F[r] = (IF r \in S THEN moves[r] * r.qty ELSE 0) /\ G[r] = (IF r \in T THEN r.qty ELSE 0)
    OBVIOUS
  <2>7. r.qty \in Int
    BY <1>4, <1>5
  <2> HIDE DEF S, T, D, E, h, F, G
  <2>8. CASE r \in S /\ r \in T
    <3>1. moves'[r] = moves[r] + 1 /\ moves[r] \in Int
      BY <1>4, <2>2, <2>4, <2>5, <2>8
    <3>2. (moves[r] + 1) * r.qty = moves[r] * r.qty + r.qty
      BY <2>7, <3>1
    <3> QED BY <1>4, <2>1, <2>6, <2>7, <2>8, <3>1, <3>2
  <2>9. CASE r \in S /\ r \notin T
    <3>1. moves'[r] = moves[r] /\ moves[r] * r.qty \in Int
      BY <1>4, <2>2, <2>4, <2>5, <2>9
    <3> QED BY <2>1, <2>6, <2>9, <3>1
  <2>10. CASE r \notin S /\ r \in T
    <3>1. moves'[r] = 1
      BY <2>2, <2>4, <2>5, <2>10
    <3> QED BY <2>1, <2>6, <2>7, <2>10, <3>1
  <2> QED BY <2>8, <2>9, <2>10
<1>7. SumFunctionOnSet(h, S \cup T) = SumFunctionOnSet(F, S \cup T) + SumFunctionOnSet(G, S \cup T)
  <2> HIDE DEF S, T, h, F, G
  <2> QED BY <1>3, <1>6, SumPlus
<1>8. SumFunctionOnSet(F, S \cup T) = SumFunctionOnSet(f, S)
  <2>1. \A r \in S : F[r] \in Int /\ F[r] = f[r]
    BY <1>2, <1>4
  <2>2. \A r \in (S \cup T) \ S : F[r] = 0
    OBVIOUS
  <2> HIDE DEF S, T, F, f
  <2>3. SumFunctionOnSet(F, S \cup T) = SumFunctionOnSet(F, S)
    BY <1>3, <2>1, <2>2, SumOver
  <2>4. SumFunctionOnSet(F, S) = SumFunctionOnSet(f, S)
    BY <1>3, <2>1, SumSame
  <2> QED BY <2>3, <2>4
<1>9. SumFunctionOnSet(G, S \cup T) = SumFunctionOnSet(g, T)
  <2>1. \A r \in T : G[r] \in Int /\ G[r] = g[r]
    BY <1>5
  <2>2. \A r \in (S \cup T) \ T : G[r] = 0
    OBVIOUS
  <2> HIDE DEF S, T, G, g
  <2>3. SumFunctionOnSet(G, S \cup T) = SumFunctionOnSet(G, T)
    BY <1>3, <2>1, <2>2, SumOver
  <2>4. SumFunctionOnSet(G, T) = SumFunctionOnSet(g, T)
    BY <1>3, <2>1, SumSame
  <2> QED BY <2>3, <2>4
<1>10. Moved(type, of)' = SumFunctionOnSet(h, S \cup T) /\ Moved(type, of) = SumFunctionOnSet(f, S)
  BY <1>1 DEF Moved
<1>11. Quantity(T) = SumFunctionOnSet(g, T)
  BY DEF Quantity
<1> QED BY <1>7, <1>8, <1>9, <1>10, <1>11

(* What a slot sets aside for the rows of one call.                        *)
LEMMA PostHolds ==
  ASSUME StockTyped, NEW rows, Sized(rows), Post(rows), NEW s \in Slots,
         \A r \in rows : r.type \in {"RESERVATION", "RESERVATION_RELEASE"} => r.slot = s
  PROVE  reserved'[s] = reserved[s] + (Quantity(Of(rows, "RESERVATION"))
                                        - Quantity(Of(rows, "RESERVATION_RELEASE")))
<1> DEFINE S == At(rows, s)
           A == Of(rows, "RESERVATION")
           B == Of(rows, "RESERVATION_RELEASE")
           f == [r \in S |-> Held(r)]
           a == [r \in A |-> r.qty]
           b == [r \in B |-> r.qty]
           z == [r \in B |-> 0]
<1>1. A \in SUBSET S /\ B \in SUBSET S /\ A \cap B = {} /\ S \in SUBSET rows /\ A \cup B \in SUBSET S
  BY DEF At, Of
<1>2. /\ IsFiniteSet(S) /\ IsFiniteSet(A) /\ IsFiniteSet(B)
      /\ \A r \in S : r.qty \in Int
  BY <1>1, FS_Subset DEF Sized
<1>3. \A r \in A : f[r] = r.qty /\ a[r] = r.qty
  BY <1>1 DEF Held, Of
<1>4. \A r \in B : f[r] = -r.qty /\ b[r] = r.qty /\ z[r] = 0
  BY <1>1 DEF Held, Of
<1>5. \A r \in S \ (A \cup B) : f[r] = 0
  <2> TAKE r \in S \ (A \cup B)
  <2>1. r.type # "RESERVATION" /\ r.type # "RESERVATION_RELEASE"
    BY <1>1 DEF Of
  <2> QED BY <2>1 DEF Held
<1>6. reserved'[s] = reserved[s] + SumFunctionOnSet(f, S)
  BY DEF Post, Holds
<1>7. Quantity(A) = SumFunctionOnSet(a, A) /\ Quantity(B) = SumFunctionOnSet(b, B)
  BY DEF Quantity
<1> HIDE DEF S, A, B, f, a, b, z
<1>8. SumFunctionOnSet(f, S) = SumFunctionOnSet(f, A) + SumFunctionOnSet(f, B)
  <2>1. \A r \in A \cup B : f[r] \in Int
    BY <1>1, <1>2, <1>3, <1>4
  <2>2. SumFunctionOnSet(f, S) = SumFunctionOnSet(f, A \cup B)
    BY <1>1, <1>2, <1>5, <2>1, SumOver
  <2>3. SumFunctionOnSet(f, A \cup B) = SumFunctionOnSet(f, A) + SumFunctionOnSet(f, B)
    BY <1>1, <1>2, <2>1, SumUnion
  <2> QED BY <2>2, <2>3
<1>9. SumFunctionOnSet(f, A) = SumFunctionOnSet(a, A)
  BY <1>2, <1>3, SumSame
<1>10. SumFunctionOnSet(f, B) + SumFunctionOnSet(b, B) = 0
  <2>1. \A r \in B : f[r] \in Int /\ b[r] \in Int /\ z[r] = f[r] + b[r]
    BY <1>1, <1>2, <1>4
  <2>2. SumFunctionOnSet(z, B) = SumFunctionOnSet(f, B) + SumFunctionOnSet(b, B)
    BY <1>2, <2>1, SumPlus
  <2>3. \A r \in B \ {} : z[r] = 0
    BY <1>4
  <2>4. SumFunctionOnSet(z, B) = SumFunctionOnSet(z, {})
    BY <1>2, <2>3, SumOver
  <2> QED BY <2>2, <2>4, SumEmpty
<1>11. /\ SumFunctionOnSet(f, B) \in Int /\ SumFunctionOnSet(b, B) \in Int
       /\ SumFunctionOnSet(a, A) \in Int
  <2>1. (\A r \in B : f[r] \in Int /\ b[r] \in Int) /\ \A r \in A : a[r] \in Int
    BY <1>1, <1>2, <1>3, <1>4
  <2> QED BY <1>2, <2>1, SumInt
<1>12. reserved[s] \in Int
  BY DEF StockTyped
<1> QED BY <1>6, <1>7, <1>8, <1>9, <1>10, <1>11, <1>12 DEF A, B
-----------------------------------------------------------------------------
(* Transfers.                                                              *)

(* What a request saw of its transfer allowed what it is about to do.      *)
SeenAllows(w) ==
  request[w] # Idle =>
    request[w].t \in Transfers /\ request[w].saw \in MayStart(request[w].op)

Outside(t) == Moved("TRANSFER_OUT", t) - Moved("TRANSFER_IN", t)

TransferRight(t) ==
  t \notin overtaken =>
    Outside(t) = CASE transfer[t].st = "IN_TRANSIT" -> transfer[t].qty
                   [] transfer[t].st = "RECEIVED" -> transfer[t].qty - transfer[t].got
                   [] OTHER -> 0

MovesTyped ==
  /\ transfer \in [Transfers -> [st : Statuses, qty : Nat, got : Nat]]
  /\ request \in [Workers -> {Idle} \cup [op : Operations, t : Transfers, saw : Statuses]]

TransferInv ==
  /\ StockTyped /\ MovesTyped
  /\ \A w \in Workers : SeenAllows(w)
  /\ \A t \in Transfers : TransferRight(t)

LEMMA MoveRows ==
  ASSUME NEW t, NEW type, NEW s, NEW qty \in Int
  PROVE  /\ Sized(Move(t, type, s, qty))
         /\ Chosen(Move(t, type, s, qty), type, t) = Move(t, type, s, qty)
         /\ Quantity(Move(t, type, s, qty)) = qty
         /\ \A k, u : (k # type \/ u # t) => Chosen(Move(t, type, s, qty), k, u) = {}
<1> DEFINE r == Row(s, type, qty, t)
<1>1. r.qty = qty /\ r.type = type /\ r.of = t
  BY DEF Row
<1>2. Move(t, type, s, qty) = {r}
  BY DEF Move
<1> HIDE DEF r
<1>3. Sized({r}) /\ Quantity({r}) = qty
  BY <1>1, FS_Singleton, QuantityOfOne DEF Sized
<1>4. Chosen({r}, type, t) = {r} /\ \A k, u : (k # type \/ u # t) => Chosen({r}, k, u) = {}
  BY <1>1 DEF Chosen
<1> QED BY <1>2, <1>3, <1>4

(* A call that posts no row of a transfer leaves what it has outside.      *)
LEMMA TransferApart ==
  ASSUME TransferInv, NEW rows, Sized(rows), Post(rows), NEW t \in Transfers, TransferRight(t),
         Chosen(rows, "TRANSFER_OUT", t) = {}, Chosen(rows, "TRANSFER_IN", t) = {},
         transfer'[t] = transfer[t], overtaken \subseteq overtaken'
  PROVE  TransferRight(t)'
<1>1. Moved("TRANSFER_OUT", t)' = Moved("TRANSFER_OUT", t) + 0
  BY PostMoves, QuantityOfNone DEF TransferInv
<1>2. Moved("TRANSFER_IN", t)' = Moved("TRANSFER_IN", t) + 0
  BY PostMoves, QuantityOfNone DEF TransferInv
<1>3. Outside(t)' = Outside(t)
  BY <1>1, <1>2, MovedInt DEF Outside, TransferInv
<1> QED BY <1>3 DEF TransferRight

LEMMA NothingPosted ==
  ASSUME StockTyped, Post({})
  PROVE  StockTyped' /\ \A type, of : /\ Moved(type, of)' = Moved(type, of)
                                      /\ Rows(type, of)' = Rows(type, of)
                                      /\ Chosen({}, type, of) = {}
<1>1. Sized({})
  BY FS_EmptySet DEF Sized
<1>2. StockTyped'
  BY <1>1, StockStaysTyped
<1>3. \A type, of : Chosen({}, type, of) = {}
  BY DEF Chosen
<1>4. ASSUME NEW type, NEW of
      PROVE  Moved(type, of)' = Moved(type, of) /\ Rows(type, of)' = Rows(type, of)
  <2>1. Moved(type, of)' = Moved(type, of) + Quantity(Chosen({}, type, of))
    BY <1>1, PostMoves
  <2>2. Rows(type, of)' = Rows(type, of) \cup Chosen({}, type, of)
    BY LedgerGrows
  <2> QED BY <1>3, <2>1, <2>2, QuantityOfNone, MovedInt
<1> QED BY <1>2, <1>3, <1>4

LEMMA OthersKeep ==
  ASSUME NEW w \in Workers, TransferInv,
         request' = [request EXCEPT ![w] = Idle]
  PROVE  \A v \in Workers : SeenAllows(v)'
<1>1. ASSUME NEW v \in Workers PROVE request'[v] \in {Idle, request[v]} /\ SeenAllows(v)
  BY DEF TransferInv, MovesTyped
<1> QED BY <1>1 DEF SeenAllows

LEMMA RequestAt ==
  ASSUME TransferInv, NEW w \in Workers, request[w].op \in Operations
  PROVE  /\ request[w].t \in Transfers
         /\ request[w].saw \in MayStart(request[w].op)
<1>1. request[w] # Idle
  BY DEF Idle, Operations
<1> QED BY <1>1 DEF TransferInv, SeenAllows

(* Who writes a transfer that is not overtaken has seen what it is.        *)
LEMMA AnsweredAt ==
  ASSUME TransferInv, NEW w \in Workers, request[w].op \in Operations, Answer(w)
  PROVE  /\ request' = [request EXCEPT ![w] = Idle]
         /\ overtaken \subseteq overtaken'
         /\ request[w].t \notin overtaken' =>
              request[w].t \notin overtaken /\ transfer[request[w].t].st = request[w].saw
BY DEF Answer

LEMMA TransfersInitial ==
  ASSUME BranchInit
  PROVE  TransferInv
<1> USE StockLevelsAssumption DEF BranchInit, StockInit, TransfersInit
<1>1. BagToSet(moves) = {}
  BY DEF BagToSet, EmptyBag, SetToBag
<1>2. StockTyped
  BY <1>1, FS_EmptySet DEF StockTyped, Sized
<1>3. MovesTyped
  BY DEF MovesTyped, NoTransfer, Statuses, Idle
<1>4. ASSUME NEW t \in Transfers PROVE TransferRight(t)
  <2>1. Rows("TRANSFER_OUT", t) = {} /\ Rows("TRANSFER_IN", t) = {}
    BY <1>1 DEF Rows, Of
  <2>2. Outside(t) = 0
    BY <2>1, NoneMoved DEF Outside
  <2> QED BY <2>2 DEF TransferRight, NoTransfer
<1>5. \A w \in Workers : SeenAllows(w)
  BY DEF SeenAllows
<1> QED BY <1>2, <1>3, <1>4, <1>5 DEF TransferInv

(* A step that posts nothing and moves no transfer in or out of transit.   *)
LEMMA QuietStep ==
  ASSUME TransferInv, UNCHANGED stock, MovesTyped', \A w \in Workers : SeenAllows(w)',
         \A t \in Transfers : TransferRight(t) => (Outside(t)' = Outside(t) => TransferRight(t)')
  PROVE  TransferInv'
<1>1. StockTyped' /\ \A t : Outside(t)' = Outside(t)
  BY DEF TransferInv, StockTyped, Sized, BagToSet, Outside, Moved, Rows, Of, stock
<1> QED BY <1>1 DEF TransferInv

(* A step that posts rows of one transfer and changes its row alone.       *)
LEMMA MovingStep ==
  ASSUME TransferInv, NEW rows, Sized(rows), Post(rows), NEW t \in Transfers,
         MovesTyped', \A w \in Workers : SeenAllows(w)', TransferRight(t)',
         \A r \in rows : r.of = t, overtaken \subseteq overtaken',
         \A u \in Transfers \ {t} : transfer'[u] = transfer[u]
  PROVE  TransferInv'
<1>1. StockTyped'
  BY StockStaysTyped DEF TransferInv
<1>2. ASSUME NEW u \in Transfers PROVE TransferRight(u)'
  <2>1. CASE u = t
    BY <2>1
  <2>2. CASE u # t
    <3>1. Chosen(rows, "TRANSFER_OUT", u) = {} /\ Chosen(rows, "TRANSFER_IN", u) = {}
      BY <2>2 DEF Chosen
    <3> QED BY <2>2, <3>1, TransferApart DEF TransferInv
  <2> QED BY <2>1, <2>2
<1> QED BY <1>1, <1>2 DEF TransferInv

LEMMA CreatingTransfer ==
  ASSUME TransferInv, NEW t \in Transfers, NEW qty \in Asked, CreateTransfer(t, qty)
  PROVE  TransferInv'
<1> USE StockTransfersAssumption DEF CreateTransfer
<1>1. /\ transfer'[t] = [st |-> "DRAFT", qty |-> qty, got |-> 0]
      /\ \A u \in Transfers \ {t} : transfer'[u] = transfer[u]
  BY DEF TransferInv, MovesTyped
<1>2. MovesTyped'
  BY DEF TransferInv, MovesTyped, Statuses
<1>3. ASSUME NEW w \in Workers PROVE SeenAllows(w)'
  BY DEF TransferInv, SeenAllows
<1>4. ASSUME NEW u \in Transfers, TransferRight(u), Outside(u)' = Outside(u)
      PROVE  TransferRight(u)'
  <2>1. CASE u = t
    BY <1>1, <1>4, <2>1 DEF TransferRight
  <2>2. CASE u # t
    BY <1>1, <1>4, <2>2 DEF TransferRight
  <2> QED BY <2>1, <2>2
<1> QED BY <1>2, <1>3, <1>4, QuietStep

LEMMA CheckingTransfer ==
  ASSUME TransferInv, NEW w \in Workers, NEW op \in Operations, NEW t \in Transfers,
         Check(w, op, t)
  PROVE  TransferInv'
<1> USE DEF Check
<1>1. request'[w] = [op |-> op, t |-> t, saw |-> transfer[t].st]
  BY DEF TransferInv, MovesTyped
<1>2. MovesTyped'
  BY DEF TransferInv, MovesTyped
<1>3. \A v \in Workers \ {w} : request'[v] = request[v] /\ SeenAllows(v)
  BY DEF TransferInv, MovesTyped
<1>4. ASSUME NEW v \in Workers PROVE SeenAllows(v)'
  BY <1>1, <1>3 DEF SeenAllows
<1>5. \A u \in Transfers : TransferRight(u) => (Outside(u)' = Outside(u) => TransferRight(u)')
  BY DEF TransferRight
<1> QED BY <1>2, <1>4, <1>5, QuietStep

LEMMA DoneTyped ==
  ASSUME TransferInv, NEW w \in Workers, request[w].op \in Operations,
         NEW st \in Statuses, Done(w, st)
  PROVE  /\ MovesTyped' /\ \A v \in Workers : SeenAllows(v)'
         /\ overtaken \subseteq overtaken'
         /\ request[w].t \notin overtaken' =>
              request[w].t \notin overtaken /\ transfer[request[w].t].st = request[w].saw
         /\ transfer'[request[w].t] = [transfer[request[w].t] EXCEPT !.st = st]
         /\ \A u \in Transfers \ {request[w].t} : transfer'[u] = transfer[u]
<1> DEFINE t == request[w].t
<1>1. t \in Transfers
  BY RequestAt
<1>2. /\ transfer' = [transfer EXCEPT ![t].st = st] /\ request' = [request EXCEPT ![w] = Idle]
      /\ overtaken \subseteq overtaken'
      /\ t \notin overtaken' => t \notin overtaken /\ transfer[t].st = request[w].saw
  BY AnsweredAt DEF Done
<1> HIDE DEF t
<1>3. /\ transfer'[t] = [transfer[t] EXCEPT !.st = st]
      /\ \A u \in Transfers \ {t} : transfer'[u] = transfer[u]
  BY <1>1, <1>2 DEF TransferInv, MovesTyped
<1>4. MovesTyped'
  BY <1>1, <1>2 DEF TransferInv, MovesTyped
<1>5. \A v \in Workers : SeenAllows(v)'
  BY <1>2, OthersKeep
<1> QED BY <1>2, <1>3, <1>4, <1>5 DEF t

LEMMA EditingTransfer ==
  ASSUME TransferInv, NEW w \in Workers, NEW qty \in Asked, EditTransferItem(w, qty)
  PROVE  TransferInv'
<1> USE StockTransfersAssumption
<1> DEFINE t == request[w].t
           open == transfer[t].st \in {"DRAFT", "REQUESTED"}
<1>1. t \in Transfers
  <2>1. request[w].op \in Operations
    BY DEF EditTransferItem, Operations
  <2> QED BY <2>1, RequestAt
<1>2. /\ transfer' = [transfer EXCEPT ![t].qty = IF open THEN qty ELSE @]
      /\ request' = [request EXCEPT ![w] = Idle] /\ UNCHANGED stock /\ UNCHANGED overtaken
  BY DEF EditTransferItem, MayStart
<1> HIDE DEF t, open
<1>4. /\ transfer'[t] = [transfer[t] EXCEPT !.qty = IF open THEN qty ELSE @]
      /\ \A u \in Transfers \ {t} : transfer'[u] = transfer[u]
  BY <1>1, <1>2 DEF TransferInv, MovesTyped
<1>5. MovesTyped'
  BY <1>1, <1>2 DEF TransferInv, MovesTyped
<1>6. \A v \in Workers : SeenAllows(v)'
  BY <1>2, OthersKeep
<1>7. ASSUME NEW u \in Transfers, TransferRight(u), Outside(u)' = Outside(u)
      PROVE  TransferRight(u)'
  <2>1. CASE u = t /\ open
    <3>1. transfer'[t].st = transfer[t].st /\ transfer[t].st \in {"DRAFT", "REQUESTED"}
      BY <1>1, <1>4, <2>1 DEF TransferInv, MovesTyped, open
    <3> QED BY <1>2, <1>7, <2>1, <3>1 DEF TransferRight
  <2>2. CASE ~(u = t /\ open)
    <3>1. transfer'[u] = transfer[u]
      BY <1>1, <1>4, <2>2 DEF TransferInv, MovesTyped
    <3> QED BY <1>2, <1>7, <3>1 DEF TransferRight
  <2> QED BY <2>1, <2>2
<1> QED BY <1>2, <1>5, <1>6, <1>7, QuietStep

(* A change of status with no goods on the way before or after.            *)
LEMMA ChangingStatus ==
  ASSUME TransferInv, NEW w \in Workers, request[w].op \in Operations,
         NEW st \in Statuses, Done(w, st), UNCHANGED stock,
         st \notin {"IN_TRANSIT", "RECEIVED"}, request[w].saw \notin {"IN_TRANSIT", "RECEIVED"}
  PROVE  TransferInv'
<1> DEFINE t == request[w].t
<1>1. t \in Transfers
  BY RequestAt
<1>2. /\ MovesTyped' /\ \A v \in Workers : SeenAllows(v)' /\ overtaken \subseteq overtaken'
      /\ t \notin overtaken' => t \notin overtaken /\ transfer[t].st = request[w].saw
      /\ transfer'[t] = [transfer[t] EXCEPT !.st = st]
      /\ \A u \in Transfers \ {t} : transfer'[u] = transfer[u]
  BY DoneTyped
<1> HIDE DEF t
<1>3. ASSUME NEW u \in Transfers, TransferRight(u), Outside(u)' = Outside(u)
      PROVE  TransferRight(u)'
  <2>1. CASE u = t
    <3>1. transfer'[t].st = st
      BY <1>1, <1>2 DEF TransferInv, MovesTyped
    <3> QED BY <1>2, <1>3, <2>1, <3>1 DEF TransferRight
  <2>2. CASE u # t
    BY <1>2, <1>3, <2>2 DEF TransferRight
  <2> QED BY <2>1, <2>2
<1> QED BY <1>2, <1>3, QuietStep

LEMMA ShippingTransfer ==
  ASSUME TransferInv, NEW w \in Workers, NEW t \in Transfers, t = request[w].t,
         ShipTransfer(w)
  PROVE  TransferInv'
<1> DEFINE qty == transfer[t].qty
           rows == Move(t, "TRANSFER_OUT", From, qty)
<1>1. request[w].op = "ship" /\ Post(rows) /\ Done(w, "IN_TRANSIT")
  BY DEF ShipTransfer
<1>2. request[w].op \in Operations /\ "IN_TRANSIT" \in Statuses
  BY <1>1 DEF Operations, Statuses
<1>3. t \in Transfers /\ request[w].saw = "APPROVED"
  BY <1>1, <1>2, RequestAt DEF MayStart
<1>4. /\ MovesTyped' /\ \A v \in Workers : SeenAllows(v)' /\ overtaken \subseteq overtaken'
      /\ t \notin overtaken' => t \notin overtaken /\ transfer[t].st = request[w].saw
      /\ transfer'[t] = [transfer[t] EXCEPT !.st = "IN_TRANSIT"]
      /\ \A u \in Transfers \ {t} : transfer'[u] = transfer[u]
  BY <1>1, <1>2, DoneTyped
<1>5. qty \in Int
  BY <1>3 DEF TransferInv, MovesTyped
<1> HIDE DEF qty
<1>6. /\ Sized(rows) /\ Chosen(rows, "TRANSFER_OUT", t) = rows /\ Chosen(rows, "TRANSFER_IN", t) = {}
      /\ Quantity(rows) = qty /\ \A r \in rows : r.of = t
  <2>1. \A r \in rows : r.of = t
    BY DEF Move, Row
  <2> HIDE DEF rows
  <2> QED BY <1>5, <2>1, MoveRows DEF rows
<1> HIDE DEF rows
<1>7. Moved("TRANSFER_OUT", t)' = Moved("TRANSFER_OUT", t) + qty
  BY <1>1, <1>6, PostMoves DEF TransferInv
<1>8. Moved("TRANSFER_IN", t)' = Moved("TRANSFER_IN", t) + 0
  BY <1>1, <1>6, PostMoves, QuantityOfNone DEF TransferInv
<1>9. t \notin overtaken' => Outside(t) = 0
  BY <1>3, <1>4 DEF TransferInv, TransferRight
<1>10. t \notin overtaken' => Outside(t)' = qty
  BY <1>5, <1>7, <1>8, <1>9, MovedInt DEF Outside, TransferInv
<1>11. transfer'[t].st = "IN_TRANSIT" /\ transfer'[t].qty = qty
  BY <1>3, <1>4 DEF TransferInv, MovesTyped, qty
<1>12. TransferRight(t)'
  BY <1>10, <1>11 DEF TransferRight
<1> QED BY <1>1, <1>3, <1>4, <1>6, <1>12, MovingStep

LEMMA ReceivingTransfer ==
  ASSUME TransferInv, NEW w \in Workers, NEW t \in Transfers, t = request[w].t,
         NEW got \in {0} \cup Asked,
         ReceiveTransfer(w, got)
  PROVE  TransferInv'
<1> USE StockTransfersAssumption
<1> DEFINE rows == Move(t, "TRANSFER_IN", To, got)
<1>1. /\ request[w].op = "receive" /\ Post(rows)
      /\ transfer' = [transfer EXCEPT ![t].st = "RECEIVED", ![t].got = got]
      /\ Answer(w)
  BY DEF ReceiveTransfer
<1>2. request[w].op \in Operations
  BY <1>1 DEF Operations
<1>3. /\ t \in Transfers /\ request[w].saw = "IN_TRANSIT"
      /\ request' = [request EXCEPT ![w] = Idle] /\ overtaken \subseteq overtaken'
      /\ t \notin overtaken' => t \notin overtaken /\ transfer[t].st = request[w].saw
  BY <1>1, <1>2, RequestAt, AnsweredAt DEF MayStart
<1>4. /\ transfer'[t] = [transfer[t] EXCEPT !.st = "RECEIVED", !.got = got]
      /\ \A u \in Transfers \ {t} : transfer'[u] = transfer[u]
  BY <1>1, <1>3 DEF TransferInv, MovesTyped
<1>5. MovesTyped'
  BY <1>1, <1>3 DEF TransferInv, MovesTyped, Statuses
<1>6. \A v \in Workers : SeenAllows(v)'
  BY <1>3, OthersKeep
<1>7. got \in Int
  OBVIOUS
<1>8. /\ Sized(rows) /\ Chosen(rows, "TRANSFER_IN", t) = rows /\ Chosen(rows, "TRANSFER_OUT", t) = {}
      /\ Quantity(rows) = got /\ \A r \in rows : r.of = t
  <2>1. \A r \in rows : r.of = t
    BY DEF Move, Row
  <2> HIDE DEF rows
  <2> QED BY <1>7, <2>1, MoveRows DEF rows
<1> HIDE DEF rows
<1>9. Moved("TRANSFER_IN", t)' = Moved("TRANSFER_IN", t) + got
  BY <1>1, <1>8, PostMoves DEF TransferInv
<1>10. Moved("TRANSFER_OUT", t)' = Moved("TRANSFER_OUT", t) + 0
  <2>1. Post(rows) /\ Sized(rows) /\ Chosen(rows, "TRANSFER_OUT", t) = {} /\ StockTyped
    BY <1>1, <1>8 DEF TransferInv
  <2> QED BY Zenon, <2>1, PostMoves, QuantityOfNone
<1>11. t \notin overtaken' => Outside(t) = transfer[t].qty
  BY <1>3 DEF TransferInv, TransferRight
<1>12. t \notin overtaken' => Outside(t)' = transfer[t].qty - got
  BY <1>7, <1>9, <1>10, <1>11, MovedInt DEF Outside, TransferInv
<1>13. transfer'[t].st = "RECEIVED" /\ transfer'[t].qty = transfer[t].qty /\ transfer'[t].got = got
  BY <1>3, <1>4 DEF TransferInv, MovesTyped
<1>14. TransferRight(t)'
  BY <1>12, <1>13 DEF TransferRight
<1> QED BY <1>1, <1>3, <1>4, <1>5, <1>6, <1>8, <1>14, MovingStep

LEMMA CancelingTransfer ==
  ASSUME TransferInv, NEW w \in Workers, NEW t \in Transfers, t = request[w].t,
         CancelTransfer(w)
  PROVE  TransferInv'
<1> DEFINE qty == transfer[t].qty
           sent == request[w].saw = "IN_TRANSIT"
           rows == IF sent THEN Move(t, "TRANSFER_IN", From, qty) ELSE {}
           back == IF sent THEN qty ELSE 0
<1>1. request[w].op = "cancel" /\ Post(rows) /\ Done(w, "CANCELED")
  BY DEF CancelTransfer
<1>2. request[w].op \in Operations /\ "CANCELED" \in Statuses
  BY <1>1 DEF Operations, Statuses
<1>3. t \in Transfers /\ request[w].saw # "RECEIVED"
  BY <1>1, <1>2, RequestAt DEF MayStart
<1>4. /\ MovesTyped' /\ \A v \in Workers : SeenAllows(v)' /\ overtaken \subseteq overtaken'
      /\ t \notin overtaken' => t \notin overtaken /\ transfer[t].st = request[w].saw
      /\ transfer'[t] = [transfer[t] EXCEPT !.st = "CANCELED"]
      /\ \A u \in Transfers \ {t} : transfer'[u] = transfer[u]
  BY <1>1, <1>2, DoneTyped
<1>5. qty \in Int
  BY <1>3 DEF TransferInv, MovesTyped
<1>6. t \notin overtaken' => Outside(t) = back
  BY <1>3, <1>4 DEF TransferInv, TransferRight
<1>7. transfer'[t].st = "CANCELED"
  BY <1>3, <1>4 DEF TransferInv, MovesTyped
<1> HIDE DEF qty, sent
<1>8. /\ Sized(rows) /\ Chosen(rows, "TRANSFER_OUT", t) = {}
      /\ Quantity(Chosen(rows, "TRANSFER_IN", t)) = back /\ \A r \in rows : r.of = t
  <2>1. CASE sent
    <3> DEFINE m == Move(t, "TRANSFER_IN", From, qty)
    <3>1. \A r \in m : r.of = t
      BY DEF Move, Row
    <3>2. rows = m /\ back = qty
      BY <2>1
    <3>3. /\ Sized(m) /\ Chosen(m, "TRANSFER_OUT", t) = {} /\ Chosen(m, "TRANSFER_IN", t) = m
          /\ Quantity(m) = qty
      <4> HIDE DEF m
      <4> QED BY <1>5, MoveRows DEF m
    <3> HIDE DEF m, rows, back
    <3> QED BY <3>1, <3>2, <3>3
  <2>2. CASE ~sent
    <3>1. rows = {} /\ back = 0 /\ Sized({}) /\ \A type : Chosen({}, type, t) = {}
      BY <2>2, FS_EmptySet DEF Sized, Chosen
    <3> HIDE DEF rows, back
    <3> QED BY <3>1, QuantityOfNone
  <2> QED BY <2>1, <2>2
<1>9. back \in Int
  BY <1>5
<1> HIDE DEF rows, back
<1>10. Moved("TRANSFER_IN", t)' = Moved("TRANSFER_IN", t) + back
  BY <1>1, <1>8, PostMoves DEF TransferInv
<1>11. Moved("TRANSFER_OUT", t)' = Moved("TRANSFER_OUT", t) + 0
  BY <1>1, <1>8, PostMoves, QuantityOfNone DEF TransferInv
<1>12. t \notin overtaken' => Outside(t)' = 0
  BY <1>6, <1>9, <1>10, <1>11, MovedInt DEF Outside, TransferInv
<1>13. TransferRight(t)'
  BY <1>7, <1>12 DEF TransferRight
<1> QED BY <1>1, <1>3, <1>4, <1>8, <1>13, MovingStep

(* What a transfer in one call posts.                                      *)
Both(t, qty) == Move(t, "TRANSFER_OUT", From, qty) \cup Move(t, "TRANSFER_IN", To, qty)

LEMMA QuickRows ==
  ASSUME NEW t, NEW qty \in Int
  PROVE  /\ Sized(Both(t, qty)) /\ \A r \in Both(t, qty) : r.of = t
         /\ Quantity(Chosen(Both(t, qty), "TRANSFER_OUT", t)) = qty
         /\ Quantity(Chosen(Both(t, qty), "TRANSFER_IN", t)) = qty
<1> DEFINE a == Row(From, "TRANSFER_OUT", qty, t)
           b == Row(To, "TRANSFER_IN", qty, t)
           rows == Both(t, qty)
<1>1. /\ a.qty = qty /\ a.type = "TRANSFER_OUT" /\ a.of = t
      /\ b.qty = qty /\ b.type = "TRANSFER_IN" /\ b.of = t
  BY DEF Row
<1>2. rows = {a} \cup {b}
  BY DEF Move, Both
<1> HIDE DEF a, b, rows
<1>3. IsFiniteSet(rows)
  <2>1. IsFiniteSet({a})
    BY FS_Singleton
  <2>2. IsFiniteSet({a} \cup {b})
    BY <2>1, FS_AddElement
  <2> QED BY <1>2, <2>2
<1>4. Chosen(rows, "TRANSFER_OUT", t) = {a} /\ Chosen(rows, "TRANSFER_IN", t) = {b}
  BY <1>1, <1>2 DEF Chosen
<1>5. Quantity({a}) = qty /\ Quantity({b}) = qty
  BY <1>1, QuantityOfOne
<1>6. Sized(rows) /\ \A r \in rows : r.of = t
  BY <1>1, <1>2, <1>3 DEF Sized
<1> QED BY <1>4, <1>5, <1>6 DEF rows

LEMMA QuickTransferring ==
  ASSUME TransferInv, NEW t \in Transfers, NEW qty \in Asked, QuickTransfer(t, qty)
  PROVE  TransferInv'
<1> USE StockTransfersAssumption
<1> DEFINE free == AllowNegative \/ qty <= level[From] - reserved[From]
           whole == free /\ qty <= batch[From] /\ Enough(Move(t, "TRANSFER_OUT", From, qty))
           rows == IF whole THEN Both(t, qty) ELSE {}
           st == IF whole THEN "RECEIVED" ELSE IF free THEN "APPROVED" ELSE "DRAFT"
           row == [st |-> st, qty |-> qty, got |-> IF whole THEN qty ELSE 0]
<1>1. /\ transfer[t].st = "none" /\ transfer' = [transfer EXCEPT ![t] = row]
      /\ Post(rows) /\ request' = request /\ overtaken' = overtaken
  BY DEF QuickTransfer, Both
<1>2. qty \in Nat /\ row \in [st : Statuses, qty : Nat, got : Nat]
  BY DEF Statuses
<1>3. /\ row.qty = qty /\ (whole => row.st = "RECEIVED" /\ row.got = qty)
      /\ (~whole => row.st \in {"APPROVED", "DRAFT"})
  OBVIOUS
<1>4. Sized(rows) /\ \A r \in rows : r.of = t
  <2>1. Sized(Both(t, qty)) /\ \A r \in Both(t, qty) : r.of = t
    BY <1>2, QuickRows
  <2>2. Sized({})
    BY FS_EmptySet DEF Sized
  <2> QED BY <2>1, <2>2
<1>5. Quantity(Chosen(rows, "TRANSFER_OUT", t)) = Quantity(Chosen(rows, "TRANSFER_IN", t))
  <2>1. Quantity(Chosen(Both(t, qty), "TRANSFER_OUT", t)) = Quantity(Chosen(Both(t, qty), "TRANSFER_IN", t))
    BY <1>2, QuickRows
  <2>2. Chosen({}, "TRANSFER_OUT", t) = {} /\ Chosen({}, "TRANSFER_IN", t) = {}
    BY DEF Chosen
  <2> HIDE DEF whole
  <2> QED BY <2>1, <2>2
<1> HIDE DEF free, whole, rows, st, row
<1>6. transfer'[t] = row /\ \A u \in Transfers \ {t} : transfer'[u] = transfer[u]
  BY <1>1 DEF TransferInv, MovesTyped
<1>7. MovesTyped'
  BY <1>1, <1>2 DEF TransferInv, MovesTyped
<1>8. ASSUME NEW w \in Workers PROVE SeenAllows(w)'
  BY <1>1 DEF TransferInv, SeenAllows
<1>9. TransferRight(t)'
  <2> DEFINE n == Quantity(Chosen(rows, "TRANSFER_OUT", t))
  <2>1. Moved("TRANSFER_OUT", t)' = Moved("TRANSFER_OUT", t) + n
    BY <1>1, <1>4, PostMoves DEF TransferInv
  <2>2. Moved("TRANSFER_IN", t)' = Moved("TRANSFER_IN", t) + n
    BY <1>1, <1>4, <1>5, PostMoves DEF TransferInv
  <2>3. n \in Int
    <3>1. Sized(Chosen(rows, "TRANSFER_OUT", t))
      BY <1>4, Subrows DEF Chosen
    <3> QED BY <3>1, QuantityInt
  <2>4. t \notin overtaken' => Outside(t) = 0
    BY <1>1 DEF TransferInv, TransferRight
  <2> HIDE DEF n
  <2>5. t \notin overtaken' => Outside(t)' = 0
    BY <2>1, <2>2, <2>3, <2>4, MovedInt DEF Outside, TransferInv
  <2>6. CASE whole
    BY <1>2, <1>3, <1>6, <2>5, <2>6 DEF TransferRight
  <2>7. CASE ~whole
    BY <1>3, <1>6, <2>5, <2>7 DEF TransferRight
  <2> QED BY <2>6, <2>7
<1> QED BY <1>1, <1>4, <1>6, <1>7, <1>8, <1>9, MovingStep

LEMMA RefusingTransfer ==
  ASSUME TransferInv, NEW w \in Workers, Refuse(w)
  PROVE  TransferInv'
<1>1. UNCHANGED <<stock, transfer, overtaken>> /\ request' = [request EXCEPT ![w] = Idle]
  BY DEF Refuse
<1>2. MovesTyped'
  BY <1>1 DEF TransferInv, MovesTyped
<1>3. \A v \in Workers : SeenAllows(v)'
  BY <1>1, OthersKeep
<1>4. \A u \in Transfers : TransferRight(u) => (Outside(u)' = Outside(u) => TransferRight(u)')
  BY <1>1 DEF TransferRight
<1> QED BY <1>1, <1>2, <1>3, <1>4, QuietStep

LEMMA TransferSteps ==
  ASSUME TransferInv, TransfersNext
  PROVE  TransferInv'
<1>1. ASSUME NEW t \in Transfers, NEW qty \in Asked, CreateTransfer(t, qty) \/ QuickTransfer(t, qty)
      PROVE  TransferInv'
  BY <1>1, CreatingTransfer, QuickTransferring
<1>2. ASSUME NEW w \in Workers, NEW op \in Operations, NEW t \in Transfers, Check(w, op, t)
      PROVE  TransferInv'
  BY <1>2, CheckingTransfer
<1>3. ASSUME NEW w \in Workers, RequestTransfer(w) \/ ApproveTransfer(w) PROVE TransferInv'
  <2>1. /\ request[w].op \in {"request", "approve"} /\ UNCHANGED stock
        /\ Done(w, "REQUESTED") \/ Done(w, "APPROVED")
    BY <1>3 DEF RequestTransfer, ApproveTransfer
  <2>2. request[w].op \in Operations /\ {"REQUESTED", "APPROVED"} \subseteq Statuses
    BY <2>1 DEF Operations, Statuses
  <2>3. request[w].saw \notin {"IN_TRANSIT", "RECEIVED"}
    BY <2>1, <2>2, RequestAt DEF MayStart
  <2> QED BY <2>1, <2>2, <2>3, ChangingStatus
<1>4. ASSUME NEW w \in Workers,
             ShipTransfer(w) \/ CancelTransfer(w) \/ \E got \in {0} \cup Asked : ReceiveTransfer(w, got)
      PROVE  TransferInv'
  <2>1. request[w].op \in Operations
    BY <1>4 DEF ShipTransfer, CancelTransfer, ReceiveTransfer, Operations
  <2>2. PICK t \in Transfers : t = request[w].t
    BY <2>1, RequestAt
  <2> QED BY <1>4, <2>2, ShippingTransfer, CancelingTransfer, ReceivingTransfer
<1>5. ASSUME NEW w \in Workers, Refuse(w) \/ \E qty \in Asked : EditTransferItem(w, qty)
      PROVE  TransferInv'
  BY <1>5, RefusingTransfer, EditingTransfer
<1> QED BY <1>1, <1>2, <1>3, <1>4, <1>5 DEF TransfersNext
-----------------------------------------------------------------------------
(* Orders, production and counts.                                          *)

OrderTypes == {"RESERVATION", "RESERVATION_RELEASE", "SALE_OUT", "RETURN_FROM_CUSTOMER",
               "ORDER_REVERSAL"}

(* An order reserves once, with one row.                                   *)
HeldRow(o, q) == Row(Sold, "RESERVATION", q, o)

HeldOnce(o) ==
  \/ Rows("RESERVATION", o) = {}
  \/ \E q \in Int : Rows("RESERVATION", o) = {HeldRow(o, q)} /\ moves[HeldRow(o, q)] = 1

(* What the rows of an order say of it: a release gives up all that was    *)
(* reserved, a sale stands for the items, a reversal for all that was      *)
(* sold.                                                                   *)
OrderRight(o) ==
  /\ order[o].st = "none" => \A type \in OrderTypes : ~Has(type, o)
  /\ HeldOnce(o)
  /\ ~ReserveOnCreate => ~Has("RESERVATION", o) /\ ~Has("RESERVATION_RELEASE", o)
  /\ Has("RESERVATION_RELEASE", o) \/ order[o].st = "CANCELED" => Claimed(o) = 0
  /\ order[o].st \in Live =>
       /\ ~Has("ORDER_REVERSAL", o)
       /\ ~Has("SALE_OUT", o) => ~Has("RETURN_FROM_CUSTOMER", o)
       /\ Has("SALE_OUT", o) =>
            Moved("SALE_OUT", o) - Moved("RETURN_FROM_CUSTOMER", o) = order[o].qty
  /\ order[o].st = "CANCELED" => Moved("ORDER_REVERSAL", o) = Moved("SALE_OUT", o)

(* A production whose work has not begun has consumed nothing.             *)
MakingRight(p) ==
  /\ po[p].st = "none" => po[p].ing = "PENDING"
  /\ po[p].st \in {"none", "DRAFT"} => po[p].ing # "CONSUMED" /\ po[p].asked = 0

Allocated == {p \in Productions : po[p].ing = "ALLOCATED"}

Claims == SumFunctionOnSet([o \in Orders |-> Claimed(o)], Orders)

Balanced == reserved[Sold] = Claims + Planned * Cardinality(Allocated)

RoomInv ==
  /\ StockTyped /\ RoomTypeOK
  /\ \A o \in Orders : OrderRight(o)
  /\ \A p \in Productions : MakingRight(p)
  /\ Balanced

LEMMA ClaimedInt ==
  ASSUME StockTyped, NEW o
  PROVE  Claimed(o) \in Int
BY MovedInt DEF Claimed

LEMMA ClaimsInt ==
  ASSUME StockTyped
  PROVE  Claims \in Int
<1> DEFINE f == [o \in Orders |-> Claimed(o)]
<1>1. \A o \in Orders : f[o] \in Int
  BY ClaimedInt
<1> HIDE DEF f
<1>2. SumFunctionOnSet(f, Orders) \in Int
  BY <1>1, StockRoomAssumption, SumInt
<1> QED BY <1>2 DEF Claims, f

(* The rows an order posts: at most one of each type.                      *)
OrderRows(o, D, n) == {Row(Sold, type, n[type], o) : type \in D}

LEMMA OrderPosts ==
  ASSUME StockTyped, NEW o, NEW D \in SUBSET OrderTypes, NEW n \in [OrderTypes -> Int]
  PROVE  /\ Sized(OrderRows(o, D, n))
         /\ \A r \in OrderRows(o, D, n) : r.of = o /\ r.slot = Sold /\ r.type \in OrderTypes
         /\ \A type : Chosen(OrderRows(o, D, n), type, o) =
                        IF type \in D THEN {Row(Sold, type, n[type], o)} ELSE {}
<1>1. \A type : LET r == Row(Sold, type, n[type], o)
                IN r.of = o /\ r.slot = Sold /\ r.type = type /\ r.qty = n[type]
  BY DEF Row
<1>2. IsFiniteSet(D)
  <2>1. IsFiniteSet({"RESERVATION"})
    BY FS_Singleton
  <2>2. IsFiniteSet({"RESERVATION"} \cup {"RESERVATION_RELEASE"})
    BY <2>1, FS_AddElement
  <2>3. IsFiniteSet(({"RESERVATION"} \cup {"RESERVATION_RELEASE"}) \cup {"SALE_OUT"})
    BY <2>2, FS_AddElement
  <2>4. IsFiniteSet((({"RESERVATION"} \cup {"RESERVATION_RELEASE"}) \cup {"SALE_OUT"})
                     \cup {"RETURN_FROM_CUSTOMER"})
    BY <2>3, FS_AddElement
  <2>5. IsFiniteSet(((({"RESERVATION"} \cup {"RESERVATION_RELEASE"}) \cup {"SALE_OUT"})
                     \cup {"RETURN_FROM_CUSTOMER"}) \cup {"ORDER_REVERSAL"})
    BY <2>4, FS_AddElement
  <2>6. D \in SUBSET (((({"RESERVATION"} \cup {"RESERVATION_RELEASE"}) \cup {"SALE_OUT"})
                     \cup {"RETURN_FROM_CUSTOMER"}) \cup {"ORDER_REVERSAL"})
    BY DEF OrderTypes
  <2> QED BY <2>5, <2>6, FS_Subset
<1> DEFINE rows == OrderRows(o, D, n)
           at == [type \in D |-> Row(Sold, type, n[type], o)]
<1>3. IsFiniteSet(rows)
  <2>1. at \in Surjection(D, rows)
    BY DEF OrderRows, Surjection
  <2> HIDE DEF at, rows
  <2> QED BY <1>2, <2>1, FS_Surjection
<1>4. \A r \in rows : r.of = o /\ r.slot = Sold /\ r.type \in D /\ r.qty \in Int
  BY <1>1 DEF OrderRows
<1>5. ASSUME NEW type
      PROVE  Chosen(rows, type, o) = IF type \in D THEN {Row(Sold, type, n[type], o)} ELSE {}
  <2>1. \A r \in rows : r.type = type => type \in D /\ r = Row(Sold, type, n[type], o)
    BY <1>1 DEF OrderRows
  <2>2. type \in D => Row(Sold, type, n[type], o) \in rows
    BY DEF OrderRows
  <2> HIDE DEF rows
  <2> QED BY <1>1, <2>1, <2>2 DEF Chosen
<1> QED BY <1>3, <1>4, <1>5 DEF Sized

LEMMA OrderMoved ==
  ASSUME StockTyped, NEW o, NEW D \in SUBSET OrderTypes, NEW n \in [OrderTypes -> Int],
         Post(OrderRows(o, D, n)), NEW type \in OrderTypes
  PROVE  /\ Rows(type, o)' = Rows(type, o) \cup (IF type \in D THEN {Row(Sold, type, n[type], o)}
                                                 ELSE {})
         /\ Has(type, o)' <=> Has(type, o) \/ type \in D
         /\ Moved(type, o)' = Moved(type, o) + (IF type \in D THEN n[type] ELSE 0)
         /\ Moved(type, o) \in Int
<1> DEFINE rows == OrderRows(o, D, n)
           r == Row(Sold, type, n[type], o)
<1>1. Sized(rows) /\ Chosen(rows, type, o) = IF type \in D THEN {r} ELSE {}
  BY OrderPosts
<1>2. r.qty = n[type] /\ n[type] \in Int
  BY DEF Row
<1> HIDE DEF r, rows
<1>3. Rows(type, o)' = Rows(type, o) \cup Chosen(rows, type, o)
  BY LedgerGrows DEF rows
<1>4. Moved(type, o)' = Moved(type, o) + Quantity(Chosen(rows, type, o))
  BY <1>1, PostMoves DEF rows
<1>5. Quantity(Chosen(rows, type, o)) = IF type \in D THEN n[type] ELSE 0
  BY <1>1, <1>2, QuantityOfOne, QuantityOfNone
<1>6. Has(type, o)' <=> Has(type, o) \/ type \in D
  BY <1>1, <1>3 DEF Has
<1> QED BY <1>1, <1>3, <1>4, <1>5, <1>6, MovedInt DEF r

(* The one row that is held is all that was reserved.                      *)
LEMMA HeldMoved ==
  ASSUME StockTyped, NEW o, NEW q \in Int, Rows("RESERVATION", o) = {HeldRow(o, q)},
         moves[HeldRow(o, q)] = 1
  PROVE  Moved("RESERVATION", o) = q
<1> DEFINE f == [r \in BagToSet(moves) |-> moves[r] * r.qty]
           x == HeldRow(o, q)
<1>1. x \in BagToSet(moves) /\ x.qty = q
  BY DEF Rows, Of, HeldRow, Row
<1>2. f[x] = q
  BY <1>1
<1> HIDE DEF f, x
<1>3. SumFunctionOnSet(f, {x}) = q
  BY <1>2, SumOne
<1> QED BY <1>3 DEF Moved, f, x
(* An order that a call posts no row of, nor changes, keeps its account.   *)
LEMMA OrderApart ==
  ASSUME StockTyped, NEW rows, Sized(rows), Post(rows), NEW o, OrderRight(o),
         order'[o] = order[o], \A type \in OrderTypes : Chosen(rows, type, o) = {}
  PROVE  OrderRight(o)' /\ Claimed(o)' = Claimed(o)
<1>1. ASSUME NEW type \in OrderTypes
      PROVE  /\ Rows(type, o)' = Rows(type, o) /\ (Has(type, o)' <=> Has(type, o))
             /\ Moved(type, o)' = Moved(type, o)
  <2>1. Rows(type, o)' = Rows(type, o) \cup Chosen(rows, type, o)
    BY LedgerGrows
  <2>2. Moved(type, o)' = Moved(type, o) + Quantity(Chosen(rows, type, o))
    BY PostMoves
  <2>3. Chosen(rows, type, o) = {}
    OBVIOUS
  <2> QED BY <2>1, <2>2, <2>3, QuantityOfNone, MovedInt DEF Has
<1>2. HeldOnce(o)'
  <2>1. CASE Rows("RESERVATION", o) = {}
    BY <1>1, <2>1 DEF HeldOnce, OrderTypes
  <2>2. ASSUME NEW q \in Int, Rows("RESERVATION", o) = {HeldRow(o, q)}, moves[HeldRow(o, q)] = 1
        PROVE  HeldOnce(o)'
    <3> DEFINE x == HeldRow(o, q)
    <3>1. Rows("RESERVATION", o)' = {x}
      BY <1>1, <2>2 DEF OrderTypes
    <3>2. x \in BagToSet(moves) /\ x.type = "RESERVATION" /\ x.of = o
      BY <2>2 DEF Rows, Of
    <3>3. x \notin rows
      BY <3>2 DEF Chosen, OrderTypes
    <3>4. x \in BagToSet(moves)'
      BY <3>2, LedgerGrows
    <3>5. moves'[x] = Copies(x) + (IF x \in rows THEN 1 ELSE 0)
      BY <3>4, LedgerGrows
    <3>6. moves'[x] = 1
      BY <2>2, <3>2, <3>3, <3>5 DEF Copies
    <3> QED BY <3>1, <3>6 DEF HeldOnce, HeldRow
  <2> QED BY <2>1, <2>2 DEF OrderRight, HeldOnce
<1>3. Claimed(o)' = Claimed(o)
  BY <1>1 DEF Claimed, OrderTypes
<1>4. /\ \A type \in OrderTypes : Has(type, o)' <=> Has(type, o)
      /\ Moved("SALE_OUT", o)' = Moved("SALE_OUT", o)
      /\ Moved("RETURN_FROM_CUSTOMER", o)' = Moved("RETURN_FROM_CUSTOMER", o)
      /\ Moved("ORDER_REVERSAL", o)' = Moved("ORDER_REVERSAL", o)
  BY <1>1 DEF OrderTypes
<1>5. {"RESERVATION", "RESERVATION_RELEASE", "SALE_OUT", "RETURN_FROM_CUSTOMER", "ORDER_REVERSAL"}
        \subseteq OrderTypes
  BY DEF OrderTypes
<1>6. OrderRight(o)'
  <2> HIDE DEF OrderTypes
  <2> QED BY <1>2, <1>3, <1>4, <1>5 DEF OrderRight
<1> QED BY <1>3, <1>6

(* What the slot holds stays what is claimed, when an order claims or      *)
(* gives up.                                                               *)
LEMMA OrderClaims ==
  ASSUME StockTyped, NEW o \in Orders, NEW D \in SUBSET OrderTypes, NEW n \in [OrderTypes -> Int],
         Post(OrderRows(o, D, n)), Balanced, UNCHANGED po,
         \A x \in Orders \ {o} : Claimed(x)' = Claimed(x)
  PROVE  Balanced'
<1> DEFINE rows == OrderRows(o, D, n)
           R == "RESERVATION"
           L == "RESERVATION_RELEASE"
           f == [x \in Orders |-> Claimed(x)]
           g == [x \in Orders |-> Claimed(x)']
<1>1. /\ Sized(rows) /\ \A r \in rows : r.of = o /\ r.slot = Sold
      /\ \A type : Chosen(rows, type, o) = Of(rows, type)
  BY OrderPosts DEF Chosen, Of
<1>2. reserved'[Sold] = reserved[Sold] + (Quantity(Of(rows, R)) - Quantity(Of(rows, L)))
  <2> HIDE DEF rows
  <2> QED BY <1>1, PostHolds, StockRoomAssumption DEF rows
<1>3. /\ Moved(R, o)' = Moved(R, o) + Quantity(Of(rows, R))
      /\ Moved(L, o)' = Moved(L, o) + Quantity(Of(rows, L))
  <2> HIDE DEF rows
  <2> QED BY <1>1, PostMoves DEF rows
<1>4. Quantity(Of(rows, R)) \in Int /\ Quantity(Of(rows, L)) \in Int
  <2>1. Sized(Of(rows, R)) /\ Sized(Of(rows, L))
    <3> HIDE DEF rows
    <3> QED BY <1>1, Subrows DEF Of
  <2> QED BY <2>1, QuantityInt
<1>5. Claimed(o)' = Claimed(o) + (Quantity(Of(rows, R)) - Quantity(Of(rows, L)))
  <2> HIDE DEF rows
  <2> QED BY <1>3, <1>4, MovedInt DEF Claimed
<1>6. Claims' = Claims - Claimed(o) + Claimed(o)'
  <2>1. IsFiniteSet(Orders) /\ \A x \in Orders : f[x] \in Int
    BY StockRoomAssumption, ClaimedInt
  <2>2. g[o] \in Int
    <3> HIDE DEF rows
    <3> QED BY <1>4, <1>5, ClaimedInt
  <2>3. \A x \in Orders \ {o} : g[x] = f[x]
    OBVIOUS
  <2>4. f[o] = Claimed(o) /\ g[o] = Claimed(o)'
    OBVIOUS
  <2>5. Claims = SumFunctionOnSet(f, Orders) /\ Claims' = SumFunctionOnSet(g, Orders)
    BY DEF Claims
  <2> HIDE DEF f, g
  <2> QED BY <2>1, <2>2, <2>3, <2>4, <2>5, SumChanges
<1>7. Allocated' = Allocated
  BY DEF Allocated
<1>8. reserved[Sold] \in Int /\ Claims \in Int /\ Claimed(o) \in Int
  BY ClaimsInt, ClaimedInt, StockRoomAssumption DEF StockTyped
<1>9. reserved[Sold] = Claims + Planned * Cardinality(Allocated)
  BY DEF Balanced
<1> DEFINE z == Planned * Cardinality(Allocated)
           u == Quantity(Of(rows, R)) - Quantity(Of(rows, L))
<1>10. u \in Int /\ reserved'[Sold] = reserved[Sold] + u /\ Claims' = Claims + u
  <2> HIDE DEF rows
  <2> QED BY <1>2, <1>4, <1>5, <1>6, <1>8
<1>11. Balanced' <=> reserved'[Sold] = Claims' + z
  BY <1>7 DEF Balanced
<1>12. z = reserved[Sold] - Claims
  <2>1. z \in Int
    <3>1. IsFiniteSet(Allocated)
      BY StockRoomAssumption, FS_Subset DEF Allocated
    <3>2. Cardinality(Allocated) \in Int /\ Planned \in Int
      BY <3>1, StockRoomAssumption, FS_CardinalityType
    <3> QED BY <3>2
  <2> HIDE DEF z
  <2> QED BY <1>8, <1>9, <2>1 DEF z
<1> HIDE DEF z, u
<1> QED BY <1>8, <1>10, <1>11, <1>12

LEMMA OrderStepKeeps ==
  ASSUME RoomInv, NEW o \in Orders, NEW D \in SUBSET OrderTypes, NEW n \in [OrderTypes -> Int],
         Post(OrderRows(o, D, n)), RoomTypeOK', OrderRight(o)', UNCHANGED <<po, count>>,
         \A x \in Orders \ {o} : order'[x] = order[x]
  PROVE  RoomInv'
<1> DEFINE rows == OrderRows(o, D, n)
<1>1. Sized(rows) /\ \A r \in rows : r.of = o
  <2>1. StockTyped
    BY DEF RoomInv
  <2> QED BY <2>1, OrderPosts
<1>2. StockTyped'
  BY <1>1, StockStaysTyped DEF RoomInv
<1>3. ASSUME NEW x \in Orders \ {o} PROVE OrderRight(x)' /\ Claimed(x)' = Claimed(x)
  <2>1. \A type : Chosen(rows, type, x) = {}
    BY <1>1, <1>3 DEF Chosen
  <2>2. order'[x] = order[x] /\ OrderRight(x)
    BY <1>3 DEF RoomInv
  <2> HIDE DEF rows
  <2> QED BY <1>1, <2>1, <2>2, OrderApart DEF rows, RoomInv
<1>4. Balanced'
  BY <1>3, OrderClaims DEF RoomInv
<1>5. \A p \in Productions : MakingRight(p)'
  BY DEF RoomInv, MakingRight
<1> QED BY <1>2, <1>3, <1>4, <1>5 DEF RoomInv
(* A call of an order, as rows of it: the step it takes, whatever moved.   *)
PostsForOrder(o) ==
  \E D \in SUBSET OrderTypes, n \in [OrderTypes -> Int] : Post(OrderRows(o, D, n))

(* The row a release posts for what an order holds.                        *)
LEMMA Released ==
  ASSUME NEW o, NEW q
  PROVE  [HeldRow(o, q) EXCEPT !.type = "RESERVATION_RELEASE"]
           = Row(Sold, "RESERVATION_RELEASE", q, o)
BY DEF HeldRow, Row

LEMMA CreatingOrder ==
  ASSUME RoomInv, NEW o \in Orders, NEW new \in Live, NEW qty \in 1..MostItems,
         OrderCreated(o, new, qty)
  PROVE  RoomInv' /\ PostsForOrder(o)
<1> USE StockRoomAssumption
<1> DEFINE due == DeductionDue("none", new)
           D == (IF ReserveOnCreate THEN {"RESERVATION"} ELSE {})
                 \cup (IF due THEN {"SALE_OUT"} ELSE {})
                 \cup (IF due /\ ReserveOnCreate THEN {"RESERVATION_RELEASE"} ELSE {})
           n == [type \in OrderTypes |-> qty]
           made == ReserveRows(o, qty)
           rows == made \cup IF due THEN ReleaseRows(o, made) \cup DeductRows(o, qty) ELSE {}
<1>1. /\ order[o].st = "none" /\ Post(rows)
      /\ order' = [order EXCEPT ![o] = [st |-> new, qty |-> qty]]
      /\ UNCHANGED <<po, count>>
  BY DEF OrderCreated
<1>2. \A type \in OrderTypes : ~Has(type, o)
  BY <1>1 DEF RoomInv, OrderRight
<1>3. ~Has("RESERVATION_RELEASE", o) /\ ~Has("SALE_OUT", o)
  BY <1>2 DEF OrderTypes
<1>4. D \in SUBSET OrderTypes /\ n \in [OrderTypes -> Int]
  BY DEF OrderTypes
<1>5. rows = OrderRows(o, D, n)
  <2> HIDE DEF due
  <2>1. \A type \in D : n[type] = qty
    BY <1>4
  <2>2. made = IF ReserveOnCreate THEN {HeldRow(o, qty)} ELSE {}
    BY DEF ReserveRows, HeldRow
  <2>3. ReleaseRows(o, made) = IF ReserveOnCreate THEN {Row(Sold, "RESERVATION_RELEASE", qty, o)} ELSE {}
    <3> HIDE DEF made
    <3>1. CASE ReserveOnCreate
      <4>1. {[r EXCEPT !.type = "RESERVATION_RELEASE"] : r \in made}
              = {[HeldRow(o, qty) EXCEPT !.type = "RESERVATION_RELEASE"]}
        BY <2>2, <3>1
      <4> QED BY <1>3, <3>1, <4>1, Released DEF ReleaseRows
    <3>2. CASE ~ReserveOnCreate
      BY <3>2 DEF ReleaseRows
    <3> QED BY <3>1, <3>2
  <2>4. DeductRows(o, qty) = {Row(Sold, "SALE_OUT", qty, o)}
    BY <1>3 DEF DeductRows
  <2>5. OrderRows(o, D, n) = {Row(Sold, type, qty, o) : type \in D}
    <3> HIDE DEF D, n
    <3> QED BY <2>1 DEF OrderRows
  <2>6. \A type : type \in D <=> \/ type = "RESERVATION" /\ ReserveOnCreate
                                 \/ type = "SALE_OUT" /\ due
                                 \/ type = "RESERVATION_RELEASE" /\ due /\ ReserveOnCreate
    OBVIOUS
  <2> HIDE DEF made, n, D
  <2>7. ASSUME NEW r
        PROVE  r \in rows <=> \E type \in D : r = Row(Sold, type, qty, o)
    BY <2>2, <2>3, <2>4, <2>6 DEF HeldRow
  <2> HIDE DEF rows
  <2> QED BY <2>5, <2>7
<1>6. \A type : type \in D <=> \/ type = "RESERVATION" /\ ReserveOnCreate
                               \/ type = "SALE_OUT" /\ due
                               \/ type = "RESERVATION_RELEASE" /\ due /\ ReserveOnCreate
  OBVIOUS
<1>7. \A type \in OrderTypes : n[type] = qty
  OBVIOUS
<1> HIDE DEF rows, D, n, due
<1>8. Post(OrderRows(o, D, n))
  BY <1>1, <1>5
<1>9. ASSUME NEW type \in OrderTypes
      PROVE  /\ Rows(type, o)' = IF type \in D THEN {Row(Sold, type, qty, o)} ELSE {}
             /\ Has(type, o)' <=> type \in D
             /\ Moved(type, o)' = IF type \in D THEN qty ELSE 0
  <2>1. Rows(type, o) = {} /\ ~Has(type, o) /\ Moved(type, o) = 0
    BY <1>2, NoneMoved DEF Has
  <2>2. /\ Rows(type, o)' = Rows(type, o) \cup (IF type \in D THEN {Row(Sold, type, n[type], o)} ELSE {})
        /\ Has(type, o)' <=> Has(type, o) \/ type \in D
        /\ Moved(type, o)' = Moved(type, o) + (IF type \in D THEN n[type] ELSE 0)
    BY <1>4, <1>8, OrderMoved DEF RoomInv
  <2> QED BY <1>7, <2>1, <2>2
<1>10. RoomTypeOK' /\ order'[o] = [st |-> new, qty |-> qty]
       /\ \A x \in Orders \ {o} : order'[x] = order[x]
  BY <1>1 DEF RoomInv, RoomTypeOK, Live
<1>11. HeldOnce(o)'
  <2>1. CASE ReserveOnCreate
    <3>1. Rows("RESERVATION", o)' = {HeldRow(o, qty)} /\ HeldRow(o, qty)' = HeldRow(o, qty)
      BY <1>6, <1>9, <2>1 DEF OrderTypes, HeldRow, Row
    <3> DEFINE x == HeldRow(o, qty)
    <3>2. x \in BagToSet(moves)' /\ x.type = "RESERVATION" /\ x.of = o
      BY <3>1 DEF Rows, Of
    <3>3. x \notin BagToSet(moves)
      BY <1>2, <3>2 DEF Has, Rows, Of, OrderTypes
    <3>4. moves'[x] = Copies(x) + (IF x \in OrderRows(o, D, n) THEN 1 ELSE 0)
      BY <1>8, <3>2, LedgerGrows
    <3>5. x \in OrderRows(o, D, n)
      <4>1. BagToSet(moves)' = BagToSet(moves) \cup OrderRows(o, D, n)
        BY <1>8, LedgerGrows
      <4> QED BY <3>2, <3>3, <4>1
    <3>6. moves'[x] = 1
      BY <3>3, <3>4, <3>5 DEF Copies
    <3>7. qty \in Int
      OBVIOUS
    <3> QED BY <3>1, <3>6, <3>7 DEF HeldOnce
  <2>2. CASE ~ReserveOnCreate
    BY <1>6, <1>9, <2>2 DEF OrderTypes, HeldOnce
  <2> QED BY <2>1, <2>2
<1>12. OrderRight(o)'
  <2>1. /\ Has("RESERVATION", o)' <=> ReserveOnCreate
        /\ Has("RESERVATION_RELEASE", o)' <=> due /\ ReserveOnCreate
        /\ Has("SALE_OUT", o)' <=> due
        /\ ~Has("RETURN_FROM_CUSTOMER", o)' /\ ~Has("ORDER_REVERSAL", o)'
    BY <1>6, <1>9 DEF OrderTypes
  <2>2. /\ Moved("RESERVATION", o)' = IF ReserveOnCreate THEN qty ELSE 0
        /\ Moved("RESERVATION_RELEASE", o)' = IF due /\ ReserveOnCreate THEN qty ELSE 0
        /\ Moved("SALE_OUT", o)' = IF due THEN qty ELSE 0
        /\ Moved("RETURN_FROM_CUSTOMER", o)' = 0
    BY <1>6, <1>9 DEF OrderTypes
  <2>3. order'[o].st = new /\ order'[o].qty = qty /\ new \notin {"none", "CANCELED"}
    BY <1>10 DEF Live
  <2>4. Has("RESERVATION_RELEASE", o)' => Claimed(o)' = 0
    BY <2>1, <2>2 DEF Claimed
  <2>5. Has("SALE_OUT", o)' => Moved("SALE_OUT", o)' - Moved("RETURN_FROM_CUSTOMER", o)' = qty
    BY <2>1, <2>2
  <2> QED BY <1>11, <2>1, <2>3, <2>4, <2>5 DEF OrderRight
<1> QED BY <1>1, <1>4, <1>8, <1>10, <1>12, OrderStepKeeps DEF PostsForOrder
(* What an order gives up of its claim: all of it, once.                   *)
LEMMA Releases ==
  ASSUME StockTyped, NEW o, OrderRight(o)
  PROVE  \E q \in Int :
           /\ Has("RESERVATION", o) => Moved("RESERVATION", o) = q
           /\ ReleaseRows(o, Rows("RESERVATION", o)) =
                IF ReserveOnCreate /\ ~Has("RESERVATION_RELEASE", o) /\ Has("RESERVATION", o)
                THEN {Row(Sold, "RESERVATION_RELEASE", q, o)} ELSE {}
<1>1. CASE Rows("RESERVATION", o) = {}
  <2>1. {[r EXCEPT !.type = "RESERVATION_RELEASE"] : r \in {}} = {}
    OBVIOUS
  <2>2. ReleaseRows(o, {}) = {}
    BY <2>1 DEF ReleaseRows
  <2>3. ~Has("RESERVATION", o)
    BY <1>1 DEF Has
  <2>4. 0 \in Int
    OBVIOUS
  <2> QED BY <1>1, <2>2, <2>3, <2>4
<1>2. ASSUME NEW q \in Int, Rows("RESERVATION", o) = {HeldRow(o, q)}, moves[HeldRow(o, q)] = 1
      PROVE  /\ Moved("RESERVATION", o) = q /\ Has("RESERVATION", o)
             /\ ReleaseRows(o, Rows("RESERVATION", o)) =
                  IF ReserveOnCreate /\ ~Has("RESERVATION_RELEASE", o)
                  THEN {Row(Sold, "RESERVATION_RELEASE", q, o)} ELSE {}
  <2>1. Moved("RESERVATION", o) = q
    BY <1>2, HeldMoved
  <2>2. {[r EXCEPT !.type = "RESERVATION_RELEASE"] : r \in {HeldRow(o, q)}}
          = {[HeldRow(o, q) EXCEPT !.type = "RESERVATION_RELEASE"]}
    OBVIOUS
  <2>3. ReleaseRows(o, {HeldRow(o, q)}) =
          IF ReserveOnCreate /\ ~Has("RESERVATION_RELEASE", o)
          THEN {Row(Sold, "RESERVATION_RELEASE", q, o)} ELSE {}
    BY <2>2, Released DEF ReleaseRows
  <2>4. Has("RESERVATION", o)
    BY <1>2 DEF Has
  <2> QED BY <1>2, <2>1, <2>3, <2>4
<1> QED BY <1>1, <1>2 DEF OrderRight, HeldOnce

(* After rows that reserve nothing more, and release all or nothing.       *)
LEMMA ClaimAfter ==
  ASSUME StockTyped, NEW o, OrderRight(o),
         NEW D \in SUBSET OrderTypes, NEW n \in [OrderTypes -> Int], Post(OrderRows(o, D, n)),
         "RESERVATION" \notin D,
         "RESERVATION_RELEASE" \in D => /\ ReserveOnCreate /\ ~Has("RESERVATION_RELEASE", o)
                                        /\ n["RESERVATION_RELEASE"] = Moved("RESERVATION", o)
  PROVE  /\ HeldOnce(o)'
         /\ Has("RESERVATION_RELEASE", o)' => Claimed(o)' = 0
         /\ "RESERVATION_RELEASE" \notin D => Claimed(o)' = Claimed(o)
         /\ ~ReserveOnCreate => ~Has("RESERVATION", o)' /\ ~Has("RESERVATION_RELEASE", o)'
<1> DEFINE R == "RESERVATION"
           L == "RESERVATION_RELEASE"
           rows == OrderRows(o, D, n)
<1>1. R \in OrderTypes /\ L \in OrderTypes
  BY DEF OrderTypes
<1>2. /\ Rows(R, o)' = Rows(R, o) /\ (Has(R, o)' <=> Has(R, o)) /\ Moved(R, o)' = Moved(R, o)
      /\ Has(L, o)' <=> Has(L, o) \/ L \in D
      /\ Moved(L, o)' = Moved(L, o) + (IF L \in D THEN n[L] ELSE 0)
      /\ Moved(R, o) \in Int /\ Moved(L, o) \in Int
  <2>1. /\ Rows(R, o)' = Rows(R, o) \cup (IF R \in D THEN {Row(Sold, R, n[R], o)} ELSE {})
        /\ Has(R, o)' <=> Has(R, o) \/ R \in D
        /\ Moved(R, o)' = Moved(R, o) + (IF R \in D THEN n[R] ELSE 0)
        /\ Moved(R, o) \in Int
    BY <1>1, OrderMoved
  <2>2. /\ Has(L, o)' <=> Has(L, o) \/ L \in D
        /\ Moved(L, o)' = Moved(L, o) + (IF L \in D THEN n[L] ELSE 0)
        /\ Moved(L, o) \in Int
    BY <1>1, OrderMoved
  <2>3. Rows(R, o)' = Rows(R, o) /\ (Has(R, o)' <=> Has(R, o))
    BY <2>1
  <2>4. Moved(R, o)' = Moved(R, o)
    BY <2>1
  <2> QED BY Zenon, <2>1, <2>2, <2>3, <2>4
<1>3. HeldOnce(o)'
  <2>1. CASE Rows(R, o) = {}
    BY <1>2, <2>1 DEF HeldOnce
  <2>2. ASSUME NEW q \in Int, Rows(R, o) = {HeldRow(o, q)}, moves[HeldRow(o, q)] = 1
        PROVE  HeldOnce(o)'
    <3> DEFINE x == HeldRow(o, q)
    <3>1. Rows(R, o)' = {x} /\ x \in BagToSet(moves) /\ x.type = R
      BY <1>2, <2>2 DEF Rows, Of
    <3>2. x \notin rows
      <4>1. \A r \in rows : r.type \in D
        BY DEF OrderRows, Row
      <4> QED BY <3>1, <4>1
    <3>3. x \in BagToSet(moves)'
      BY <3>1, LedgerGrows
    <3>4. moves'[x] = Copies(x) + (IF x \in rows THEN 1 ELSE 0)
      BY <3>3, LedgerGrows
    <3>5. moves'[x] = 1
      <4> HIDE DEF rows
      <4> QED BY <2>2, <3>1, <3>2, <3>4 DEF Copies
    <3> QED BY <3>1, <3>5 DEF HeldOnce, HeldRow
  <2>3. HeldOnce(o)
    BY DEF OrderRight
  <2> QED BY <2>1, <2>2, <2>3 DEF HeldOnce
<1>4. Has(L, o)' => Claimed(o)' = 0
  <2>1. CASE L \in D
    <3>1. Moved(L, o) = 0
      BY <2>1, NoneMoved DEF Has
    <3> QED BY <1>2, <2>1, <3>1 DEF Claimed
  <2>2. CASE L \notin D
    BY <1>2, <2>2 DEF Claimed, OrderRight
  <2> QED BY <2>1, <2>2
<1>5. L \notin D => Claimed(o)' = Claimed(o)
  BY <1>2 DEF Claimed
<1>6. ~ReserveOnCreate => ~Has(R, o)' /\ ~Has(L, o)'
  BY <1>2 DEF OrderRight
<1> QED BY <1>3, <1>4, <1>5, <1>6

LEMMA MovingOrder ==
  ASSUME RoomInv, NEW o \in Orders, NEW new \in Live, OrderMoves(o, new)
  PROVE  RoomInv' /\ PostsForOrder(o)
<1> USE StockRoomAssumption
<1> DEFINE R == "RESERVATION"
           L == "RESERVATION_RELEASE"
           due == DeductionDue(order[o].st, new)
           frees == due /\ ReserveOnCreate /\ ~Has(L, o) /\ Has(R, o)
           sells == due /\ ~Has("SALE_OUT", o)
           rows == IF due THEN ReleaseRows(o, Rows(R, o)) \cup DeductRows(o, order[o].qty) ELSE {}
<1>1. /\ order[o].st \in {"OPEN", "PREPARING"} /\ Post(rows)
      /\ order' = [order EXCEPT ![o] = [@ EXCEPT !.st = new]]
      /\ UNCHANGED <<po, count>>
  BY DEF OrderMoves
<1>2. StockTyped /\ OrderRight(o) /\ order[o].qty \in Int
  BY DEF RoomInv, RoomTypeOK
<1>3. PICK q \in Int :
        /\ Has(R, o) => Moved(R, o) = q
        /\ ReleaseRows(o, Rows(R, o)) = IF ReserveOnCreate /\ ~Has(L, o) /\ Has(R, o)
                                        THEN {Row(Sold, L, q, o)} ELSE {}
  BY <1>2, Releases
<1>4. PICK D \in SUBSET OrderTypes : \A type : type \in D <=> \/ type = L /\ frees
                                                              \/ type = "SALE_OUT" /\ sells
  <2> DEFINE E == (IF frees THEN {L} ELSE {}) \cup (IF sells THEN {"SALE_OUT"} ELSE {})
  <2>1. E \in SUBSET OrderTypes
    BY DEF OrderTypes
  <2>2. \A type : type \in E <=> (type = L /\ frees) \/ (type = "SALE_OUT" /\ sells)
    OBVIOUS
  <2> HIDE DEF E, frees, sells
  <2> QED BY <2>1, <2>2
<1>5. PICK n \in [OrderTypes -> Int] : n[L] = q /\ n["SALE_OUT"] = order[o].qty
  <2> DEFINE m == [type \in OrderTypes |-> IF type = L THEN q ELSE order[o].qty]
  <2>1. m \in [OrderTypes -> Int] /\ m[L] = q /\ m["SALE_OUT"] = order[o].qty
    BY <1>2 DEF OrderTypes
  <2> HIDE DEF m
  <2> QED BY <2>1
<1>6. rows = OrderRows(o, D, n)
  <2>1. DeductRows(o, order[o].qty) =
          IF Has("SALE_OUT", o) THEN {} ELSE {Row(Sold, "SALE_OUT", n["SALE_OUT"], o)}
    BY <1>5 DEF DeductRows
  <2>2. ASSUME NEW r
        PROVE  r \in rows <=> \E type \in D : r = Row(Sold, type, n[type], o)
    <3>1. r \in rows <=> \/ frees /\ r = Row(Sold, L, n[L], o)
                         \/ sells /\ r = Row(Sold, "SALE_OUT", n["SALE_OUT"], o)
      <4> HIDE DEF due
      <4> QED BY <1>3, <1>5, <2>1
    <3> HIDE DEF rows, frees, sells
    <3> QED BY <1>4, <3>1
  <2> HIDE DEF rows
  <2> QED BY <2>2 DEF OrderRows
<1>7. Post(OrderRows(o, D, n))
  BY <1>1, <1>6
<1> HIDE DEF rows, frees, sells, due
<1>8. /\ R \notin D /\ "RETURN_FROM_CUSTOMER" \notin D /\ "ORDER_REVERSAL" \notin D
      /\ L \in D => /\ ReserveOnCreate /\ ~Has(L, o) /\ n[L] = Moved(R, o)
      /\ "SALE_OUT" \in D => ~Has("SALE_OUT", o)
  BY <1>3, <1>4, <1>5 DEF frees, sells
<1>9. /\ HeldOnce(o)'
      /\ Has(L, o)' => Claimed(o)' = 0
      /\ ~ReserveOnCreate => ~Has(R, o)' /\ ~Has(L, o)'
  BY <1>2, <1>7, <1>8, ClaimAfter
<1>10. RoomTypeOK' /\ order'[o].st = new /\ order'[o].qty = order[o].qty
       /\ \A x \in Orders \ {o} : order'[x] = order[x]
  BY <1>1 DEF RoomInv, RoomTypeOK, Live
<1>11. OrderRight(o)'
  <2>1. {"SALE_OUT", "RETURN_FROM_CUSTOMER", "ORDER_REVERSAL"} \subseteq OrderTypes
    BY DEF OrderTypes
  <2>2. /\ Has("SALE_OUT", o)' <=> Has("SALE_OUT", o) \/ "SALE_OUT" \in D
        /\ Moved("SALE_OUT", o)' = Moved("SALE_OUT", o) + (IF "SALE_OUT" \in D THEN n["SALE_OUT"] ELSE 0)
        /\ Moved("SALE_OUT", o) \in Int
    BY <1>2, <1>7, <2>1, OrderMoved
  <2>3. /\ Has("RETURN_FROM_CUSTOMER", o)' <=> Has("RETURN_FROM_CUSTOMER", o)
        /\ Moved("RETURN_FROM_CUSTOMER", o)' = Moved("RETURN_FROM_CUSTOMER", o) + 0
        /\ Moved("RETURN_FROM_CUSTOMER", o) \in Int
    BY <1>2, <1>7, <1>8, <2>1, OrderMoved
  <2>4. Has("ORDER_REVERSAL", o)' <=> Has("ORDER_REVERSAL", o)
    BY <1>2, <1>7, <1>8, <2>1, OrderMoved
  <2>5. order[o].st \in Live /\ new \notin {"none", "CANCELED"}
    BY <1>1 DEF Live
  <2>6. ~Has("ORDER_REVERSAL", o)' /\ (~Has("SALE_OUT", o)' => ~Has("RETURN_FROM_CUSTOMER", o)')
    BY <1>2, <2>2, <2>3, <2>4, <2>5 DEF OrderRight
  <2>7. Has("SALE_OUT", o)' =>
          Moved("SALE_OUT", o)' - Moved("RETURN_FROM_CUSTOMER", o)' = order[o].qty
    <3>1. CASE "SALE_OUT" \in D
      <4>1. ~Has("SALE_OUT", o) /\ ~Has("RETURN_FROM_CUSTOMER", o)
        BY <1>2, <1>8, <2>5, <3>1 DEF OrderRight
      <4>2. Moved("SALE_OUT", o) = 0 /\ Moved("RETURN_FROM_CUSTOMER", o) = 0
        BY <4>1, NoneMoved DEF Has
      <4> QED BY <1>2, <1>5, <2>2, <2>3, <3>1, <4>2
    <3>2. CASE "SALE_OUT" \notin D
      BY <1>2, <2>2, <2>3, <2>5, <3>2 DEF OrderRight
    <3> QED BY <3>1, <3>2
  <2> QED BY <1>9, <1>10, <2>5, <2>6, <2>7 DEF OrderRight
<1> QED BY <1>1, <1>7, <1>10, <1>11, OrderStepKeeps DEF PostsForOrder
LEMMA CancelingOrder ==
  ASSUME RoomInv, NEW o \in Orders, OrderCanceled(o)
  PROVE  RoomInv' /\ PostsForOrder(o)
<1> USE StockRoomAssumption
<1> DEFINE R == "RESERVATION"
           L == "RESERVATION_RELEASE"
           V == "ORDER_REVERSAL"
           frees == ReserveOnCreate /\ ~Has(L, o) /\ Has(R, o)
           gives == Has("SALE_OUT", o) /\ ~Has(V, o)
           rows == ReleaseRows(o, Rows(R, o)) \cup ReverseRows(o)
<1>1. /\ order[o].st \in Live /\ Post(rows)
      /\ order' = [order EXCEPT ![o] = [@ EXCEPT !.st = "CANCELED"]]
      /\ UNCHANGED <<po, count>>
  BY DEF OrderCanceled
<1>2. StockTyped /\ OrderRight(o) /\ Moved("SALE_OUT", o) \in Int
  BY MovedInt DEF RoomInv
<1>3. PICK q \in Int :
        /\ Has(R, o) => Moved(R, o) = q
        /\ ReleaseRows(o, Rows(R, o)) = IF ReserveOnCreate /\ ~Has(L, o) /\ Has(R, o)
                                        THEN {Row(Sold, L, q, o)} ELSE {}
  BY <1>2, Releases
<1>4. PICK D \in SUBSET OrderTypes : \A type : type \in D <=> \/ type = L /\ frees
                                                              \/ type = V /\ gives
  <2> DEFINE E == (IF frees THEN {L} ELSE {}) \cup (IF gives THEN {V} ELSE {})
  <2>1. E \in SUBSET OrderTypes
    BY DEF OrderTypes
  <2>2. \A type : type \in E <=> (type = L /\ frees) \/ (type = V /\ gives)
    OBVIOUS
  <2> HIDE DEF E, frees, gives
  <2> QED BY <2>1, <2>2
<1>5. PICK n \in [OrderTypes -> Int] : n[L] = q /\ n[V] = Moved("SALE_OUT", o)
  <2> DEFINE m == [type \in OrderTypes |-> IF type = L THEN q ELSE Moved("SALE_OUT", o)]
  <2>1. m \in [OrderTypes -> Int] /\ m[L] = q /\ m[V] = Moved("SALE_OUT", o)
    BY <1>2 DEF OrderTypes
  <2> HIDE DEF m
  <2> QED BY <2>1
<1>6. rows = OrderRows(o, D, n)
  <2>1. ReverseRows(o) = IF gives THEN {Row(Sold, V, n[V], o)} ELSE {}
    BY <1>5 DEF ReverseRows
  <2>2. ASSUME NEW r
        PROVE  r \in rows <=> \E type \in D : r = Row(Sold, type, n[type], o)
    <3>1. r \in rows <=> \/ frees /\ r = Row(Sold, L, n[L], o)
                         \/ gives /\ r = Row(Sold, V, n[V], o)
      <4> HIDE DEF gives
      <4> QED BY <1>3, <1>5, <2>1
    <3> HIDE DEF rows, frees, gives
    <3> QED BY <1>4, <3>1
  <2> HIDE DEF rows
  <2> QED BY <2>2 DEF OrderRows
<1>7. Post(OrderRows(o, D, n))
  BY <1>1, <1>6
<1> HIDE DEF rows, frees, gives
<1>8. /\ R \notin D /\ "SALE_OUT" \notin D
      /\ L \in D => /\ ReserveOnCreate /\ ~Has(L, o) /\ n[L] = Moved(R, o)
      /\ L \in D <=> ReserveOnCreate /\ ~Has(L, o) /\ Has(R, o)
      /\ V \in D <=> Has("SALE_OUT", o) /\ ~Has(V, o)
  BY <1>3, <1>4, <1>5 DEF frees, gives
<1>9. /\ HeldOnce(o)'
      /\ Has(L, o)' => Claimed(o)' = 0
      /\ L \notin D => Claimed(o)' = Claimed(o)
      /\ ~ReserveOnCreate => ~Has(R, o)' /\ ~Has(L, o)'
  BY <1>2, <1>7, <1>8, ClaimAfter
<1>10. RoomTypeOK' /\ order'[o].st = "CANCELED" /\ \A x \in Orders \ {o} : order'[x] = order[x]
  BY <1>1 DEF RoomInv, RoomTypeOK, Live
<1>11. L \in OrderTypes /\ V \in OrderTypes /\ "SALE_OUT" \in OrderTypes
  BY DEF OrderTypes
<1>12. Claimed(o)' = 0
  <2>1. CASE L \in D
    BY <1>2, <1>7, <1>9, <1>11, <2>1, OrderMoved
  <2>2. CASE L \notin D /\ Has(L, o)
    BY <1>2, <1>9, <2>2 DEF OrderRight
  <2>3. CASE L \notin D /\ ~Has(L, o)
    <3>1. ~Has(R, o)
      BY <1>2, <1>8, <2>3 DEF OrderRight
    <3>2. Moved(R, o) = 0 /\ Moved(L, o) = 0
      BY <2>3, <3>1, NoneMoved DEF Has
    <3> QED BY <1>9, <2>3, <3>2 DEF Claimed
  <2> QED BY <2>1, <2>2, <2>3
<1>13. Moved(V, o)' = Moved("SALE_OUT", o)'
  <2>1. ~Has(V, o) /\ Moved(V, o) = 0
    BY <1>1, <1>2, NoneMoved DEF OrderRight, Has
  <2>2. Moved("SALE_OUT", o)' = Moved("SALE_OUT", o) + 0
    BY <1>2, <1>7, <1>8, <1>11, OrderMoved
  <2>3. Moved(V, o)' = 0 + (IF V \in D THEN Moved("SALE_OUT", o) ELSE 0)
    <3>1. Moved(V, o)' = Moved(V, o) + (IF V \in D THEN n[V] ELSE 0)
      BY <1>2, <1>7, <1>11, OrderMoved
    <3> QED BY <1>5, <2>1, <3>1
  <2>4. CASE Has("SALE_OUT", o)
    BY <1>2, <1>8, <2>1, <2>2, <2>3, <2>4
  <2>5. CASE ~Has("SALE_OUT", o)
    <3>1. Moved("SALE_OUT", o) = 0
      BY <2>5, NoneMoved DEF Has
    <3> QED BY <1>8, <2>2, <2>3, <2>5, <3>1
  <2> QED BY <2>4, <2>5
<1>14. OrderRight(o)'
  BY <1>9, <1>10, <1>12, <1>13 DEF OrderRight, Live
<1> QED BY <1>1, <1>7, <1>10, <1>14, OrderStepKeeps DEF PostsForOrder

(* A step that only sells or takes back items of a live order.             *)
LEMMA SellingStep ==
  ASSUME RoomInv, NEW o \in Orders, order[o].st \in Live,
         NEW D \in SUBSET {"SALE_OUT", "RETURN_FROM_CUSTOMER"}, NEW n \in [OrderTypes -> Int],
         Post(OrderRows(o, D, n)), UNCHANGED <<po, count>>, RoomTypeOK',
         order'[o].st = order[o].st, \A x \in Orders \ {o} : order'[x] = order[x],
         "RETURN_FROM_CUSTOMER" \in D => Has("SALE_OUT", o),
         Has("SALE_OUT", o)' =>
           Moved("SALE_OUT", o)' - Moved("RETURN_FROM_CUSTOMER", o)' = order'[o].qty
  PROVE  RoomInv' /\ PostsForOrder(o)
<1>1. StockTyped /\ OrderRight(o) /\ D \in SUBSET OrderTypes
  BY DEF RoomInv, OrderTypes
<1>2. /\ "RESERVATION" \notin D /\ "RESERVATION_RELEASE" \notin D /\ "ORDER_REVERSAL" \notin D
      /\ {"SALE_OUT", "RETURN_FROM_CUSTOMER", "ORDER_REVERSAL"} \subseteq OrderTypes
  BY DEF OrderTypes
<1>3. /\ HeldOnce(o)'
      /\ Has("RESERVATION_RELEASE", o)' => Claimed(o)' = 0
      /\ ~ReserveOnCreate => ~Has("RESERVATION", o)' /\ ~Has("RESERVATION_RELEASE", o)'
  BY <1>1, <1>2, ClaimAfter
<1>4. /\ Has("SALE_OUT", o)' <=> Has("SALE_OUT", o) \/ "SALE_OUT" \in D
      /\ Has("RETURN_FROM_CUSTOMER", o)' <=> Has("RETURN_FROM_CUSTOMER", o)
                                               \/ "RETURN_FROM_CUSTOMER" \in D
      /\ Has("ORDER_REVERSAL", o)' <=> Has("ORDER_REVERSAL", o)
  BY <1>1, <1>2, OrderMoved
<1>5. ~Has("SALE_OUT", o)' => ~Has("RETURN_FROM_CUSTOMER", o)'
  BY <1>1, <1>4 DEF OrderRight
<1>6. ~Has("ORDER_REVERSAL", o)'
  BY <1>1, <1>4 DEF OrderRight
<1>7. order'[o].st \notin {"none", "CANCELED"}
  BY DEF Live
<1>8. OrderRight(o)'
  BY <1>3, <1>5, <1>6, <1>7 DEF OrderRight
<1> QED BY <1>1, <1>8, OrderStepKeeps DEF PostsForOrder

LEMMA DeductingByHand ==
  ASSUME RoomInv, NEW o \in Orders, DeductByHand(o)
  PROVE  RoomInv' /\ PostsForOrder(o)
<1> DEFINE S == "SALE_OUT"
           C == "RETURN_FROM_CUSTOMER"
           D == IF Has(S, o) THEN {} ELSE {S}
           n == [type \in OrderTypes |-> order[o].qty]
<1>1. order[o].st \in Live /\ Post(DeductRows(o, order[o].qty)) /\ UNCHANGED <<order, po, count>>
  BY DEF DeductByHand, room
<1>2. StockTyped /\ OrderRight(o) /\ order[o].qty \in Int /\ RoomTypeOK'
  BY <1>1, StockRoomAssumption DEF RoomInv, RoomTypeOK
<1>3. D \in SUBSET OrderTypes /\ n \in [OrderTypes -> Int] /\ n[S] = order[o].qty /\ S \in OrderTypes
      /\ C \in OrderTypes /\ C \notin D /\ D \in SUBSET {S, C}
  BY <1>2 DEF OrderTypes
<1>4. DeductRows(o, order[o].qty) = OrderRows(o, D, n)
  <2> HIDE DEF n
  <2>1. CASE Has(S, o)
    BY <2>1 DEF DeductRows, OrderRows
  <2>2. CASE ~Has(S, o)
    BY <1>3, <2>2 DEF DeductRows, OrderRows
  <2> QED BY <2>1, <2>2
<1>5. S \in D <=> ~Has(S, o)
  OBVIOUS
<1> HIDE DEF D, n
<1>6. Post(OrderRows(o, D, n))
  BY <1>1, <1>4
<1>7. /\ Moved(S, o)' = Moved(S, o) + (IF S \in D THEN order[o].qty ELSE 0)
      /\ Moved(S, o) \in Int
  <2>1. /\ Moved(S, o)' = Moved(S, o) + (IF S \in D THEN n[S] ELSE 0)
        /\ Moved(S, o) \in Int
    BY <1>2, <1>3, <1>6, OrderMoved
  <2> QED BY <1>3, <2>1
<1>8. Moved(C, o)' = Moved(C, o) + 0 /\ Moved(C, o) \in Int
  <2>1. /\ Moved(C, o)' = Moved(C, o) + (IF C \in D THEN n[C] ELSE 0)
        /\ Moved(C, o) \in Int
    BY <1>2, <1>3, <1>6, OrderMoved
  <2> QED BY <1>3, <2>1
<1>9. Moved(S, o)' - Moved(C, o)' = order'[o].qty
  <2>1. CASE Has(S, o)
    BY <1>1, <1>2, <1>5, <1>7, <1>8, <2>1 DEF OrderRight
  <2>2. CASE ~Has(S, o)
    <3>1. ~Has(C, o)
      BY <1>1, <1>2, <2>2 DEF OrderRight
    <3>2. Moved(S, o) = 0 /\ Moved(C, o) = 0
      BY <2>2, <3>1, NoneMoved DEF Has
    <3> QED BY <1>1, <1>2, <1>5, <1>7, <1>8, <2>2, <3>2
  <2> QED BY <2>1, <2>2
<1> QED BY <1>1, <1>2, <1>3, <1>6, <1>9, SellingStep

LEMMA EditingItems ==
  ASSUME RoomInv, NEW o \in Orders, NEW qty \in 1..MostItems, EditItems(o, qty)
  PROVE  RoomInv' /\ PostsForOrder(o)
<1> USE StockRoomAssumption
<1> DEFINE S == "SALE_OUT"
           C == "RETURN_FROM_CUSTOMER"
           more == qty - order[o].qty
           D == IF ~Has(S, o) THEN {} ELSE IF more > 0 THEN {S} ELSE {C}
           n == [type \in OrderTypes |-> IF type = S THEN more ELSE -more]
           rows == IF ~Has(S, o) THEN {}
                   ELSE IF more > 0 THEN {Row(Sold, S, more, o)} ELSE {Row(Sold, C, -more, o)}
<1>1. /\ order[o].st \in Live /\ Post(rows) /\ UNCHANGED <<po, count>>
      /\ order' = [order EXCEPT ![o] = [@ EXCEPT !.qty = qty]]
  BY DEF EditItems
<1>2. StockTyped /\ OrderRight(o) /\ order[o].qty \in Int /\ qty \in Int /\ more \in Int
  BY DEF RoomInv, RoomTypeOK
<1>3. /\ D \in SUBSET OrderTypes /\ n \in [OrderTypes -> Int] /\ n[S] = more /\ n[C] = -more
      /\ S \in OrderTypes /\ C \in OrderTypes /\ D \in SUBSET {S, C}
  BY <1>2 DEF OrderTypes
<1>4. /\ S \in D <=> Has(S, o) /\ more > 0
      /\ C \in D <=> Has(S, o) /\ ~(more > 0)
  OBVIOUS
<1>5. rows = OrderRows(o, D, n)
  <2> HIDE DEF n, more
  <2>1. CASE ~Has(S, o)
    BY <2>1 DEF OrderRows
  <2>2. CASE Has(S, o) /\ more > 0
    BY <1>3, <2>2 DEF OrderRows
  <2>3. CASE Has(S, o) /\ ~(more > 0)
    BY <1>3, <2>3 DEF OrderRows
  <2> QED BY <2>1, <2>2, <2>3
<1>6. more = qty - order[o].qty
  OBVIOUS
<1> HIDE DEF rows, D, n, more
<1>7. Post(OrderRows(o, D, n))
  BY <1>1, <1>5
<1>8. /\ Moved(S, o)' = Moved(S, o) + (IF S \in D THEN more ELSE 0)
      /\ Moved(S, o) \in Int /\ (Has(S, o)' <=> Has(S, o) \/ S \in D)
  BY <1>2, <1>3, <1>7, OrderMoved
<1>9. Moved(C, o)' = Moved(C, o) + (IF C \in D THEN -more ELSE 0) /\ Moved(C, o) \in Int
  BY <1>2, <1>3, <1>7, OrderMoved
<1>10. /\ RoomTypeOK' /\ order'[o].st = order[o].st /\ order'[o].qty = qty
       /\ \A x \in Orders \ {o} : order'[x] = order[x]
  BY <1>1 DEF RoomInv, RoomTypeOK, Live
<1>11. Has(S, o)' => Moved(S, o)' - Moved(C, o)' = order'[o].qty
  <2>1. CASE ~Has(S, o)
    BY <1>4, <1>8, <2>1
  <2>2. CASE Has(S, o)
    <3>1. Moved(S, o) - Moved(C, o) = order[o].qty
      BY <1>1, <1>2, <2>2 DEF OrderRight
    <3>2. CASE more > 0
      BY <1>2, <1>4, <1>6, <1>8, <1>9, <1>10, <2>2, <3>1, <3>2
    <3>3. CASE ~(more > 0)
      BY <1>2, <1>4, <1>6, <1>8, <1>9, <1>10, <2>2, <3>1, <3>3
    <3> QED BY <3>2, <3>3
  <2> QED BY <2>1, <2>2
<1> QED BY <1>1, <1>3, <1>4, <1>7, <1>10, <1>11, SellingStep
-----------------------------------------------------------------------------
(* A call that posts no row of an order leaves the orders right.  The slot *)
(* sets aside what the productions allocate.                               *)
LEMMA RoomApart ==
  ASSUME RoomInv, NEW rows, Sized(rows), Post(rows), UNCHANGED order, RoomTypeOK',
         \A o \in Orders : \A type \in OrderTypes : Chosen(rows, type, o) = {},
         \A p \in Productions : MakingRight(p)',
         reserved'[Sold] = reserved[Sold] + (Planned * Cardinality(Allocated)'
                                              - Planned * Cardinality(Allocated))
  PROVE  RoomInv'
<1>1. StockTyped'
  BY StockStaysTyped DEF RoomInv
<1>2. \A o \in Orders : OrderRight(o)' /\ Claimed(o)' = Claimed(o)
  <2> TAKE o \in Orders
  <2>1. OrderRight(o) /\ order'[o] = order[o] /\ \A type \in OrderTypes : Chosen(rows, type, o) = {}
    BY DEF RoomInv
  <2> QED BY <2>1, OrderApart DEF RoomInv
<1>3. Claims' = Claims
  BY <1>2 DEF Claims
<1>4. Balanced'
  <2> DEFINE a == Planned * Cardinality(Allocated)
             b == Planned * Cardinality(Allocated)'
  <2>1. a \in Int /\ b \in Int
    <3>1. IsFiniteSet(Allocated) /\ IsFiniteSet(Allocated')
      BY StockRoomAssumption, FS_Subset DEF Allocated
    <3>2. Cardinality(Allocated) \in Int /\ Cardinality(Allocated)' \in Int /\ Planned \in Int
      BY <3>1, StockRoomAssumption, FS_CardinalityType
    <3> QED BY <3>2
  <2>2. reserved[Sold] = Claims + a /\ reserved'[Sold] = reserved[Sold] + (b - a)
    BY DEF RoomInv, Balanced
  <2>3. Claims \in Int /\ (Balanced' <=> reserved'[Sold] = Claims' + b)
    BY ClaimsInt DEF RoomInv, Balanced
  <2> HIDE DEF a, b
  <2> QED BY <1>3, <2>1, <2>2, <2>3
<1> QED BY <1>1, <1>2, <1>4 DEF RoomInv

(* The rows of a production: what it sets aside, what it gives up, what it *)
(* turns into what.                                                        *)
MakeRows(p, takes, frees, makes) ==
  (IF takes THEN {Row(Sold, "RESERVATION", Planned, p)} ELSE {})
    \cup (IF frees THEN {Row(Sold, "RESERVATION_RELEASE", Planned, p)} ELSE {})
    \cup (IF makes THEN {Row(Sold, "PRODUCTION_OUT", Planned, p)} ELSE {})
    \cup (IF makes THEN {Row(Made, "PRODUCTION_IN", Yield, p)} ELSE {})

LEMMA MakePosts ==
  ASSUME NEW p, NEW takes \in BOOLEAN, NEW frees \in BOOLEAN, NEW makes \in BOOLEAN
  PROVE  LET rows == MakeRows(p, takes, frees, makes)
         IN /\ Sized(rows)
            /\ \A r \in rows : /\ r.of = p /\ r.type \notin {"TRANSFER_OUT", "TRANSFER_IN"}
                               /\ r.type \in {"RESERVATION", "RESERVATION_RELEASE"} => r.slot = Sold
            /\ Quantity(Of(rows, "RESERVATION")) = IF takes THEN Planned ELSE 0
            /\ Quantity(Of(rows, "RESERVATION_RELEASE")) = IF frees THEN Planned ELSE 0
<1> DEFINE a == Row(Sold, "RESERVATION", Planned, p)
           b == Row(Sold, "RESERVATION_RELEASE", Planned, p)
           c == Row(Sold, "PRODUCTION_OUT", Planned, p)
           d == Row(Made, "PRODUCTION_IN", Yield, p)
           A == IF takes THEN {a} ELSE {}
           B == IF frees THEN {b} ELSE {}
           C == IF makes THEN {c} ELSE {}
           D == IF makes THEN {d} ELSE {}
           rows == MakeRows(p, takes, frees, makes)
<1>1. rows = A \cup B \cup C \cup D
  BY DEF MakeRows
<1>2. /\ a.type = "RESERVATION" /\ a.slot = Sold /\ a.of = p /\ a.qty = Planned
      /\ b.type = "RESERVATION_RELEASE" /\ b.slot = Sold /\ b.of = p /\ b.qty = Planned
      /\ c.type = "PRODUCTION_OUT" /\ c.of = p /\ c.qty = Planned
      /\ d.type = "PRODUCTION_IN" /\ d.of = p /\ d.qty = Yield
  BY DEF Row
<1>3. Planned \in Int /\ Yield \in Int
  BY StockRoomAssumption
<1> HIDE DEF a, b, c, d, rows
<1>4. IsFiniteSet(rows)
  <2>1. IsFiniteSet(A) /\ IsFiniteSet(B) /\ IsFiniteSet(C) /\ IsFiniteSet(D)
    BY FS_EmptySet, FS_Singleton
  <2> HIDE DEF A, B, C, D
  <2>2. IsFiniteSet(A \cup B)
    BY <2>1, FS_Union
  <2>3. IsFiniteSet(A \cup B \cup C)
    BY <2>1, <2>2, FS_Union
  <2> QED BY <1>1, <2>1, <2>3, FS_Union
<1>5. \A r \in rows : \/ r = a /\ takes
                      \/ r = b /\ frees
                      \/ r = c \/ r = d
  BY <1>1
<1>6. (takes => a \in rows) /\ (frees => b \in rows)
  BY <1>1
<1>7. Of(rows, "RESERVATION") = A
  BY <1>2, <1>5, <1>6 DEF Of
<1>8. Of(rows, "RESERVATION_RELEASE") = B
  BY <1>2, <1>5, <1>6 DEF Of
<1>9. Quantity(A) = IF takes THEN Planned ELSE 0
  BY <1>2, <1>3, QuantityOfOne, QuantityOfNone
<1>10. Quantity(B) = IF frees THEN Planned ELSE 0
  BY <1>2, <1>3, QuantityOfOne, QuantityOfNone
<1>11. \A r \in rows : /\ r.of = p /\ r.type \notin {"TRANSFER_OUT", "TRANSFER_IN"} /\ r.qty \in Int
                       /\ r.type \in {"RESERVATION", "RESERVATION_RELEASE"} => r.slot = Sold
  BY <1>2, <1>3, <1>5
<1> QED BY <1>4, <1>7, <1>8, <1>9, <1>10, <1>11 DEF Sized, rows

(* A step that posts, if anything, rows of other types than these.         *)
PostsElse(types) ==
  \/ UNCHANGED stock
  \/ \E rows : Sized(rows) /\ Post(rows) /\ \A r \in rows : r.type \notin types

MovingTypes == {"TRANSFER_OUT", "TRANSFER_IN"}

LEMMA MakingStep ==
  ASSUME RoomInv, NEW p \in Productions,
         NEW takes \in BOOLEAN, NEW frees \in BOOLEAN, NEW makes \in BOOLEAN,
         Post(MakeRows(p, takes, frees, makes)), UNCHANGED order, RoomTypeOK',
         \A q \in Productions \ {p} : po'[q] = po[q], MakingRight(p)',
         takes => po[p].ing # "ALLOCATED" /\ ~frees, frees => po[p].ing = "ALLOCATED",
         po'[p].ing = "ALLOCATED" <=> (takes \/ (po[p].ing = "ALLOCATED" /\ ~frees))
  PROVE  RoomInv' /\ PostsElse(MovingTypes)
<1> DEFINE rows == MakeRows(p, takes, frees, makes)
<1>1. /\ Sized(rows) /\ Post(rows)
      /\ \A r \in rows : /\ r.of = p /\ r.type \notin MovingTypes
                         /\ r.type \in {"RESERVATION", "RESERVATION_RELEASE"} => r.slot = Sold
      /\ Quantity(Of(rows, "RESERVATION")) = IF takes THEN Planned ELSE 0
      /\ Quantity(Of(rows, "RESERVATION_RELEASE")) = IF frees THEN Planned ELSE 0
  BY MakePosts DEF MovingTypes
<1> HIDE DEF rows
<1>2. reserved'[Sold] = reserved[Sold] + ((IF takes THEN Planned ELSE 0) - (IF frees THEN Planned ELSE 0))
  <2>1. Sold \in Slots /\ StockTyped
    BY StockRoomAssumption DEF RoomInv
  <2>2. reserved'[Sold] = reserved[Sold] + (Quantity(Of(rows, "RESERVATION"))
                                             - Quantity(Of(rows, "RESERVATION_RELEASE")))
    BY <1>1, <2>1, PostHolds
  <2> QED BY <1>1, <2>2
<1> DEFINE m == Cardinality(Allocated)
           n == Cardinality(Allocated)'
<1>3. IsFiniteSet(Allocated) /\ IsFiniteSet(Allocated') /\ m \in Int /\ n \in Int
  <2>1. IsFiniteSet(Allocated) /\ IsFiniteSet(Allocated')
    BY StockRoomAssumption, FS_Subset DEF Allocated
  <2> QED BY <2>1, FS_CardinalityType
<1>4. n = m + (IF takes THEN 1 ELSE 0) - (IF frees THEN 1 ELSE 0)
  <2>1. CASE takes
    <3>1. p \notin Allocated /\ Allocated' = Allocated \cup {p}
      BY <2>1 DEF Allocated
    <3> QED BY <1>3, <2>1, <3>1, FS_AddElement
  <2>2. CASE frees
    <3>1. p \in Allocated /\ Allocated' = Allocated \ {p}
      BY <2>2 DEF Allocated
    <3> QED BY <1>3, <2>2, <3>1, FS_RemoveElement
  <2>3. CASE ~takes /\ ~frees
    <3>1. Allocated' = Allocated
      BY <2>3 DEF Allocated
    <3> QED BY <1>3, <2>3, <3>1
  <2> QED BY <2>1, <2>2, <2>3
<1>5. Planned * n - Planned * m = (IF takes THEN Planned ELSE 0) - (IF frees THEN Planned ELSE 0)
  <2>1. Planned \in Int
    BY StockRoomAssumption
  <2> HIDE DEF m, n
  <2>2. CASE takes
    <3>1. n = m + 1 /\ ~frees
      BY <1>3, <1>4, <2>2
    <3>2. Planned * (m + 1) = Planned * m + Planned /\ Planned * m \in Int
      BY <1>3, <2>1
    <3> QED BY <2>1, <2>2, <3>1, <3>2
  <2>3. CASE frees
    <3>1. n = m - 1 /\ ~takes
      BY <1>3, <1>4, <2>3
    <3>2. Planned * (m - 1) = Planned * m - Planned /\ Planned * m \in Int
      BY <1>3, <2>1
    <3> QED BY <2>1, <2>3, <3>1, <3>2
  <2>4. CASE ~takes /\ ~frees
    <3>1. n = m /\ Planned * m \in Int
      BY <1>3, <1>4, <2>1, <2>4
    <3> QED BY <2>4, <3>1
  <2> QED BY <2>2, <2>3, <2>4
<1>6. \A o \in Orders : \A type \in OrderTypes : Chosen(rows, type, o) = {}
  BY <1>1, StockRoomAssumption DEF Chosen
<1>7. \A q \in Productions : MakingRight(q)'
  BY DEF RoomInv, MakingRight
<1>8. RoomInv'
  BY <1>1, <1>2, <1>5, <1>6, <1>7, RoomApart
<1> QED BY <1>1, <1>8 DEF PostsElse
Production ==
  [st : {"none", "DRAFT", "PLANNED", "IN_PROGRESS", "ON_HOLD", "COMPLETED", "CANCELED"},
   started : BOOLEAN, ing : {"PENDING", "ALLOCATED", "CONSUMED"}, asked : 0..2]

LEMMA ProductionSet ==
  ASSUME RoomTypeOK, NEW p \in Productions, NEW made \in Production,
         po' = [po EXCEPT ![p] = made], UNCHANGED <<order, count>>
  PROVE  RoomTypeOK' /\ po'[p] = made /\ \A q \in Productions \ {p} : po'[q] = po[q]
<1>1. po \in [Productions -> Production]
  BY DEF RoomTypeOK, Production
<1>2. po' \in [Productions -> Production]
  <2> HIDE DEF Production
  <2> QED BY <1>1
<1>3. RoomTypeOK'
  BY <1>2 DEF RoomTypeOK, Production
<1> QED BY <1>1, <1>3

LEMMA ProductionAt ==
  ASSUME RoomTypeOK, NEW p \in Productions
  PROVE  /\ po \in [Productions -> Production]
         /\ po[p].st \in {"none", "DRAFT", "PLANNED", "IN_PROGRESS", "ON_HOLD", "COMPLETED",
                          "CANCELED"}
         /\ po[p].started \in BOOLEAN /\ po[p].ing \in {"PENDING", "ALLOCATED", "CONSUMED"}
         /\ po[p].asked \in 0..2 /\ po[p] \in Production
BY DEF RoomTypeOK, Production

LEMMA CreatingProduction ==
  ASSUME RoomInv, NEW p \in Productions, NEW allocate \in BOOLEAN, CreateProduction(p, allocate)
  PROVE  RoomInv' /\ PostsElse(MovingTypes)
<1> DEFINE made == [po[p] EXCEPT !.st = "DRAFT", !.ing = IF allocate THEN "ALLOCATED" ELSE po[p].ing]
<1>1. RoomTypeOK /\ po[p].st = "none" /\ po[p].ing = "PENDING" /\ po[p].asked = 0
  BY DEF CreateProduction, RoomInv, MakingRight
<1>2. (IF allocate THEN Allocate(p) ELSE {}) = MakeRows(p, allocate, FALSE, FALSE)
  BY <1>1 DEF Allocate, MakeRows
<1>3. Post(MakeRows(p, allocate, FALSE, FALSE)) /\ UNCHANGED <<order, count>>
  BY <1>2 DEF CreateProduction
<1>4. /\ made \in Production /\ made.st = "DRAFT" /\ made.asked = 0
      /\ made.ing = IF allocate THEN "ALLOCATED" ELSE "PENDING"
  BY <1>1, ProductionAt DEF Production
<1>5. po' = [po EXCEPT ![p] = made]
  BY DEF CreateProduction
<1> HIDE DEF made
<1>6. RoomTypeOK' /\ po'[p] = made /\ \A q \in Productions \ {p} : po'[q] = po[q]
  BY <1>1, <1>3, <1>4, <1>5, ProductionSet
<1>7. MakingRight(p)'
  BY <1>4, <1>6 DEF MakingRight
<1> QED BY <1>1, <1>3, <1>4, <1>6, <1>7, MakingStep

LEMMA PlanningProduction ==
  ASSUME RoomInv, NEW p \in Productions, PlanProduction(p)
  PROVE  RoomInv' /\ PostsElse(MovingTypes)
<1> DEFINE takes == po[p].ing = "PENDING"
           made == [po[p] EXCEPT !.st = "PLANNED", !.ing = "ALLOCATED"]
<1>1. RoomTypeOK /\ po[p].st = "DRAFT" /\ po[p].ing \in {"PENDING", "ALLOCATED"}
  BY DEF PlanProduction, RoomInv, MakingRight, RoomTypeOK
<1>2. Allocate(p) = MakeRows(p, takes, FALSE, FALSE)
  BY DEF Allocate, MakeRows
<1>3. Post(MakeRows(p, takes, FALSE, FALSE)) /\ UNCHANGED <<order, count>>
  BY <1>2 DEF PlanProduction
<1>4. made \in Production /\ made.st = "PLANNED" /\ made.ing = "ALLOCATED"
  BY <1>1, ProductionAt DEF Production
<1>5. po' = [po EXCEPT ![p] = made]
  BY DEF PlanProduction
<1> HIDE DEF made
<1>6. RoomTypeOK' /\ po'[p] = made /\ \A q \in Productions \ {p} : po'[q] = po[q]
  BY <1>1, <1>3, <1>4, <1>5, ProductionSet
<1>7. MakingRight(p)'
  BY <1>4, <1>6 DEF MakingRight
<1> QED BY <1>1, <1>3, <1>4, <1>6, <1>7, MakingStep

LEMMA CancelingProduction ==
  ASSUME RoomInv, NEW p \in Productions, CancelProduction(p)
  PROVE  RoomInv' /\ PostsElse(MovingTypes)
<1> DEFINE frees == po[p].st \in {"PLANNED", "IN_PROGRESS"} /\ po[p].ing = "ALLOCATED"
           made == [po[p] EXCEPT !.st = "CANCELED", !.ing = IF frees THEN "PENDING" ELSE po[p].ing]
<1>1. (IF frees THEN Release(p) ELSE {}) = MakeRows(p, FALSE, frees, FALSE)
  BY DEF Release, MakeRows
<1>2. Post(MakeRows(p, FALSE, frees, FALSE)) /\ UNCHANGED <<order, count>> /\ RoomTypeOK
  BY <1>1 DEF CancelProduction, RoomInv
<1>3. /\ made \in Production /\ made.st = "CANCELED"
      /\ made.ing = IF frees THEN "PENDING" ELSE po[p].ing
  BY <1>2, ProductionAt DEF Production
<1>4. po' = [po EXCEPT ![p] = made]
  BY DEF CancelProduction
<1> HIDE DEF made
<1>5. RoomTypeOK' /\ po'[p] = made /\ \A q \in Productions \ {p} : po'[q] = po[q]
  BY <1>2, <1>3, <1>4, ProductionSet
<1>6. MakingRight(p)'
  BY <1>3, <1>5 DEF MakingRight
<1> QED BY <1>2, <1>3, <1>5, <1>6, MakingStep

LEMMA CompletingProduction ==
  ASSUME RoomInv, NEW p \in Productions, CompleteProduction(p)
  PROVE  RoomInv' /\ PostsElse(MovingTypes)
<1> DEFINE frees == po[p].ing = "ALLOCATED"
           rows == Release(p) \cup {Row(Sold, "PRODUCTION_OUT", Planned, p),
                                    Row(Made, "PRODUCTION_IN", Yield, p)}
           made == [po[p] EXCEPT !.st = "COMPLETED", !.ing = "CONSUMED", !.asked = po[p].asked - 1]
<1>1. rows = MakeRows(p, FALSE, frees, TRUE)
  BY DEF Release, MakeRows
<1>2. Post(rows) /\ UNCHANGED <<order, count>> /\ po[p].asked > 0 /\ RoomTypeOK
  BY DEF CompleteProduction, RoomInv
<1>3. Post(MakeRows(p, FALSE, frees, TRUE))
  BY <1>1, <1>2
<1>4. made \in Production /\ made.st = "COMPLETED" /\ made.ing = "CONSUMED"
  <2>1. po[p] \in Production /\ po[p].asked - 1 \in 0..2
    BY <1>2, ProductionAt
  <2> QED BY <2>1 DEF Production
<1>5. po' = [po EXCEPT ![p] = made]
  BY DEF CompleteProduction
<1> HIDE DEF made
<1>6. RoomTypeOK' /\ po'[p] = made /\ \A q \in Productions \ {p} : po'[q] = po[q]
  BY <1>2, <1>4, <1>5, ProductionSet
<1>7. MakingRight(p)'
  BY <1>4, <1>6 DEF MakingRight
<1> QED BY <1>2, <1>3, <1>4, <1>6, <1>7, MakingStep

(* A step that only changes the status of a production or of a count.      *)
LEMMA RoomRests ==
  ASSUME RoomInv, UNCHANGED <<stock, order>>, RoomTypeOK', Allocated' = Allocated,
         \A p \in Productions : MakingRight(p)'
  PROVE  RoomInv' /\ PostsElse(MovingTypes)
<1>1. StockTyped' /\ reserved' = reserved /\ moves' = moves /\ order' = order
  BY DEF RoomInv, StockTyped, Sized, BagToSet, stock
<1>2. \A type, of : Rows(type, of)' = Rows(type, of) /\ Moved(type, of)' = Moved(type, of)
  BY <1>1 DEF Rows, Of, Moved, BagToSet
<1>3. \A o \in Orders : OrderRight(o)'
  <2> TAKE o \in Orders
  <2>1. \A type : (Has(type, o)' <=> Has(type, o)) /\ Claimed(o)' = Claimed(o)
    BY <1>2 DEF Has, Claimed
  <2>2. OrderRight(o) /\ HeldOnce(o)' = HeldOnce(o)
    BY <1>1, <1>2 DEF RoomInv, HeldOnce, HeldRow, Row
  <2> QED BY <1>1, <1>2, <2>1, <2>2 DEF OrderRight
<1>4. Balanced'
  BY <1>1, <1>2 DEF RoomInv, Balanced, Claims, Claimed
<1> QED BY <1>1, <1>3, <1>4 DEF RoomInv, PostsElse

LEMMA AdvancingProduction ==
  ASSUME RoomInv, NEW p \in Productions,
         \/ StartProduction(p) \/ HoldProduction(p) \/ ResumeProduction(p) \/ AskCompletion(p)
  PROVE  RoomInv' /\ PostsElse(MovingTypes)
<1>1. /\ UNCHANGED <<stock, order, count>> /\ RoomTypeOK
      /\ po[p].st \in {"PLANNED", "IN_PROGRESS", "ON_HOLD"}
  BY DEF StartProduction, HoldProduction, ResumeProduction, AskCompletion, RoomInv
<1>2. PICK made \in Production :
        /\ po' = [po EXCEPT ![p] = made]
        /\ made.ing = po[p].ing /\ made.st \in {"PLANNED", "IN_PROGRESS", "ON_HOLD"}
  <2> DEFINE Good(m) == /\ m \in Production /\ m.ing = po[p].ing
                        /\ m.st \in {"PLANNED", "IN_PROGRESS", "ON_HOLD"}
  <2>1. CASE StartProduction(p)
    <3> DEFINE m == [po[p] EXCEPT !.st = "IN_PROGRESS", !.started = TRUE]
    <3>1. Good(m)
      BY <1>1, ProductionAt DEF Production
    <3>2. po' = [po EXCEPT ![p] = m]
      BY <2>1 DEF StartProduction
    <3> HIDE DEF m
    <3> QED BY <3>1, <3>2
  <2>2. CASE HoldProduction(p)
    <3> DEFINE m == [po[p] EXCEPT !.st = "ON_HOLD"]
    <3>1. Good(m)
      BY <1>1, ProductionAt DEF Production
    <3>2. po' = [po EXCEPT ![p] = m]
      BY <2>2 DEF HoldProduction
    <3> HIDE DEF m
    <3> QED BY <3>1, <3>2
  <2>3. CASE ResumeProduction(p)
    <3> DEFINE m == [po[p] EXCEPT !.st = IF po[p].started THEN "IN_PROGRESS" ELSE "PLANNED"]
    <3>1. Good(m)
      BY <1>1, ProductionAt DEF Production
    <3>2. po' = [po EXCEPT ![p] = m]
      BY <2>3 DEF ResumeProduction
    <3> HIDE DEF m
    <3> QED BY <3>1, <3>2
  <2>4. CASE AskCompletion(p)
    <3> DEFINE m == [po[p] EXCEPT !.asked = po[p].asked + 1]
    <3>1. po[p].asked + 1 \in 0..2
      BY <1>1, <2>4, ProductionAt DEF AskCompletion
    <3>2. Good(m)
      BY <1>1, <3>1, ProductionAt DEF Production
    <3>3. po' = [po EXCEPT ![p] = m]
      BY <2>4 DEF AskCompletion
    <3> HIDE DEF m
    <3> QED BY <3>2, <3>3
  <2> QED BY <2>1, <2>2, <2>3, <2>4
<1>3. RoomTypeOK' /\ po'[p] = made /\ \A q \in Productions \ {p} : po'[q] = po[q]
  BY <1>1, <1>2, ProductionSet
<1>4. Allocated' = Allocated
  <2>1. \A q \in Productions : po'[q].ing = po[q].ing
    BY <1>2, <1>3
  <2> QED BY <2>1 DEF Allocated
<1>5. \A q \in Productions : MakingRight(q)'
  <2> TAKE q \in Productions
  <2>1. MakingRight(q)
    BY DEF RoomInv
  <2> QED BY <1>2, <1>3, <2>1 DEF MakingRight
<1> QED BY <1>1, <1>3, <1>4, <1>5, RoomRests

(* Rows that are of no order nor production leave the room as it was.      *)
LEMMA OtherRows ==
  ASSUME RoomInv, NEW rows, Sized(rows), Post(rows), \A r \in rows : r.type \notin OrderTypes,
         UNCHANGED <<order, po>>, RoomTypeOK'
  PROVE  RoomInv'
<1>1. StockTyped /\ Sold \in Slots
  BY StockRoomAssumption DEF RoomInv
<1>2. /\ \A type \in OrderTypes : Of(rows, type) = {}
      /\ \A o \in Orders : \A type \in OrderTypes : Chosen(rows, type, o) = {}
  BY DEF Of, Chosen
<1>3. reserved'[Sold] = reserved[Sold] + (0 - 0)
  <2>1. Of(rows, "RESERVATION") = {} /\ Of(rows, "RESERVATION_RELEASE") = {}
    BY <1>2 DEF OrderTypes
  <2>2. \A r \in rows : r.type \in {"RESERVATION", "RESERVATION_RELEASE"} => r.slot = Sold
    BY DEF OrderTypes
  <2>3. reserved'[Sold] = reserved[Sold] + (Quantity(Of(rows, "RESERVATION"))
                                             - Quantity(Of(rows, "RESERVATION_RELEASE")))
    BY <1>1, <2>2, PostHolds
  <2> QED BY <2>1, <2>3, QuantityOfNone
<1> DEFINE a == Planned * Cardinality(Allocated)
           b == Planned * Cardinality(Allocated)'
<1>4. a \in Int /\ b = a
  <2>1. IsFiniteSet(Allocated) /\ Allocated' = Allocated
    BY StockRoomAssumption, FS_Subset DEF Allocated
  <2>2. Cardinality(Allocated) \in Int /\ Planned \in Int
    BY <2>1, StockRoomAssumption, FS_CardinalityType
  <2> QED BY <2>1, <2>2
<1>5. reserved'[Sold] = reserved[Sold] + (b - a)
  <2> HIDE DEF a, b
  <2> QED BY <1>3, <1>4
<1>6. \A p \in Productions : MakingRight(p)'
  BY DEF RoomInv, MakingRight
<1> QED BY <1>2, <1>5, <1>6, RoomApart

LEMMA CountingStep ==
  ASSUME RoomInv, NEW c \in Counts, NEW applies \in BOOLEAN,
         Post(IF applies THEN Adjustment(c) ELSE {}), UNCHANGED <<order, po>>, RoomTypeOK'
  PROVE  RoomInv' /\ PostsElse(MovingTypes)
<1> DEFINE x == Row(Sold, "COUNT_ADJUSTMENT", count[c].found - level[Sold], c)
           rows == IF applies THEN Adjustment(c) ELSE {}
<1>1. count[c].found \in Int /\ level[Sold] \in Int
  <2>1. count[c].found \in {-1} \cup Counted
    BY DEF RoomInv, RoomTypeOK
  <2>2. level[Sold] \in Int /\ Counted \subseteq Nat
    BY StockRoomAssumption DEF RoomInv, StockTyped
  <2>3. CASE count[c].found = -1
    BY <2>2, <2>3
  <2>4. CASE count[c].found \in Counted
    <3>1. count[c].found \in Nat
      BY Zenon, <2>2, <2>4
    <3> QED BY <2>2, <3>1
  <2> QED BY <2>1, <2>3, <2>4
<1>2. x.type = "COUNT_ADJUSTMENT" /\ x.qty \in Int
  BY <1>1 DEF Row
<1>3. rows = {} \/ rows = {x}
  BY DEF Adjustment
<1>4. Post(rows)
  OBVIOUS
<1> HIDE DEF x, rows
<1>5. Sized(rows) /\ \A r \in rows : r.type = "COUNT_ADJUSTMENT"
  <2>1. CASE rows = {}
    BY <2>1, FS_EmptySet DEF Sized
  <2>2. CASE rows = {x}
    BY <1>2, <2>2, FS_Singleton DEF Sized
  <2> QED BY <1>3, <2>1, <2>2
<1>6. \A r \in rows : r.type \notin OrderTypes /\ r.type \notin MovingTypes
  BY <1>5 DEF OrderTypes, MovingTypes
<1>7. RoomInv'
  BY <1>4, <1>5, <1>6, OtherRows
<1> QED BY <1>4, <1>5, <1>6, <1>7 DEF PostsElse

LEMMA CountSteps ==
  ASSUME RoomInv, CountStep
  PROVE  RoomInv' /\ PostsElse(MovingTypes)
<1>1. PICK c \in Counts :
        \/ \E auto \in BOOLEAN : CreateCount(c, auto) \/ ApproveCount(c, auto)
        \/ StartCount(c) \/ CompleteCount(c) \/ CancelCount(c)
        \/ \E n \in Counted : RecordCount(c, n)
  BY DEF CountStep
<1>2. UNCHANGED <<order, po>>
  BY <1>1 DEF CreateCount, ApproveCount, StartCount, CompleteCount, CancelCount, RecordCount
<1>3. RoomTypeOK'
  <2> DEFINE Sheet == [st : {"none", "DRAFT", "IN_PROGRESS", "PENDING_APPROVAL", "APPROVED",
                             "CANCELED"},
                       found : {-1} \cup Counted, auto : BOOLEAN]
  <2>1. count \in [Counts -> Sheet]
    BY DEF RoomInv, RoomTypeOK
  <2>2. count' \in [Counts -> Sheet]
    <3>1. CASE \E auto \in BOOLEAN : CreateCount(c, auto)
      <4>1. PICK auto \in BOOLEAN :
              count' = [count EXCEPT ![c] = [@ EXCEPT !.st = "DRAFT", !.auto = auto]]
        BY <3>1 DEF CreateCount
      <4>2. [count[c] EXCEPT !.st = "DRAFT", !.auto = auto] \in Sheet
        BY <2>1
      <4> HIDE DEF Sheet
      <4> QED BY <2>1, <4>1, <4>2
    <3>2. CASE \E auto \in BOOLEAN : ApproveCount(c, auto)
      <4>1. PICK auto \in BOOLEAN :
              count' = [count EXCEPT ![c] = [@ EXCEPT !.st = "APPROVED", !.auto = auto]]
        BY <3>2 DEF ApproveCount
      <4>2. [count[c] EXCEPT !.st = "APPROVED", !.auto = auto] \in Sheet
        BY <2>1
      <4> HIDE DEF Sheet
      <4> QED BY <2>1, <4>1, <4>2
    <3>3. CASE StartCount(c)
      BY <2>1, <3>3 DEF StartCount
    <3>4. CASE CompleteCount(c)
      BY <2>1, <3>4 DEF CompleteCount
    <3>5. CASE CancelCount(c)
      BY <2>1, <3>5 DEF CancelCount
    <3>6. CASE \E n \in Counted : RecordCount(c, n)
      <4>1. PICK n \in Counted :
              count' = [count EXCEPT ![c] = [@ EXCEPT !.st = "IN_PROGRESS", !.found = n]]
        BY <3>6 DEF RecordCount
      <4>2. [count[c] EXCEPT !.st = "IN_PROGRESS", !.found = n] \in Sheet
        BY <2>1
      <4> HIDE DEF Sheet
      <4> QED BY <2>1, <4>1, <4>2
    <3> QED BY <1>1, <3>1, <3>2, <3>3, <3>4, <3>5, <3>6
  <2> QED BY <1>2, <2>2 DEF RoomInv, RoomTypeOK
<1>4. CASE UNCHANGED stock
  <2>1. Allocated' = Allocated /\ \A p \in Productions : MakingRight(p)'
    BY <1>2 DEF Allocated, RoomInv, MakingRight
  <2> QED BY <1>2, <1>3, <1>4, <2>1, RoomRests
<1>5. CASE CompleteCount(c)
  <2> DEFINE applies == count[c].auto /\ ~CountApproval
  <2>1. Post(IF applies THEN Adjustment(c) ELSE {})
    BY <1>5 DEF CompleteCount
  <2>2. applies \in BOOLEAN
    OBVIOUS
  <2> HIDE DEF applies
  <2> QED BY <1>2, <1>3, <2>1, <2>2, CountingStep
<1>6. ASSUME NEW auto \in BOOLEAN, ApproveCount(c, auto)
      PROVE  RoomInv' /\ PostsElse(MovingTypes)
  <2>1. Post(IF auto THEN Adjustment(c) ELSE {})
    BY <1>6 DEF ApproveCount
  <2> QED BY <1>2, <1>3, <2>1, CountingStep
<1>7. \/ UNCHANGED stock \/ CompleteCount(c) \/ \E auto \in BOOLEAN : ApproveCount(c, auto)
  BY <1>1 DEF CreateCount, StartCount, CancelCount, RecordCount
<1> QED BY <1>4, <1>5, <1>6, <1>7

(* The rows of an order are no transfer's.                                 *)
LEMMA OrderElse ==
  ASSUME StockTyped, NEW o, PostsForOrder(o)
  PROVE  PostsElse(MovingTypes)
<1>1. PICK D \in SUBSET OrderTypes, n \in [OrderTypes -> Int] : Post(OrderRows(o, D, n))
  BY DEF PostsForOrder
<1> DEFINE rows == OrderRows(o, D, n)
<1>2. Sized(rows) /\ \A r \in rows : r.type \in OrderTypes
  BY OrderPosts
<1> HIDE DEF rows
<1>3. \A r \in rows : r.type \notin MovingTypes
  BY <1>2 DEF OrderTypes, MovingTypes
<1> QED BY <1>1, <1>2, <1>3 DEF PostsElse, rows

LEMMA RoomSteps ==
  ASSUME RoomInv, RoomNext
  PROVE  RoomInv' /\ PostsElse(MovingTypes)
<1>1. ASSUME NEW o \in Orders,
             \/ \E new \in Live : \/ OrderMoves(o, new)
                                  \/ \E qty \in 1..MostItems : OrderCreated(o, new, qty)
             \/ OrderCanceled(o) \/ DeductByHand(o)
             \/ \E qty \in 1..MostItems : EditItems(o, qty)
      PROVE  RoomInv' /\ PostsForOrder(o)
  BY <1>1, CreatingOrder, MovingOrder, CancelingOrder, DeductingByHand, EditingItems
<1>2. CASE OrderStep
  <2>1. StockTyped
    BY DEF RoomInv
  <2> QED BY <1>1, <1>2, <2>1, OrderElse DEF OrderStep
<1>3. CASE ProductionStep
  BY <1>3, CreatingProduction, PlanningProduction, CancelingProduction, CompletingProduction,
     AdvancingProduction DEF ProductionStep
<1> QED BY <1>2, <1>3, CountSteps DEF RoomNext

LEMMA RoomInitial ==
  ASSUME BranchInit
  PROVE  RoomInv
<1> USE StockRoomAssumption DEF BranchInit, RoomInit, StockInit
<1>1. StockTyped /\ BagToSet(moves) = {}
  BY TransfersInitial DEF TransferInv, BagToSet, EmptyBag, SetToBag
<1>2. RoomTypeOK
  BY DEF RoomTypeOK, NoOrder, NoProduction, NoCount
<1>3. \A type, of : Rows(type, of) = {} /\ Moved(type, of) = 0 /\ ~Has(type, of)
  <2> TAKE type, of
  <2>1. Rows(type, of) = {}
    BY <1>1 DEF Rows, Of
  <2> QED BY <2>1, NoneMoved DEF Has
<1>4. \A o \in Orders : OrderRight(o)
  BY <1>3 DEF OrderRight, HeldOnce, Claimed, NoOrder, Live
<1>5. \A p \in Productions : MakingRight(p)
  BY DEF MakingRight, NoProduction
<1>6. Balanced
  <2>1. Claims = 0
    <3> DEFINE f == [o \in Orders |-> Claimed(o)]
    <3>1. \A o \in Orders \ {} : f[o] = 0
      BY <1>3 DEF Claimed
    <3>2. SumFunctionOnSet(f, Orders) = SumFunctionOnSet(f, {})
      <4> HIDE DEF f
      <4> QED BY <3>1, SumOver
    <3> QED BY <3>2, SumEmpty DEF Claims
  <2>2. Allocated = {} /\ Cardinality({}) = 0
    BY FS_EmptySet DEF Allocated, NoProduction
  <2>3. reserved[Sold] = 0 /\ Planned * 0 = 0
    OBVIOUS
  <2> QED BY <2>1, <2>2, <2>3 DEF Balanced
<1> QED BY <1>1, <1>2, <1>4, <1>5, <1>6 DEF RoomInv

-----------------------------------------------------------------------------
(* Orders, production and counts beside transfers.                         *)

LEMMA RequestedOf ==
  ASSUME MovesTyped, NEW w \in Workers, request[w].op \in Operations
  PROVE  request[w].t \in Transfers
<1>1. request[w] \in {Idle} \cup [op : Operations, t : Transfers, saw : Statuses]
  BY DEF MovesTyped
<1>2. request[w] # Idle
  BY DEF Idle, Operations
<1> QED BY <1>1, <1>2

LEMMA FinishTyped ==
  ASSUME MovesTyped, NEW w \in Workers, NEW t \in Transfers,
         NEW row \in [st : Statuses, qty : Nat, got : Nat],
         transfer' = [transfer EXCEPT ![t] = row], request' = [request EXCEPT ![w] = Idle]
  PROVE  MovesTyped'
BY DEF MovesTyped

LEMMA DoneMoves ==
  ASSUME MovesTyped, NEW w \in Workers, NEW st \in Statuses, request[w].op \in Operations,
         Done(w, st)
  PROVE  MovesTyped'
<1> DEFINE t == request[w].t
           row == [transfer[t] EXCEPT !.st = st]
<1>1. t \in Transfers
  BY RequestedOf
<1>2. transfer' = [transfer EXCEPT ![t] = row] /\ request' = [request EXCEPT ![w] = Idle]
  BY DEF Done, Answer
<1> HIDE DEF t
<1>3. row \in [st : Statuses, qty : Nat, got : Nat]
  BY <1>1 DEF MovesTyped
<1> HIDE DEF row
<1> QED BY <1>1, <1>2, <1>3, FinishTyped

(* At the hub too, where requests overlap.                                 *)
LEMMA MovesStayTyped ==
  ASSUME MovesTyped, TransfersNext
  PROVE  MovesTyped'
<1> USE StockTransfersAssumption
<1>1. ASSUME NEW t \in Transfers, NEW qty \in Asked, CreateTransfer(t, qty) PROVE MovesTyped'
  BY <1>1 DEF CreateTransfer, MovesTyped, Statuses
<1>2. ASSUME NEW t \in Transfers, NEW qty \in Asked, QuickTransfer(t, qty) PROVE MovesTyped'
  <2> DEFINE free == AllowNegative \/ qty <= level[From] - reserved[From]
             whole == free /\ qty <= batch[From] /\ Enough(Move(t, "TRANSFER_OUT", From, qty))
             row == [st |-> IF whole THEN "RECEIVED" ELSE IF free THEN "APPROVED" ELSE "DRAFT",
                     qty |-> qty, got |-> IF whole THEN qty ELSE 0]
  <2>1. transfer' = [transfer EXCEPT ![t] = row] /\ request' = request
    BY <1>2 DEF QuickTransfer
  <2> HIDE DEF free, whole
  <2>2. row \in [st : Statuses, qty : Nat, got : Nat]
    BY DEF Statuses
  <2> HIDE DEF row
  <2> QED BY <2>1, <2>2 DEF MovesTyped
<1>3. ASSUME NEW w \in Workers, NEW op \in Operations, NEW t \in Transfers, Check(w, op, t)
      PROVE  MovesTyped'
  BY <1>3 DEF Check, MovesTyped
<1>4. ASSUME NEW w \in Workers,
             RequestTransfer(w) \/ ApproveTransfer(w) \/ ShipTransfer(w) \/ CancelTransfer(w)
      PROVE  MovesTyped'
  <2>1. /\ request[w].op \in Operations
        /\ \E st \in Statuses : Done(w, st)
    BY <1>4 DEF RequestTransfer, ApproveTransfer, ShipTransfer, CancelTransfer, Operations, Statuses
  <2> QED BY <2>1, DoneMoves
<1>5. ASSUME NEW w \in Workers, NEW got \in {0} \cup Asked, ReceiveTransfer(w, got)
      PROVE  MovesTyped'
  <2>1. PICK t \in Transfers : t = request[w].t
    BY <1>5, RequestedOf DEF ReceiveTransfer, Operations
  <2>2. /\ transfer' = [transfer EXCEPT ![t] = [@ EXCEPT !.st = "RECEIVED", !.got = got]]
        /\ request' = [request EXCEPT ![w] = Idle]
    BY <1>5, <2>1 DEF ReceiveTransfer, Answer
  <2> DEFINE row == [transfer[t] EXCEPT !.st = "RECEIVED", !.got = got]
  <2>3. row \in [st : Statuses, qty : Nat, got : Nat]
    <3>1. /\ transfer[t] \in [st : Statuses, qty : Nat, got : Nat] /\ got \in Nat
          /\ "RECEIVED" \in Statuses
      BY DEF MovesTyped, Statuses
    <3> QED BY <3>1
  <2>4. transfer' = [transfer EXCEPT ![t] = row]
    BY <2>2
  <2> HIDE DEF row
  <2> QED BY <2>2, <2>3, <2>4, FinishTyped
<1>6. ASSUME NEW w \in Workers, NEW qty \in Asked, EditTransferItem(w, qty) PROVE MovesTyped'
  <2>1. PICK t \in Transfers : t = request[w].t
    BY <1>6, RequestedOf DEF EditTransferItem, Operations
  <2> DEFINE n == IF transfer[t].st \in MayStart("edit") THEN qty ELSE transfer[t].qty
             row == [transfer[t] EXCEPT !.qty = n]
  <2>2. transfer' = [transfer EXCEPT ![t] = row] /\ request' = [request EXCEPT ![w] = Idle]
    BY <1>6, <2>1 DEF EditTransferItem
  <2>3. transfer[t] \in [st : Statuses, qty : Nat, got : Nat] /\ n \in Nat
    BY DEF MovesTyped
  <2> HIDE DEF n
  <2>4. row \in [st : Statuses, qty : Nat, got : Nat]
    BY <2>3
  <2> HIDE DEF row
  <2> QED BY <2>2, <2>4, FinishTyped
<1>7. ASSUME NEW w \in Workers, Refuse(w) PROVE MovesTyped'
  BY <1>7 DEF Refuse, MovesTyped
<1> QED BY <1>1, <1>2, <1>3, <1>4, <1>5, <1>6, <1>7 DEF TransfersNext

LEMMA MoveElse ==
  ASSUME NEW t, NEW type \in MovingTypes, NEW s, NEW qty \in Int, Post(Move(t, type, s, qty))
  PROVE  PostsElse(OrderTypes)
<1> DEFINE rows == Move(t, type, s, qty)
<1>1. \A r \in rows : r.type = type
  BY DEF Move, Row
<1>2. Sized(rows)
  BY MoveRows
<1> HIDE DEF rows
<1>3. \A r \in rows : r.type \notin OrderTypes
  BY <1>1 DEF MovingTypes, OrderTypes
<1> QED BY <1>2, <1>3 DEF PostsElse, rows

LEMMA EmptyElse ==
  ASSUME NEW types, Post({})
  PROVE  PostsElse(types)
<1>1. Sized({}) /\ \A r \in {} : r.type \notin types
  BY FS_EmptySet DEF Sized
<1> QED BY <1>1 DEF PostsElse

LEMMA TransferElse ==
  ASSUME MovesTyped, TransfersNext
  PROVE  PostsElse(OrderTypes)
<1> USE StockTransfersAssumption
<1>1. "TRANSFER_OUT" \in MovingTypes /\ "TRANSFER_IN" \in MovingTypes
  BY DEF MovingTypes
<1>2. CASE UNCHANGED stock
  BY <1>2 DEF PostsElse
<1>3. ASSUME NEW t \in Transfers, NEW qty \in Asked, QuickTransfer(t, qty)
      PROVE  PostsElse(OrderTypes)
  <2> DEFINE rows == Both(t, qty)
  <2>1. Post(rows) \/ Post({})
    BY <1>3 DEF QuickTransfer, Both
  <2>2. qty \in Int
    OBVIOUS
  <2>3. \A r \in rows : r.type \notin OrderTypes
    BY DEF Both, Move, Row, OrderTypes
  <2>4. Sized(rows)
    BY <2>2, QuickRows
  <2> HIDE DEF rows
  <2> QED BY <2>1, <2>3, <2>4, EmptyElse DEF PostsElse
<1>4. ASSUME NEW w \in Workers, ShipTransfer(w) \/ CancelTransfer(w)
      PROVE  PostsElse(OrderTypes)
  <2>1. PICK t \in Transfers : t = request[w].t
    BY <1>4, RequestedOf DEF ShipTransfer, CancelTransfer, Operations
  <2>2. transfer[t].qty \in Int
    BY DEF MovesTyped
  <2>3. \/ Post(Move(t, "TRANSFER_OUT", From, transfer[t].qty))
        \/ Post(Move(t, "TRANSFER_IN", From, transfer[t].qty))
        \/ Post({})
    BY <1>4, <2>1 DEF ShipTransfer, CancelTransfer
  <2> QED BY <1>1, <2>2, <2>3, MoveElse, EmptyElse
<1>5. ASSUME NEW w \in Workers, NEW got \in {0} \cup Asked, ReceiveTransfer(w, got)
      PROVE  PostsElse(OrderTypes)
  <2>1. Post(Move(request[w].t, "TRANSFER_IN", To, got)) /\ got \in Int
    BY <1>5 DEF ReceiveTransfer
  <2> QED BY <1>1, <2>1, MoveElse
<1>6. \/ UNCHANGED stock
      \/ \E t \in Transfers, qty \in Asked : QuickTransfer(t, qty)
      \/ \E w \in Workers : ShipTransfer(w) \/ CancelTransfer(w)
      \/ \E w \in Workers, got \in {0} \cup Asked : ReceiveTransfer(w, got)
  BY DEF TransfersNext, CreateTransfer, Check, RequestTransfer, ApproveTransfer, Refuse,
         EditTransferItem
<1> QED BY <1>2, <1>3, <1>4, <1>5, <1>6

LEMMA RoomBesideTransfers ==
  ASSUME RoomInv, PostsElse(OrderTypes), UNCHANGED room
  PROVE  RoomInv'
<1>1. UNCHANGED <<order, po>> /\ RoomTypeOK'
  BY DEF room, RoomInv, RoomTypeOK
<1>2. CASE UNCHANGED stock
  <2>1. Allocated' = Allocated /\ \A p \in Productions : MakingRight(p)'
    BY <1>1 DEF Allocated, RoomInv, MakingRight
  <2> QED BY <1>1, <1>2, <2>1, RoomRests
<1> QED BY <1>1, <1>2, OtherRows DEF PostsElse

LEMMA TransfersBesideRoom ==
  ASSUME TransferInv, PostsElse(MovingTypes), UNCHANGED transfers
  PROVE  TransferInv'
<1>1. MovesTyped' /\ \A w \in Workers : SeenAllows(w)'
  BY DEF transfers, TransferInv, MovesTyped, SeenAllows
<1>2. CASE UNCHANGED stock
  <2>1. \A t \in Transfers : TransferRight(t) => (Outside(t)' = Outside(t) => TransferRight(t)')
    BY DEF transfers, TransferRight
  <2> QED BY <1>1, <1>2, <2>1, QuietStep
<1>3. ASSUME NEW rows, Sized(rows), Post(rows), \A r \in rows : r.type \notin MovingTypes
      PROVE  TransferInv'
  <2>1. StockTyped'
    BY <1>3, StockStaysTyped DEF TransferInv
  <2>2. ASSUME NEW t \in Transfers PROVE TransferRight(t)'
    <3>1. Chosen(rows, "TRANSFER_OUT", t) = {} /\ Chosen(rows, "TRANSFER_IN", t) = {}
      BY <1>3 DEF Chosen, MovingTypes
    <3>2. transfer'[t] = transfer[t] /\ TransferRight(t) /\ overtaken \subseteq overtaken'
      BY DEF transfers, TransferInv
    <3> QED BY <1>3, <3>1, <3>2, TransferApart
  <2> QED BY <1>1, <2>1, <2>2 DEF TransferInv
<1> QED BY <1>2, <1>3 DEF PostsElse

(* What is reserved is what open orders and allocated ingredients claim,   *)
(* and an order has taken what it sells and given back what it took        *)
(* (order_service.py:95, 171, 376; production_service.py:613), however     *)
(* many orders, productions, counts and transfers run, in any order.       *)
THEOREM RoomIsRight == BranchSpec => []RoomAccounts
<1> DEFINE Inv == RoomInv /\ MovesTyped
<1>1. BranchInit => Inv
  BY RoomInitial, TransfersInitial DEF TransferInv
<1>2. Inv /\ [BranchNext]_branchVars => Inv'
  <2> SUFFICES ASSUME Inv, [BranchNext]_branchVars PROVE Inv'
    OBVIOUS
  <2>1. CASE RoomNext /\ UNCHANGED transfers
    BY <2>1, RoomSteps DEF transfers, MovesTyped
  <2>2. CASE TransfersNext /\ UNCHANGED room
    BY <2>2, MovesStayTyped, TransferElse, RoomBesideTransfers
  <2>3. CASE UNCHANGED branchVars
    <3>1. UNCHANGED <<stock, room, transfers>>
      BY <2>3 DEF branchVars
    <3>2. MovesTyped'
      BY <3>1 DEF transfers, MovesTyped
    <3> QED BY <3>1, <3>2, RoomBesideTransfers DEF PostsElse
  <2> QED BY <2>1, <2>2, <2>3 DEF BranchNext
<1>3. Inv => RoomAccounts
  <2> SUFFICES ASSUME RoomInv PROVE RoomAccounts
    OBVIOUS
  <2>1. \A o \in Orders : OrderRight(o)
    BY DEF RoomInv
  <2>2. ReservedIsClaimed
    BY <2>1 DEF RoomInv, Balanced, Claims, Allocated, OrderRight, ReservedIsClaimed
  <2>3. OrderTakesItsItems
    BY <2>1 DEF OrderRight, OrderTakesItsItems
  <2> QED BY <2>2, <2>3 DEF RoomAccounts
<1> QED BY <1>1, <1>2, <1>3, PTL DEF BranchSpec

(* What has left a location for a transfer is on its way, has arrived, is  *)
(* a recorded variance or is back (transfer_service.py:426), however many  *)
(* requests are served at once, unless one wrote a transfer that another   *)
(* had moved since its check.                                              *)
THEOREM TransfersAreRight == BranchSpec => []TransferAccounts
<1> DEFINE Inv == RoomInv /\ TransferInv
<1>1. BranchInit => Inv
  BY RoomInitial, TransfersInitial
<1>2. Inv /\ [BranchNext]_branchVars => Inv'
  <2> SUFFICES ASSUME Inv, [BranchNext]_branchVars PROVE Inv'
    OBVIOUS
  <2>1. CASE RoomNext /\ UNCHANGED transfers
    BY <2>1, RoomSteps, TransfersBesideRoom
  <2>2. CASE TransfersNext /\ UNCHANGED room
    BY <2>2, TransferSteps, TransferElse, RoomBesideTransfers DEF TransferInv
  <2>3. CASE UNCHANGED branchVars
    <3>1. UNCHANGED <<stock, room, transfers>>
      BY <2>3 DEF branchVars
    <3> QED BY <3>1, RoomBesideTransfers, TransfersBesideRoom DEF PostsElse
  <2> QED BY <2>1, <2>2, <2>3 DEF BranchNext
<1>3. Inv => TransferAccounts
  BY DEF TransferInv, TransferRight, Outside, TransferAccounts
<1> QED BY <1>1, <1>2, <1>3, PTL DEF BranchSpec

-----------------------------------------------------------------------------
(* Recipes: their versions and their steps.                                *)

RecipeRow ==
  [root : Recipes \cup {"none"}, version : Nat, major : Majors \cup {0},
   current : BOOLEAN, approved : BOOLEAN, active : BOOLEAN]

StepRow == [id : StepIds, number : Int, gone : BOOLEAN]

RecipesTyped ==
  /\ recipe \in [Recipes -> RecipeRow]
  /\ steps \in [Recipes -> SUBSET StepRow]

(* A root has no root, and a row that was never written is blank.          *)
Rooted(r) ==
  /\ recipe[r].root # "none" =>
       /\ recipe[r].root # r /\ Exists(r)
       /\ Exists(recipe[r].root) /\ recipe[recipe[r].root].root = "none"
  /\ ~Exists(r) => ~recipe[r].approved /\ ~recipe[r].current

OneNumber(r, v) ==
  Exists(r) /\ Exists(v) /\ Root(r) = Root(v) /\ recipe[r].version = recipe[v].version => r = v

OneInForce(r, v) ==
  /\ Exists(r) /\ Exists(v) /\ Root(r) = Root(v)
  /\ recipe[r].current /\ recipe[v].current
  /\ recipe[r].root # "none" /\ recipe[v].root # "none"
  => r = v

SomeInForce(r) ==
  Exists(r) => \E v \in Recipes : Exists(v) /\ Root(v) = Root(r) /\ recipe[v].current

VersionInv ==
  \A r \in Recipes :
    /\ Rooted(r) /\ SomeInForce(r)
    /\ \A v \in Recipes : OneNumber(r, v) /\ OneInForce(r, v)

Apart(rows) == \A s, t \in rows : s.number = t.number \/ s.id = t.id => s = t

StepInv == \A r \in Recipes : Apart(steps[r]) /\ (~Exists(r) => steps[r] = {})

(* A step that changes which rows are live keeps the order of the others.  *)
OrderKept(r) ==
  Ids(Present(steps'[r])) # Ids(Present(steps[r])) => SameOrder(steps[r], steps'[r])

RecipesInv == RecipesTyped /\ VersionInv /\ StepInv

(* A finite set has a greatest element, however its elements are measured. *)
LEMMA HasGreatest ==
  ASSUME NEW S, IsFiniteSet(S), S # {}, NEW f, \A x \in S : f[x] \in Int
  PROVE  \E x \in S : \A y \in S : f[x] >= f[y]
<1> DEFINE Tops(u) == {x \in u : \A y \in u : f[x] >= f[y]}
           Bad == {u \in SUBSET S : u # {} /\ Tops(u) = {}}
<1>1. SUFFICES ASSUME Bad # {} PROVE FALSE
  <2>1. S \notin Bad
    BY <1>1
  <2> QED BY <2>1
<1>2. PICK u \in Bad : \A v \in SUBSET u : v # u => v \notin Bad
  <2>1. Bad \in SUBSET SUBSET S
    OBVIOUS
  <2> HIDE DEF Bad
  <2> QED BY <1>1, <2>1, LeastPart
<1>3. PICK x \in u : TRUE
  BY <1>2
<1>4. u \ {x} \in SUBSET u /\ u \ {x} # u /\ u \subseteq S
  BY <1>2, <1>3
<1>5. u \ {x} \notin Bad
  BY <1>2, <1>4
<1>6. CASE u \ {x} = {}
  <2>1. \A y \in u : y = x
    BY <1>6
  <2>2. f[x] \in Int
    BY <1>3, <1>4
  <2>3. x \in Tops(u)
    BY <2>1, <2>2, <1>3
  <2> QED BY <2>3, <1>2
<1>7. CASE u \ {x} # {}
  <2>1. PICK m \in u \ {x} : \A y \in u \ {x} : f[m] >= f[y]
    BY <1>4, <1>5, <1>7
  <2>2. f[m] \in Int /\ f[x] \in Int /\ \A y \in u : f[y] \in Int
    BY <1>3, <1>4
  <2>3. m \in Tops(u) \/ x \in Tops(u)
    <3>1. CASE f[m] >= f[x]
      <4>1. \A y \in u : f[m] >= f[y]
        BY <2>1, <3>1
      <4> QED BY <4>1
    <3>2. CASE f[x] > f[m]
      <4>1. \A y \in u : f[x] >= f[y]
        BY <2>1, <2>2, <3>2
      <4> QED BY <4>1, <1>3
    <3> QED BY <2>2, <3>1, <3>2
  <2> QED BY <2>3, <1>2
<1> QED BY <1>6, <1>7

(* The next number is beyond those of the family.                          *)
LEMMA NextIsNew ==
  ASSUME RecipesTyped, NEW r \in Recipes, Exists(r)
  PROVE  /\ NextVersion(r) \in Nat \ {0}
         /\ \A v \in Recipes : Exists(v) /\ Root(v) = Root(r) => NextVersion(r) > recipe[v].version
<1> DEFINE f == [v \in Recipes |-> recipe[v].version]
           F == Family(r)
           S == {recipe[v].version : v \in F}
<1>1. F \subseteq Recipes /\ IsFiniteSet(F) /\ r \in F
  BY RecipesAssumption, FS_Subset DEF Family
<1>2. \A v \in Recipes : f[v] \in Nat /\ f[v] = recipe[v].version
  BY DEF RecipesTyped, RecipeRow
<1>3. PICK x \in F : \A y \in F : f[x] >= f[y]
  <2>1. F # {} /\ \A v \in F : f[v] \in Int
    BY <1>1, <1>2
  <2> HIDE DEF f, F
  <2> QED BY <1>1, <2>1, HasGreatest
<1>4. recipe[x].version \in S /\ \A y \in S : recipe[x].version >= y
  BY <1>1, <1>2, <1>3
<1>5. Max(S) \in S /\ \A y \in S : Max(S) >= y
  <2> HIDE DEF S
  <2> QED BY <1>4 DEF Max
<1>6. Max(S) \in Nat /\ NextVersion(r) = Max(S) + 1
  BY <1>1, <1>2, <1>5 DEF NextVersion
<1>7. ASSUME NEW v \in Recipes, Exists(v), Root(v) = Root(r)
      PROVE  Max(S) >= recipe[v].version
  <2>1. v \in F
    BY <1>7 DEF Family
  <2>2. recipe[v].version \in S
    BY <2>1
  <2> QED BY <2>2, <1>5
<1> QED
  <2> HIDE DEF S
  <2> QED BY <1>2, <1>6, <1>7

(* What makes up a family: roots, numbers, existence.                      *)
LEMMA FamilyKept ==
  ASSUME NEW r \in Recipes, recipe'[r].root = recipe[r].root, recipe'[r].version = recipe[r].version
  PROVE  Exists(r)' = Exists(r) /\ Root(r)' = Root(r)
BY DEF Exists, Root

(* A step that keeps families and what is in force keeps the versions.     *)
LEMMA VersionsKept ==
  ASSUME RecipesTyped, VersionInv,
         \A v \in Recipes :
           /\ recipe'[v].root = recipe[v].root /\ recipe'[v].version = recipe[v].version
           /\ recipe'[v].current = recipe[v].current
           /\ recipe'[v].approved = recipe[v].approved
  PROVE  VersionInv'
<1>1. \A v \in Recipes : Exists(v)' = Exists(v) /\ Root(v)' = Root(v)
  BY FamilyKept
<1>2. \A v \in Recipes : recipe[v].root \in Recipes \cup {"none"}
  BY DEF RecipesTyped, RecipeRow
<1>3. ASSUME NEW r \in Recipes PROVE Rooted(r)'
  <2>1. Rooted(r)
    BY DEF VersionInv
  <2> QED BY <1>1, <1>2, <2>1 DEF Rooted
<1>4. ASSUME NEW r \in Recipes PROVE SomeInForce(r)'
  <2>1. SomeInForce(r)
    BY DEF VersionInv
  <2> QED BY <1>1, <2>1 DEF SomeInForce
<1>5. ASSUME NEW r \in Recipes, NEW v \in Recipes PROVE OneNumber(r, v)' /\ OneInForce(r, v)'
  <2>1. OneNumber(r, v) /\ OneInForce(r, v)
    BY DEF VersionInv
  <2> QED BY <1>1, <2>1 DEF OneNumber, OneInForce
<1> QED BY <1>3, <1>4, <1>5 DEF VersionInv

(* The root of whatever exists is a recipe that exists and has no root.    *)
LEMMA RootIsThere ==
  ASSUME RecipesTyped, VersionInv, NEW r \in Recipes, Exists(r)
  PROVE  /\ Root(r) \in Recipes /\ Exists(Root(r)) /\ Root(Root(r)) = Root(r)
         /\ recipe[Root(r)].root = "none"
<1>1. Rooted(r) /\ recipe[r].root \in Recipes \cup {"none"}
  BY DEF RecipesTyped, RecipeRow, VersionInv
<1> QED BY <1>1 DEF Rooted, Root

(* A row for a new version, or for a new recipe.                           *)
LEMMA VersionAdded ==
  ASSUME RecipesTyped, VersionInv, NEW new \in Recipes, ~Exists(new), NEW row \in RecipeRow,
         row.version > 0, ~row.approved, recipe' = [recipe EXCEPT ![new] = row],
         \/ row.root = "none" /\ row.current
         \/ /\ row.root \in Recipes /\ Exists(row.root) /\ recipe[row.root].root = "none"
            /\ ~row.current
            /\ \A v \in Recipes : Exists(v) /\ Root(v) = row.root => row.version > recipe[v].version
  PROVE  VersionInv'
<1>1. /\ recipe'[new] = row
      /\ \A v \in Recipes \ {new} : recipe'[v] = recipe[v]
  BY DEF RecipesTyped
<1>2. /\ Exists(new)' /\ Root(new)' = (IF row.root = "none" THEN new ELSE row.root)
      /\ \A v \in Recipes \ {new} : Exists(v)' = Exists(v) /\ Root(v)' = Root(v)
  BY <1>1 DEF Exists, Root
<1>3. \A v \in Recipes : Exists(v) => v # new /\ Root(v) # new /\ Root(v) \in Recipes
  BY RootIsThere
<1>4. ASSUME NEW r \in Recipes PROVE Rooted(r)'
  <2>1. Rooted(r) /\ recipe[r].root \in Recipes \cup {"none"}
    BY DEF VersionInv, RecipesTyped, RecipeRow
  <2>2. CASE r = new
    BY <1>1, <1>2, <2>2, RecipesAssumption DEF Rooted, RecipeRow
  <2>3. CASE r # new
    BY <1>1, <1>2, <2>1, <2>3 DEF Rooted
  <2> QED BY <2>2, <2>3
<1>5. ASSUME NEW r \in Recipes, Exists(r)
      PROVE  \E v \in Recipes : Exists(v)' /\ (Root(v) = Root(r))' /\ recipe'[v].current
  <2>1. PICK v \in Recipes : Exists(v) /\ Root(v) = Root(r) /\ recipe[v].current
    BY <1>5 DEF VersionInv, SomeInForce
  <2>2. v # new /\ r # new
    BY <1>3, <1>5, <2>1
  <2> QED BY <1>1, <1>2, <2>1, <2>2
<1>6. ASSUME NEW r \in Recipes PROVE SomeInForce(r)'
  <2>1. CASE r # new
    BY <1>2, <1>5, <2>1 DEF SomeInForce
  <2>2. CASE r = new /\ row.root = "none"
    BY <1>1, <1>2, <2>2, RecipesAssumption DEF SomeInForce
  <2>3. CASE r = new /\ row.root # "none"
    <3>1. row.root \in Recipes /\ Exists(row.root) /\ Root(row.root) = row.root /\ row.root # new
      BY <2>3 DEF Root
    <3>2. Root(new)' = row.root /\ Root(row.root)' = row.root
      BY <1>2, <2>3, <3>1
    <3> QED BY <1>5, <2>3, <3>1, <3>2 DEF SomeInForce
  <2> QED BY <2>1, <2>2, <2>3
<1>7. ASSUME NEW r \in Recipes, NEW v \in Recipes PROVE OneNumber(r, v)'
  <2>1. OneNumber(r, v)
    BY DEF VersionInv
  <2>2. \A x \in Recipes : recipe[x].version \in Nat
    BY DEF RecipesTyped, RecipeRow
  <2>3. CASE r # new /\ v # new
    BY <1>1, <1>2, <2>1, <2>3 DEF OneNumber
  <2>4. ASSUME NEW x \in Recipes \ {new}, Exists(x)', Root(x)' = Root(new)'
        PROVE  recipe'[x].version # recipe'[new].version
    <3>1. Exists(x) /\ Root(x) # new /\ Root(x) = Root(new)'
      BY <1>2, <1>3, <2>4
    <3>2. Root(x) = row.root /\ row.root # "none"
      BY <1>2, <3>1
    <3>3. row.version > recipe[x].version /\ row.version \in Nat
      BY <3>1, <3>2 DEF RecipeRow
    <3> QED BY <1>1, <2>2, <3>3
  <2>5. CASE r = new \/ v = new
    BY <2>4, <2>5 DEF OneNumber
  <2> QED BY <2>3, <2>5
<1>8. ASSUME NEW r \in Recipes, NEW v \in Recipes PROVE OneInForce(r, v)'
  <2>1. OneInForce(r, v)
    BY DEF VersionInv
  <2>2. ~(recipe'[new].current /\ recipe'[new].root # "none")
    BY <1>1
  <2>3. CASE r # new /\ v # new
    BY <1>1, <1>2, <2>1, <2>3 DEF OneInForce
  <2>4. CASE r = new \/ v = new
    BY <2>2, <2>4 DEF OneInForce
  <2> QED BY <2>3, <2>4
<1> QED BY <1>4, <1>6, <1>7, <1>8 DEF VersionInv

LEMMA Approving ==
  ASSUME RecipesTyped, VersionInv, NEW r \in Recipes, Approve(r)
  PROVE  RecipesTyped' /\ VersionInv' /\ UNCHANGED steps
<1> DEFINE others == IF recipe[r].root = "none" THEN {} ELSE Family(r) \ {r}
           Became(v) == IF v = r THEN [recipe[v] EXCEPT !.approved = TRUE, !.current = TRUE]
                     ELSE IF v \in others THEN [recipe[v] EXCEPT !.current = FALSE]
                     ELSE recipe[v]
<1>1. Exists(r) /\ recipe' = [v \in Recipes |-> Became(v)] /\ UNCHANGED steps
  BY DEF Approve
<1>2. ASSUME NEW v \in Recipes
      PROVE  /\ recipe'[v] \in RecipeRow
             /\ recipe'[v].root = recipe[v].root /\ recipe'[v].version = recipe[v].version
             /\ recipe'[v].current = IF v = r THEN TRUE ELSE IF v \in others THEN FALSE ELSE recipe[v].current
             /\ v # r => recipe'[v].approved = recipe[v].approved
  <2>1. recipe[v] \in RecipeRow /\ recipe'[v] = Became(v)
    BY <1>1 DEF RecipesTyped
  <2> HIDE DEF others
  <2>2. CASE v = r
    BY <2>1, <2>2 DEF RecipeRow
  <2>3. CASE v # r /\ v \in others
    BY <2>1, <2>3 DEF RecipeRow
  <2>4. CASE v # r /\ v \notin others
    BY <2>1, <2>4
  <2> QED BY <2>2, <2>3, <2>4
<1>3. RecipesTyped'
  <2>1. recipe' \in [Recipes -> RecipeRow]
    <3>1. recipe' = [v \in Recipes |-> recipe'[v]]
      BY <1>1
    <3> QED BY <1>2, <3>1
  <2> QED BY <1>1, <2>1 DEF RecipesTyped
<1>4. \A v \in Recipes : Exists(v)' = Exists(v) /\ Root(v)' = Root(v)
  BY <1>2, FamilyKept
<1>5. \A v \in Recipes : v \in others <=> recipe[r].root # "none" /\ Exists(v) /\ Root(v) = Root(r) /\ v # r
  BY DEF Family
<1> HIDE DEF others, Became
<1>6. ASSUME NEW v \in Recipes PROVE Rooted(v)'
  <2>1. Rooted(v) /\ recipe[v].root \in Recipes \cup {"none"}
    BY DEF VersionInv, RecipesTyped, RecipeRow
  <2>2. recipe'[v].root = recipe[v].root
    BY <1>2
  <2>3. recipe[v].root # "none" =>
          /\ recipe[v].root # v /\ Exists(v)'
          /\ Exists(recipe[v].root)' /\ recipe'[recipe[v].root].root = "none"
    BY <1>2, <1>4, <2>1 DEF Rooted
  <2>4. ~Exists(v) => ~recipe'[v].approved /\ ~recipe'[v].current
    BY <1>1, <1>2, <2>1 DEF Rooted
  <2> QED BY <1>4, <2>2, <2>3, <2>4 DEF Rooted
<1>7. ASSUME NEW v \in Recipes PROVE SomeInForce(v)'
  <2>1. CASE Exists(v) /\ Root(v) = Root(r)
    BY <1>1, <1>2, <1>4, <2>1 DEF SomeInForce
  <2>2. ASSUME Exists(v), Root(v) # Root(r) PROVE SomeInForce(v)'
    <3>1. PICK x \in Recipes : Exists(x) /\ Root(x) = Root(v) /\ recipe[x].current
      BY <2>2 DEF VersionInv, SomeInForce
    <3>2. x # r /\ x \notin others
      BY <1>5, <2>2, <3>1
    <3>3. recipe'[x].current
      BY <1>2, <3>1, <3>2
    <3> QED BY <1>4, <3>1, <3>3 DEF SomeInForce
  <2>3. CASE ~Exists(v)
    BY <1>4, <2>3 DEF SomeInForce
  <2> QED BY <2>1, <2>2, <2>3
<1>8. ASSUME NEW v \in Recipes, NEW x \in Recipes PROVE OneNumber(v, x)'
  <2>1. OneNumber(v, x)
    BY DEF VersionInv
  <2> QED BY <1>2, <1>4, <2>1 DEF OneNumber
<1>9. ASSUME NEW v \in Recipes, NEW x \in Recipes PROVE OneInForce(v, x)'
  <2>1. OneInForce(v, x)
    BY DEF VersionInv
  <2>2. SUFFICES ASSUME Exists(v), Exists(x), Root(v) = Root(x),
                        recipe'[v].current, recipe'[x].current,
                        recipe[v].root # "none", recipe[x].root # "none"
                 PROVE  v = x
    BY <1>2, <1>4 DEF OneInForce
  <2>3. (v \notin others /\ x \notin others) \/ v = r \/ x = r
    BY <1>2, <2>2
  <2>4. CASE v # r /\ x # r
    BY <1>2, <2>1, <2>2, <2>3, <2>4 DEF OneInForce
  <2>5. CASE v = r
    BY <1>2, <1>5, <2>2, <2>5
  <2>6. CASE x = r
    BY <1>2, <1>5, <2>2, <2>6
  <2> QED BY <2>4, <2>5, <2>6
<1> QED BY <1>1, <1>3, <1>6, <1>7, <1>8, <1>9 DEF VersionInv

(* The rows of from go where Put says, in the order they had, and more joins them. *)
Rearranged(from, Put, more) == {Put[s] : s \in from} \cup {more}

Rearranges(rows, from, Put, more) ==
  /\ rows \in SUBSET StepRow /\ Apart(rows) /\ from \in SUBSET rows
  /\ \A s \in from : Put[s] \in StepRow /\ Put[s].id = s.id /\ Put[s].gone = s.gone
  /\ \A s, t \in from : s.number < t.number => Put[s].number < Put[t].number
  /\ more \in StepRow
  /\ \A s \in from : Put[s].number # more.number /\ Put[s].id # more.id

(* Rows that move without passing one another stay apart and in order.     *)
LEMMA MovedRows ==
  ASSUME NEW rows, NEW from, NEW Put, NEW more, Rearranges(rows, from, Put, more)
  PROVE  /\ Rearranged(from, Put, more) \in SUBSET StepRow /\ Apart(Rearranged(from, Put, more))
         /\ more.gone \/ (\A s \in rows : s.id # more.id)
              => SameOrder(rows, Rearranged(from, Put, more))
<1> DEFINE moved == Rearranged(from, Put, more)
<1> USE DEF Rearranges
<1>0. moved = {Put[s] : s \in from} \cup {more}
  BY DEF Rearranged
<1> HIDE DEF moved
<1>1. \A s \in rows : s \in StepRow /\ s.number \in Int
  BY DEF StepRow
<1>2. \A s \in from : s \in rows /\ Put[s] \in StepRow /\ Put[s].number \in Int
  BY DEF StepRow
<1>3. moved \in SUBSET StepRow
  BY <1>0, <1>2
<1>4. ASSUME NEW s \in from, NEW t \in from, s # t PROVE Put[s].number # Put[t].number /\ Put[s].id # Put[t].id
  <2>1. s.number # t.number /\ s.id # t.id
    BY <1>2, <1>4 DEF Apart
  <2>2. s.number < t.number \/ t.number < s.number
    BY <1>1, <2>1
  <2>3. Put[s].number < Put[t].number \/ Put[t].number < Put[s].number
    BY <2>2
  <2> QED BY <1>2, <2>1, <2>3
<1>5. Apart(moved)
  BY <1>0, <1>4 DEF Apart
<1>6. ASSUME more.gone \/ (\A s \in rows : s.id # more.id),
             NEW s \in Present(rows), NEW t \in Present(rows),
             NEW u \in Present(moved), NEW v \in Present(moved),
             s.id = u.id, t.id = v.id, s.number < t.number
      PROVE  u.number < v.number
  <2>1. s \in rows /\ t \in rows /\ u # more /\ v # more
    BY <1>6 DEF Present
  <2>2. PICK x \in from : u = Put[x]
    BY <1>0, <2>1 DEF Present
  <2>3. PICK y \in from : v = Put[y]
    BY <1>0, <2>1 DEF Present
  <2>4. x = s /\ y = t
    BY <1>2, <1>6, <2>1, <2>2, <2>3 DEF Apart
  <2> QED BY <1>6, <2>2, <2>3, <2>4
<1>7. more.gone \/ (\A s \in rows : s.id # more.id) => SameOrder(rows, moved)
  BY <1>6 DEF SameOrder
<1> QED BY <1>3, <1>5, <1>7 DEF moved

(* Only the rows of one recipe that exists have changed.                   *)
LEMMA StepsOfOne ==
  ASSUME RecipesInv, NEW r \in Recipes, Edits(r), NEW rows \in SUBSET StepRow, Apart(rows),
         steps' = [steps EXCEPT ![r] = rows],
         Ids(Present(rows)) # Ids(Present(steps[r])) => SameOrder(steps[r], rows)
  PROVE  RecipesTyped' /\ StepInv' /\ UNCHANGED recipe /\ \A v \in Recipes : OrderKept(v)
<1>1. UNCHANGED recipe /\ Exists(r)
  BY DEF Edits
<1>2. steps'[r] = rows /\ \A v \in Recipes \ {r} : steps'[v] = steps[v]
  BY DEF RecipesInv, RecipesTyped
<1>3. RecipesTyped'
  BY <1>1 DEF RecipesInv, RecipesTyped
<1>4. \A v \in Recipes : Exists(v)' = Exists(v)
  BY <1>1 DEF Exists
<1>5. StepInv'
  BY <1>1, <1>2, <1>4 DEF RecipesInv, StepInv
<1>6. \A v \in Recipes : OrderKept(v)
  BY <1>2 DEF OrderKept
<1> QED BY <1>1, <1>3, <1>5, <1>6

LEMMA AddingStep ==
  ASSUME RecipesInv, NEW r \in Recipes, NEW id \in StepIds, NEW n \in Positions,
         AddStep(r, id, n)
  PROVE  RecipesTyped' /\ StepInv' /\ UNCHANGED recipe /\ \A v \in Recipes : OrderKept(v)
<1> USE RecipesAssumption
<1> DEFINE rows == steps[r]
           new == [id |-> id, number |-> n, gone |-> FALSE]
           Up(s) == n \in Numbers(rows) /\ s.number >= n
           Put == [s \in rows |-> IF Up(s) THEN [s EXCEPT !.number = s.number + 1] ELSE s]
           moved == {Put[s] : s \in rows} \cup {new}
<1>1. /\ Edits(r) /\ id \notin Ids(rows)
      /\ steps' = [steps EXCEPT ![r] = moved]
  <2>1. (IF n \in Numbers(rows) THEN Shifted(rows, n, 1) ELSE rows) = {Put[s] : s \in rows}
    BY DEF Shifted
  <2> QED BY <2>1 DEF AddStep
<1>2. rows \in SUBSET StepRow /\ n \in Int /\ new \in StepRow /\ Apart(rows)
  BY DEF RecipesInv, RecipesTyped, StepInv, StepRow
<1>3. ASSUME NEW s \in rows
      PROVE  /\ Put[s] \in StepRow /\ Put[s].id = s.id /\ Put[s].gone = s.gone
             /\ Put[s].number = IF Up(s) THEN s.number + 1 ELSE s.number
             /\ s.number \in Int
  <2>1. s \in StepRow
    BY <1>2
  <2> QED BY <2>1 DEF StepRow
<1>4. Put \in [rows -> StepRow]
  BY <1>3
<1>5. \A s \in rows : s.number # n \/ n \in Numbers(rows)
  BY DEF Numbers
<1>6. new.id = id /\ new.number = n
  OBVIOUS
<1> HIDE DEF Put, new, moved
<1>7. \A s, t \in rows : s.number < t.number => Put[s].number < Put[t].number
  BY <1>2, <1>3
<1>8. \A s \in rows : s.id # new.id /\ Put[s].number # new.number /\ Put[s].id # new.id
  BY <1>1, <1>2, <1>3, <1>5, <1>6 DEF Ids
<1>9. moved \in SUBSET StepRow /\ Apart(moved) /\ SameOrder(rows, moved)
  <2>1. Rearranges(rows, rows, Put, new)
    BY <1>2, <1>3, <1>7, <1>8 DEF Rearranges
  <2>2. moved = Rearranged(rows, Put, new)
    BY DEF moved, Rearranged
  <2> HIDE DEF rows
  <2> QED BY <1>8, <2>1, <2>2, MovedRows
<1> QED BY <1>1, <1>9, StepsOfOne

LEMMA RemovingStep ==
  ASSUME RecipesInv, NEW r \in Recipes, NEW s \in steps[r], RemoveStep(r, s)
  PROVE  RecipesTyped' /\ StepInv' /\ UNCHANGED recipe /\ \A v \in Recipes : OrderKept(v)
<1> DEFINE rows == steps[r]
           rest == rows \ {s}
           old == [s EXCEPT !.gone = TRUE]
           n == s.number
           Put == [x \in rest |->
                     IF x.number >= n + 1 THEN [x EXCEPT !.number = x.number + -1] ELSE x]
           moved == {Put[x] : x \in rest} \cup {old}
<1>1. /\ Edits(r) /\ n + 1 \notin Numbers(rows)
      /\ steps' = [steps EXCEPT ![r] = moved]
  <2>1. Shifted(rest, n + 1, -1) = {Put[x] : x \in rest}
    BY DEF Shifted
  <2> QED BY <2>1 DEF RemoveStep
<1>2. rows \in SUBSET StepRow /\ Apart(rows) /\ s \in StepRow
  BY DEF RecipesInv, RecipesTyped, StepInv
<1>3. n \in Int /\ old \in StepRow /\ old.gone /\ old.id = s.id /\ old.number = n
  BY <1>2 DEF StepRow
<1>4. ASSUME NEW x \in rest
      PROVE  /\ Put[x] \in StepRow /\ Put[x].id = x.id /\ Put[x].gone = x.gone
             /\ Put[x].number = IF x.number >= n + 1 THEN x.number - 1 ELSE x.number
             /\ x.number \in Int /\ x.number # n /\ x.number # n + 1 /\ x.id # s.id
  <2>1. x \in StepRow
    BY <1>2
  <2>2. x.number # n /\ x.id # s.id
    BY <1>2 DEF Apart
  <2>3. x.number # n + 1
    BY <1>1 DEF Numbers
  <2> QED BY <1>3, <2>1, <2>2, <2>3 DEF StepRow
<1>5. Put \in [rest -> StepRow] /\ rest \in SUBSET rows
  BY <1>4
<1> HIDE DEF Put, old, n, rest, moved
<1>6. \A x, y \in rest : x.number < y.number => Put[x].number < Put[y].number
  BY <1>3, <1>4
<1>7. \A x \in rest : Put[x].number # old.number /\ Put[x].id # old.id
  BY <1>3, <1>4
<1>8. moved \in SUBSET StepRow /\ Apart(moved) /\ SameOrder(rows, moved)
  <2>1. Rearranges(rows, rest, Put, old)
    BY <1>2, <1>3, <1>4, <1>5, <1>6, <1>7 DEF Rearranges
  <2>2. moved = Rearranged(rest, Put, old)
    BY DEF moved, Rearranged
  <2> HIDE DEF rows
  <2> QED BY <1>3, <2>1, <2>2, MovedRows
<1> QED BY <1>1, <1>8, StepsOfOne

LEMMA ReorderingSteps ==
  ASSUME RecipesInv, NEW r \in Recipes, NEW listed \in SUBSET steps[r],
         NEW position \in [listed -> Positions \ {0}], Reorder(r, position)
  PROVE  RecipesTyped' /\ StepInv' /\ UNCHANGED recipe /\ \A v \in Recipes : OrderKept(v)
<1> DEFINE rows == steps[r]
           Put(s) == IF s \in listed THEN [s EXCEPT !.number = position[s]] ELSE s
           moved == {Put(s) : s \in rows}
<1>0. \A s \in listed : position[s] \in Int
  <2>1. Positions \subseteq Nat
    BY RecipesAssumption
  <2>2. \A s \in listed : position[s] \in Positions
    OBVIOUS
  <2>3. \A n \in Positions : n \in Int
    BY <2>1
  <2> QED BY Zenon, <2>2, <2>3
<1>1. /\ Edits(r) /\ steps' = [steps EXCEPT ![r] = moved]
      /\ \A s, t \in listed : position[s] = position[t] => s = t
      /\ \A s \in listed, t \in rows :
           t # s /\ t.number = position[s] /\ s.number # position[s] => t \in listed
  BY DEF Reorder, Vacant, IsInjective
<1>2. rows \in SUBSET StepRow /\ Apart(rows)
  BY DEF RecipesInv, RecipesTyped, StepInv
<1>3. ASSUME NEW s \in rows
      PROVE  /\ Put(s) \in StepRow /\ Put(s).id = s.id /\ Put(s).gone = s.gone
             /\ Put(s).number = IF s \in listed THEN position[s] ELSE s.number
  <2>1. s \in StepRow
    BY <1>2
  <2>2. s \in listed => position[s] \in Int
    BY <1>0
  <2> QED BY <2>1, <2>2 DEF StepRow
<1> HIDE DEF Put
<1>4. ASSUME NEW s \in rows, NEW t \in rows, s # t
      PROVE  Put(s).number # Put(t).number /\ Put(s).id # Put(t).id
  <2>1. s.number # t.number /\ s.id # t.id
    BY <1>2, <1>4 DEF Apart
  <2>2. CASE s \in listed /\ t \in listed
    BY <1>1, <1>3, <1>4, <2>1, <2>2
  <2>3. CASE s \in listed /\ t \notin listed
    BY <1>1, <1>3, <1>4, <2>1, <2>3
  <2>4. CASE s \notin listed /\ t \in listed
    BY <1>1, <1>3, <1>4, <2>1, <2>4
  <2>5. CASE s \notin listed /\ t \notin listed
    BY <1>3, <2>1, <2>5
  <2> QED BY <2>2, <2>3, <2>4, <2>5
<1>5. moved \in SUBSET StepRow
  BY <1>3
<1>6. Apart(moved)
  BY <1>4 DEF Apart
<1>7. Ids(Present(moved)) = Ids(Present(rows))
  <2>1. ASSUME NEW i \in Ids(Present(moved)) PROVE i \in Ids(Present(rows))
    <3>1. PICK s \in rows : i = Put(s).id /\ ~Put(s).gone
      BY DEF Ids, Present
    <3> QED BY <1>3, <3>1 DEF Ids, Present
  <2>2. ASSUME NEW i \in Ids(Present(rows)) PROVE i \in Ids(Present(moved))
    <3>1. PICK s \in rows : i = s.id /\ ~s.gone
      BY DEF Ids, Present
    <3>2. Put(s) \in moved /\ ~Put(s).gone /\ Put(s).id = i
      BY <1>3, <3>1
    <3> HIDE DEF moved
    <3> QED BY <3>2 DEF Ids, Present
  <2> QED BY <2>1, <2>2
<1> HIDE DEF moved
<1> QED BY <1>1, <1>5, <1>6, <1>7, StepsOfOne

LEMMA NewVersioning ==
  ASSUME RecipesInv, NEW r \in Recipes, Exists(r), NEW new \in Recipes, NEW major \in Majors \cup {0},
         NewVersion(r, new, major)
  PROVE  RecipesInv' /\ \A v \in Recipes : OrderKept(v)
<1> DEFINE row == [root |-> Root(r), version |-> NextVersion(r), major |-> major,
                   current |-> FALSE, approved |-> FALSE, active |-> TRUE]
<1>1. /\ ~Exists(new) /\ recipe' = [recipe EXCEPT ![new] = row]
      /\ steps' = [steps EXCEPT ![new] = Present(steps[r])]
  BY DEF NewVersion
<1>2. /\ Root(r) \in Recipes /\ Exists(Root(r)) /\ Root(Root(r)) = Root(r)
      /\ recipe[Root(r)].root = "none"
  BY RootIsThere DEF RecipesInv
<1>3. /\ NextVersion(r) \in Nat \ {0}
      /\ \A v \in Recipes : Exists(v) /\ Root(v) = Root(r) => NextVersion(r) > recipe[v].version
  BY NextIsNew DEF RecipesInv
<1>4. row \in RecipeRow
  BY <1>2, <1>3 DEF RecipeRow
<1>5. row.root = Root(r) /\ row.version = NextVersion(r) /\ ~row.approved /\ ~row.current
  OBVIOUS
<1> HIDE DEF row
<1>6. VersionInv'
  <2>1. row.version > 0
    BY <1>3, <1>5
  <2> QED BY <1>1, <1>2, <1>3, <1>4, <1>5, <2>1, VersionAdded DEF RecipesInv
<1>7. Present(steps[r]) \in SUBSET StepRow /\ Apart(Present(steps[r]))
  BY DEF RecipesInv, RecipesTyped, StepInv, Apart, Present
<1>8. RecipesTyped'
  BY <1>1, <1>4, <1>7 DEF RecipesInv, RecipesTyped
<1>9. /\ steps'[new] = Present(steps[r]) /\ steps[new] = {}
      /\ \A v \in Recipes \ {new} : steps'[v] = steps[v] /\ recipe'[v] = recipe[v]
      /\ Exists(new)'
  <2>1. recipe'[new] = row /\ row.version > 0
    BY <1>1, <1>3, <1>5 DEF RecipesInv, RecipesTyped
  <2> QED BY <1>1, <2>1 DEF RecipesInv, RecipesTyped, StepInv, Exists
<1>10. StepInv'
  BY <1>7, <1>9 DEF RecipesInv, StepInv, Exists
<1>11. ASSUME NEW v \in Recipes PROVE OrderKept(v)
  <2>1. CASE v = new
    BY <1>9, <2>1 DEF OrderKept, SameOrder, Present
  <2>2. CASE v # new
    BY <1>9, <2>2 DEF OrderKept
  <2> QED BY <2>1, <2>2
<1> QED BY <1>6, <1>8, <1>10, <1>11 DEF RecipesInv

LEMMA CreatingRecipe ==
  ASSUME RecipesInv, NEW r \in Recipes, NEW major \in Majors, CreateRecipe(r, major)
  PROVE  RecipesInv'
<1> DEFINE row == [root |-> "none", version |-> 1, major |-> major,
                   current |-> TRUE, approved |-> FALSE, active |-> TRUE]
<1>1. ~Exists(r) /\ recipe' = [recipe EXCEPT ![r] = row] /\ UNCHANGED steps
  BY DEF CreateRecipe
<1>2. row \in RecipeRow
  BY DEF RecipeRow
<1>3. row.root = "none" /\ row.version > 0 /\ ~row.approved /\ row.current
  OBVIOUS
<1> HIDE DEF row
<1>4. VersionInv'
  BY <1>1, <1>2, <1>3, VersionAdded DEF RecipesInv
<1>5. RecipesTyped'
  BY <1>1, <1>2 DEF RecipesInv, RecipesTyped
<1>6. ASSUME NEW v \in Recipes, ~Exists(v)' PROVE ~Exists(v)
  <2>1. recipe'[r] = row /\ \A x \in Recipes \ {r} : recipe'[x] = recipe[x]
    BY <1>1 DEF RecipesInv, RecipesTyped
  <2> QED BY <1>3, <1>6, <2>1 DEF Exists
<1>7. StepInv'
  BY <1>1, <1>6 DEF RecipesInv, StepInv
<1> QED BY <1>4, <1>5, <1>7 DEF RecipesInv

LEMMA EditingRecipe ==
  ASSUME RecipesInv, NEW r \in Recipes, UNCHANGED steps,
         \/ \E major \in Majors : recipe' = [recipe EXCEPT ![r].major = major]
         \/ \E active \in BOOLEAN : recipe' = [recipe EXCEPT ![r].active = active]
  PROVE  RecipesInv'
<1>1. recipe \in [Recipes -> RecipeRow]
  BY DEF RecipesInv, RecipesTyped
<1>2. recipe' \in [Recipes -> RecipeRow]
  BY <1>1 DEF RecipeRow
<1>3. \A v \in Recipes :
        /\ recipe'[v].root = recipe[v].root /\ recipe'[v].version = recipe[v].version
        /\ recipe'[v].current = recipe[v].current
        /\ recipe'[v].approved = recipe[v].approved
  BY <1>1 DEF RecipeRow
<1>4. VersionInv'
  BY <1>3, VersionsKept DEF RecipesInv
<1>5. StepInv'
  BY <1>3 DEF RecipesInv, StepInv, Exists
<1> QED BY <1>2, <1>4, <1>5 DEF RecipesInv, RecipesTyped

LEMMA RecipesStep ==
  ASSUME RecipesInv, [RecipesNext]_recipes
  PROVE  RecipesInv'
<1> USE DEF RecipesInv
<1>1. CASE UNCHANGED recipes
  <2>1. UNCHANGED <<recipe, steps>>
    BY <1>1 DEF recipes
  <2>2. VersionInv'
    BY <2>1, VersionsKept
  <2> QED BY <2>1, <2>2 DEF RecipesTyped, StepInv, Exists
<1>2. ASSUME NEW r \in Recipes, NEW major \in Majors,
             CreateRecipe(r, major)
      PROVE RecipesInv'
  BY <1>2, CreatingRecipe
<1>3. ASSUME NEW r \in Recipes, NEW major \in Majors, NEW new \in Recipes,
             UpdateRecipe(r, new, major)
      PROVE RecipesInv'
  BY <1>3, NewVersioning, EditingRecipe DEF UpdateRecipe, Edited
<1>4. ASSUME NEW r \in Recipes, NEW new \in Recipes, AskNewVersion(r, new)
      PROVE RecipesInv'
  <2>1. recipe[r].major \in Majors \cup {0}
    BY DEF RecipesTyped, RecipeRow
  <2> QED BY <1>4, <2>1, NewVersioning DEF AskNewVersion
<1>5. ASSUME NEW r \in Recipes, Approve(r) PROVE RecipesInv'
  <2>1. /\ steps' = steps /\ RecipesTyped' /\ VersionInv'
    BY <1>5, Approving
  <2>2. \A v \in Recipes : Exists(v)' = Exists(v)
    BY <1>5 DEF Approve, Exists, RecipesTyped, RecipeRow
  <2> QED BY <2>1, <2>2 DEF StepInv
<1>6. ASSUME NEW r \in Recipes, NEW active \in BOOLEAN, SetActive(r, active)
      PROVE RecipesInv'
  BY <1>6, EditingRecipe DEF SetActive
<1>7. ASSUME UNCHANGED recipe, UNCHANGED steps PROVE RecipesInv'
  <2>1. VersionInv'
    BY <1>7, VersionsKept
  <2> QED BY <1>7, <2>1 DEF RecipesTyped, StepInv, Exists
<1>8. ASSUME NEW r \in Recipes, NEW i \in Ingredients, AddIngredient(r, i) PROVE RecipesInv'
  BY <1>7, <1>8 DEF AddIngredient, Edits
<1>9. ASSUME NEW r \in Recipes, NEW l \in lines[r], RemoveIngredient(r, l) PROVE RecipesInv'
  BY <1>7, <1>9 DEF RemoveIngredient, Edits
<1>10. ASSUME NEW r \in Recipes, NEW id \in StepIds, NEW n \in Positions, AddStep(r, id, n)
       PROVE RecipesInv'
  <2>1. RecipesTyped' /\ StepInv' /\ UNCHANGED recipe
    BY <1>10, AddingStep
  <2>2. VersionInv'
    BY <2>1, VersionsKept
  <2> QED BY <2>1, <2>2
<1>11. ASSUME NEW r \in Recipes, NEW s \in steps[r], RemoveStep(r, s) PROVE RecipesInv'
  <2>1. RecipesTyped' /\ StepInv' /\ UNCHANGED recipe
    BY <1>11, RemovingStep
  <2>2. VersionInv'
    BY <2>1, VersionsKept
  <2> QED BY <2>1, <2>2
<1>12. ASSUME NEW r \in Recipes, NEW listed \in SUBSET steps[r],
              NEW position \in [listed -> Positions \ {0}], Reorder(r, position)
       PROVE RecipesInv'
  <2>1. RecipesTyped' /\ StepInv' /\ UNCHANGED recipe
    BY <1>12, ReorderingSteps
  <2>2. VersionInv'
    BY <2>1, VersionsKept
  <2> QED BY <2>1, <2>2
<1>13. CASE VersionStep
  BY <1>2, <1>3, <1>4, <1>5, <1>6, <1>13 DEF VersionStep
<1>14. CASE ChildStep
  BY <1>8, <1>9, <1>10, <1>11, <1>12, <1>14 DEF ChildStep
<1> QED BY <1>1, <1>13, <1>14 DEF RecipesNext

LEMMA OrderStays ==
  ASSUME RecipesInv, [RecipesNext]_recipes, NEW v \in Recipes
  PROVE  OrderKept(v)
<1>1. CASE steps' = steps
  BY <1>1 DEF OrderKept
<1>2. ASSUME NEW r \in Recipes, NEW new \in Recipes, NEW major \in Majors \cup {0}, Exists(r),
             NewVersion(r, new, major)
      PROVE  OrderKept(v)
  BY <1>2, NewVersioning
<1>3. ASSUME NEW r \in Recipes, NEW new \in Recipes, AskNewVersion(r, new) PROVE OrderKept(v)
  <2>1. recipe[r].major \in Majors \cup {0}
    BY DEF RecipesInv, RecipesTyped, RecipeRow
  <2> QED BY <1>2, <1>3, <2>1 DEF AskNewVersion
<1>4. ASSUME NEW r \in Recipes, NEW new \in Recipes, NEW major \in Majors,
             UpdateRecipe(r, new, major)
      PROVE  OrderKept(v)
  BY <1>1, <1>2, <1>4 DEF UpdateRecipe, Edited
<1>5. CASE VersionStep
  BY <1>1, <1>3, <1>4, <1>5 DEF VersionStep, CreateRecipe, Approve, SetActive
<1>6. CASE ChildStep
  BY <1>1, <1>6, AddingStep, RemovingStep, ReorderingSteps
  DEF ChildStep, AddIngredient, RemoveIngredient
<1>7. CASE UNCHANGED recipes
  BY <1>1, <1>7 DEF recipes
<1> QED BY <1>5, <1>6, <1>7 DEF RecipesNext

(* What was approved stays so, with its major fields.                      *)
LEMMA ApprovedStays ==
  ASSUME RecipesInv, [RecipesNext]_recipes, NEW v \in Recipes, recipe[v].approved
  PROVE  recipe'[v].approved /\ recipe'[v].major = recipe[v].major
<1>1. recipe \in [Recipes -> RecipeRow] /\ Exists(v)
  BY DEF RecipesInv, RecipesTyped, VersionInv, Rooted
<1>2. ASSUME NEW new \in Recipes, ~Exists(new), NEW row, recipe' = [recipe EXCEPT ![new] = row]
      PROVE  recipe'[v] = recipe[v]
  BY <1>1, <1>2
<1>3. ASSUME NEW r \in Recipes, NEW new \in Recipes, NEW major, NewVersion(r, new, major)
      PROVE  recipe'[v] = recipe[v]
  BY <1>2, <1>3 DEF NewVersion
<1>4. ASSUME NEW r \in Recipes, NEW major \in Majors, CreateRecipe(r, major)
      PROVE recipe'[v] = recipe[v]
  BY <1>2, <1>4 DEF CreateRecipe
<1>5. ASSUME NEW r \in Recipes, NEW major \in Majors, ~recipe[r].approved, Edited(r, major)
      PROVE recipe'[v] = recipe[v]
  BY <1>1, <1>5 DEF Edited
<1>6. ASSUME NEW r \in Recipes, NEW major \in Majors, NEW new \in Recipes,
             UpdateRecipe(r, new, major)
      PROVE recipe'[v] = recipe[v]
  BY <1>3, <1>5, <1>6 DEF UpdateRecipe
<1>7. ASSUME NEW r \in Recipes, NEW new \in Recipes, AskNewVersion(r, new)
      PROVE recipe'[v] = recipe[v]
  BY <1>3, <1>7 DEF AskNewVersion
<1>8. ASSUME NEW r \in Recipes, Approve(r)
      PROVE recipe'[v].approved /\ recipe'[v].major = recipe[v].major
  <2> DEFINE others == IF recipe[r].root = "none" THEN {} ELSE Family(r) \ {r}
  <2>1. recipe'[v] = IF v = r THEN [recipe[v] EXCEPT !.approved = TRUE, !.current = TRUE]
                     ELSE IF v \in others THEN [recipe[v] EXCEPT !.current = FALSE]
                     ELSE recipe[v]
    BY <1>8 DEF Approve
  <2> HIDE DEF others
  <2>2. recipe[v] \in RecipeRow
    BY <1>1
  <2> QED BY <2>1, <2>2 DEF RecipeRow
<1>9. ASSUME NEW r \in Recipes, NEW active \in BOOLEAN, SetActive(r, active)
      PROVE recipe'[v].approved /\ recipe'[v].major = recipe[v].major
  <2>1. recipe[v] \in RecipeRow /\ recipe' = [recipe EXCEPT ![r].active = active]
    BY <1>1, <1>9 DEF SetActive
  <2> QED BY <1>1, <2>1 DEF RecipeRow
<1>10. CASE ChildStep
  <2>1. UNCHANGED recipe
    BY <1>10 DEF ChildStep, AddIngredient, RemoveIngredient, AddStep, RemoveStep, Reorder, Edits
  <2> QED BY <2>1
<1>11. CASE VersionStep
  BY <1>4, <1>6, <1>7, <1>8, <1>9, <1>11 DEF VersionStep
<1>12. CASE UNCHANGED recipes
  BY <1>12 DEF recipes
<1> QED BY <1>10, <1>11, <1>12 DEF RecipesNext

(* At most one: no two are different.                                      *)
LEMMA AtMostOne ==
  ASSUME NEW S, \A x, y \in S : x = y
  PROVE  Cardinality(S) <= 1
<1>1. CASE S = {}
  BY <1>1, FS_EmptySet
<1>2. CASE S # {}
  <2>1. PICK x \in S : TRUE
    BY <1>2
  <2>2. S = {x}
    BY <2>1
  <2> QED BY <2>2, FS_Singleton
<1> QED BY <1>1, <1>2

LEMMA RecipesRight ==
  ASSUME RecipesInv
  PROVE  VersionsOrdered /\ StepsApart
<1>1. ASSUME NEW r \in Recipes, Exists(r)
      PROVE  /\ \A v \in Family(r) : recipe[v].version = recipe[r].version => v = r
             /\ \E v \in Family(r) : recipe[v].current
             /\ Cardinality({v \in Family(r) : recipe[v].current /\ v # Root(r)}) <= 1
  <2> DEFINE later == {v \in Family(r) : recipe[v].current /\ v # Root(r)}
  <2>1. \A v \in Family(r) : v \in Recipes /\ Exists(v) /\ Root(v) = Root(r)
    BY DEF Family
  <2>2. \A v \in Family(r) : recipe[v].version = recipe[r].version => v = r
    BY <1>1, <2>1 DEF RecipesInv, VersionInv, OneNumber
  <2>3. \E v \in Family(r) : recipe[v].current
    BY <1>1 DEF RecipesInv, VersionInv, SomeInForce, Family
  <2>4. \A v \in later : recipe[v].root # "none"
    BY <2>1 DEF Root
  <2>5. \A v, x \in later : v = x
    BY <2>1, <2>4 DEF RecipesInv, VersionInv, OneInForce
  <2>7. Cardinality(later) <= 1
    <3> HIDE DEF later
    <3> QED BY <2>5, AtMostOne
  <2> QED BY <2>2, <2>3, <2>7
<1>2. StepsApart
  BY DEF RecipesInv, StepInv, Apart, StepsApart
<1> QED BY <1>1, <1>2 DEF VersionsOrdered

(* Whichever version an edit or an approval starts from, the versions of a *)
(* recipe have numbers of their own, one of them at least is in force, and *)
(* of those after the first at most one (catalog.py:520, 640); what was    *)
(* approved stays so with its major fields (catalog.py:502); steps never   *)
(* meet at a number, and one added or removed leaves the others in their   *)
(* order (steps.py:53-62, 118-125).                                        *)
THEOREM RecipesStayOrdered == RecipesSpec => RecipesHold
<1>1. RecipesInit => RecipesInv
  <2> SUFFICES ASSUME RecipesInit PROVE RecipesInv
    OBVIOUS
  <2>1. /\ \A r \in Recipes : recipe[r] = NoRecipe /\ steps[r] = {}
        /\ recipe = [r \in Recipes |-> NoRecipe] /\ steps = [r \in Recipes |-> {}]
    BY DEF RecipesInit
  <2>2. NoRecipe \in RecipeRow
    BY DEF NoRecipe, RecipeRow
  <2>3. \A r \in Recipes : ~Exists(r) /\ recipe[r].root = "none" /\ ~recipe[r].approved /\ ~recipe[r].current
    BY <2>1 DEF Exists, NoRecipe
  <2>4. VersionInv
    BY <2>3 DEF VersionInv, Rooted, SomeInForce, OneNumber, OneInForce
  <2>6. StepInv
    BY <2>1 DEF StepInv, Apart
  <2> QED BY <2>1, <2>2, <2>4, <2>6 DEF RecipesInv, RecipesTyped
<1>2. RecipesInv /\ [RecipesNext]_recipes => RecipesInv'
  BY RecipesStep
<1>3. RecipesInv /\ RecipesInv' /\ [RecipesNext]_recipes =>
        [/\ VersionsOrdered' /\ StepsApart'
         /\ \A r \in Recipes :
              /\ recipe[r].approved =>
                   recipe'[r].approved /\ recipe'[r].major = recipe[r].major
              /\ Ids(Present(steps'[r])) # Ids(Present(steps[r])) =>
                   SameOrder(steps[r], steps'[r])
        ]_recipes
  <2> SUFFICES ASSUME RecipesInv, RecipesInv', [RecipesNext]_recipes
               PROVE  /\ VersionsOrdered' /\ StepsApart'
                      /\ \A r \in Recipes :
                           /\ recipe[r].approved =>
                                recipe'[r].approved /\ recipe'[r].major = recipe[r].major
                           /\ Ids(Present(steps'[r])) # Ids(Present(steps[r])) =>
                                SameOrder(steps[r], steps'[r])
    OBVIOUS
  <2>1. (VersionsOrdered /\ StepsApart)'
    BY RecipesRight, PTL
  <2>2. \A r \in Recipes : Ids(Present(steps'[r])) # Ids(Present(steps[r])) =>
                             SameOrder(steps[r], steps'[r])
    BY OrderStays DEF OrderKept
  <2> QED BY <2>1, <2>2, ApprovedStays
<1> QED BY <1>1, <1>2, <1>3, PTL DEF RecipesSpec, RecipesHold

-----------------------------------------------------------------------------
(* The catalogue: its trees and the links between its rows.                *)

CategoryRow == [exists : BOOLEAN, active : BOOLEAN, up : Categories \cup {None}]
PlaceRow == [exists : BOOLEAN, active : BOOLEAN, up : Places \cup {None}, default : BOOLEAN]
UnitRow == [exists : BOOLEAN, active : BOOLEAN, of : Units \cup {None}]
ItemRow == [exists : BOOLEAN, active : BOOLEAN, unit : Units \cup {None},
            category : Categories \cup {None}, moved : BOOLEAN]

CatalogueTyped ==
  /\ category \in [Categories -> CategoryRow] /\ place \in [Places -> PlaceRow]
  /\ unit \in [Units -> UnitRow] /\ item \in [Items -> ItemRow]

(* What is a parent exists, so that a new row has no children.             *)
Tree(row, rows) ==
  /\ \A x \in rows : row[x].up \in Existing(row) \cup {None}
  /\ NoCycle(row)

OneDefault == \A k, l \in Places : place[k].default /\ place[l].default => k = l

OneBase == \A u, v \in BaseUnits : u = v

ItemLinked(i) ==
  /\ item[i].exists => item[i].unit \in Active(unit)
  /\ ~item[i].exists => ~item[i].active /\ ~item[i].moved

CatalogueInv ==
  /\ CatalogueTyped
  /\ Tree(category, Categories) /\ Tree(place, Places)
  /\ \A g \in Categories : category[g].active => category[g].exists
  /\ \A l \in Places : place[l].active => place[l].exists
  /\ OneDefault /\ OneBase
  /\ \A i \in Items : ItemLinked(i)

(* A tree in which neither existence shrinks nor a parent changes.         *)
LEMMA TreeKept ==
  ASSUME NEW row, NEW next, NEW rows, DOMAIN row = rows, DOMAIN next = rows, Tree(row, rows),
         \A x \in rows : next[x].up = row[x].up /\ (row[x].exists => next[x].exists)
  PROVE  Tree(next, rows)
<1>1. \A x \in rows : next[x].up \in Existing(next) \cup {None}
  BY DEF Tree, Existing
<1>2. NoCycle(next)
  BY DEF Tree, NoCycle
<1> QED BY <1>1, <1>2 DEF Tree

(* A new row has no children, and hangs below another.                     *)
LEMMA TreeGrows ==
  ASSUME NEW row, NEW next, NEW rows, DOMAIN row = rows, DOMAIN next = rows, Tree(row, rows),
         None \notin rows,
         NEW x \in rows, ~row[x].exists, next[x].exists,
         next[x].up \in Existing(row) \cup {None},
         \A y \in rows \ {x} : next[y].up = row[y].up /\ (row[y].exists => next[y].exists)
  PROVE  Tree(next, rows)
<1>1. \A y \in rows : row[y].up # x
  BY DEF Tree, Existing
<1>2. \A y \in Existing(row) : y # x /\ y \in Existing(next)
  BY DEF Existing
<1>3. \A y \in rows : next[y].up \in Existing(next) \cup {None}
  BY <1>2 DEF Tree
<1>4. ASSUME NEW X \in SUBSET rows, X # {}, \A y \in X : next[y].up \in X
      PROVE  FALSE
  <2> DEFINE Y == X \ {x}
  <2>1. Y # {}
    <3>1. PICK y \in X : TRUE
      BY <1>4
    <3>2. next[y].up \in X /\ next[y].up # x
      <4>1. CASE y = x
        BY <1>2, <1>4, <4>1
      <4>2. CASE y # x
        BY <1>1, <1>4, <4>2
      <4> QED BY <4>1, <4>2
    <3> QED BY <3>2
  <2>2. \A y \in Y : row[y].up \in Y
    BY <1>1, <1>4
  <2> QED BY <2>1, <2>2 DEF Tree, NoCycle
<1>5. NoCycle(next)
  BY <1>4 DEF NoCycle
<1> QED BY <1>3, <1>5 DEF Tree

(* A row may be moved below one that is not below it.                      *)
LEMMA TreeMoves ==
  ASSUME NEW row, NEW next, NEW rows, DOMAIN row = rows, DOMAIN next = rows, Tree(row, rows),
         None \notin rows,
         NEW x \in rows, row[x].exists, NEW up, MayMove(row, x, up), next[x].up = up,
         \A y \in rows \ {x} : next[y].up = row[y].up,
         \A y \in rows : next[y].exists = row[y].exists
  PROVE  Tree(next, rows)
<1>1. Existing(next) = Existing(row)
  BY DEF Existing
<1>2. \A y \in rows : next[y].up \in Existing(next) \cup {None}
  BY <1>1 DEF Tree, MayMove
<1>3. ASSUME NEW X \in SUBSET rows, X # {}, \A y \in X : next[y].up \in X
      PROVE  FALSE
  <2>1. x \in X
    <3>1. CASE x \notin X
      <4>1. \A y \in X : row[y].up \in X
        BY <1>3, <3>1
      <4> QED BY <1>3, <4>1 DEF Tree, NoCycle
    <3> QED BY <3>1
  <2>2. up \in X /\ up # x /\ ~Below(row, up, x)
    <3>1. up \in X
      BY <1>3, <2>1
    <3> QED BY <3>1 DEF MayMove
  <2>3. PICK S \in SUBSET rows :
          Upward(row, S) /\ row[up].up \in S \cup {None} /\ x \notin S
    BY <2>2 DEF Below
  <2> DEFINE Y == X \cap (S \cup {up})
  <2>4. \A y \in Y : row[y].up \in Y
    <3> TAKE y \in Y
    <3>1. y # x
      BY <2>2, <2>3
    <3>2. row[y].up \in X
      BY <1>3, <3>1
    <3>3. row[y].up \in S \cup {None}
      BY <2>3 DEF Upward
    <3> QED BY <3>2, <3>3
  <2>5. Y # {} /\ Y \in SUBSET rows
    BY <2>2
  <2> HIDE DEF Y
  <2> QED BY <2>4, <2>5 DEF Tree, NoCycle
<1>4. NoCycle(next)
  BY <1>3 DEF NoCycle
<1> QED BY <1>2, <1>4 DEF Tree

-----------------------------------------------------------------------------
(* Categories.  The steps leave everything else but filings as it is.      *)

CategoriesInv ==
  /\ category \in [Categories -> CategoryRow] /\ Tree(category, Categories)
  /\ \A g \in Categories : category[g].active => category[g].exists

(* What a call may do to an item: leave it, or take its category away      *)
(* once that is not active.                                                *)
OrphansAccounted ==
  \A g \in Categories : Orphan(g)' => Orphan(g) \/ category'[g].up # category[g].up

LEMMA CreatingCategory ==
  ASSUME CatalogueInv, NEW g \in Categories, NEW up \in Categories \cup {None},
         CreateCategory(g, up)
  PROVE  CategoriesInv' /\ OrphansAccounted /\ Active(category) \subseteq Active(category')
<1>1. /\ ~category[g].exists /\ up \in Active(category) \cup {None}
      /\ category' = [category EXCEPT ![g] = Node(up)]
  BY DEF CreateCategory, MayAdd
<1>2. category \in [Categories -> CategoryRow] /\ Node(up) \in CategoryRow
  BY DEF CatalogueInv, CatalogueTyped, Node, CategoryRow
<1>3. category' \in [Categories -> CategoryRow]
  BY <1>1, <1>2
<1>4. category'[g] = Node(up) /\ \A y \in Categories \ {g} : category'[y] = category[y]
  BY <1>1, <1>2
<1>5. Node(up).exists /\ Node(up).active /\ Node(up).up = up
  BY DEF Node
<1>6. Active(category) \subseteq Existing(category)
  BY <1>2 DEF CatalogueInv, Active, Existing
<1>7. Tree(category', Categories)
  <2>1. up \in Existing(category) \cup {None} /\ None \notin Categories
    BY <1>1, <1>6, CatalogueAssumption DEF None
  <2>2. DOMAIN category = Categories /\ DOMAIN category' = Categories
    BY <1>2, <1>3
  <2>3. Tree(category, Categories)
    BY DEF CatalogueInv
  <2>4. /\ ~category[g].exists /\ category'[g].exists
        /\ category'[g].up \in Existing(category) \cup {None}
        /\ \A y \in Categories \ {g} : /\ category'[y].up = category[y].up
                                       /\ category[y].exists => category'[y].exists
    BY <1>1, <1>4, <1>5, <2>1
  <2> QED BY <2>1, <2>2, <2>3, <2>4, TreeGrows
<1>8. \A y \in Categories : category'[y].active => category'[y].exists
  BY <1>4, <1>5 DEF CatalogueInv
<1>9. g \notin Active(category)
  BY <1>1 DEF CatalogueInv, Active
<1>10. Active(category) \subseteq Active(category')
  BY <1>2, <1>3, <1>4, <1>9 DEF Active
<1>11. OrphansAccounted
  BY <1>1, <1>4, <1>5, <1>10 DEF OrphansAccounted, Orphan, Filing
<1> QED BY <1>3, <1>7, <1>8, <1>10, <1>11 DEF CategoriesInv

LEMMA UpdatingCategory ==
  ASSUME CatalogueInv, NEW g \in Categories, NEW up \in Categories \cup {None},
         UpdateCategory(g, up)
  PROVE  CategoriesInv' /\ OrphansAccounted /\ Active(category) \subseteq Active(category')
<1>1. /\ category[g].exists /\ MayMove(category, g, up)
      /\ category' = [category EXCEPT ![g].up = up]
  BY DEF UpdateCategory, Existing
<1>2. category \in [Categories -> CategoryRow]
  BY DEF CatalogueInv, CatalogueTyped
<1>3. category' \in [Categories -> CategoryRow]
  BY <1>1, <1>2 DEF CategoryRow
<1>4. /\ \A y \in Categories : /\ category'[y].exists = category[y].exists
                               /\ category'[y].active = category[y].active
      /\ category'[g].up = up
      /\ \A y \in Categories \ {g} : category'[y].up = category[y].up
  BY <1>1, <1>2 DEF CategoryRow
<1>5. Tree(category', Categories)
  <2>1. DOMAIN category = Categories /\ DOMAIN category' = Categories
    BY <1>2, <1>3
  <2>2. Tree(category, Categories) /\ None \notin Categories
    BY CatalogueAssumption DEF CatalogueInv, None
  <2> QED BY <1>1, <1>4, <2>1, <2>2, TreeMoves
<1>6. Active(category') = Active(category)
  BY <1>2, <1>3, <1>4 DEF Active
<1>7. OrphansAccounted
  BY <1>4, <1>6 DEF OrphansAccounted, Orphan, Filing
<1>8. \A y \in Categories : category'[y].active => category'[y].exists
  BY <1>4 DEF CatalogueInv
<1> QED BY <1>3, <1>5, <1>6, <1>7, <1>8 DEF CategoriesInv

LEMMA ActivatingCategory ==
  ASSUME CatalogueInv, NEW g \in Categories, ActivateCategory(g)
  PROVE  CategoriesInv' /\ OrphansAccounted /\ Active(category) \subseteq Active(category')
<1>1. /\ category[g].exists /\ category[g].up \in Active(category) \cup {None}
      /\ category' = [category EXCEPT ![g].active = TRUE]
  BY DEF ActivateCategory, MayActivate, Existing
<1>2. category \in [Categories -> CategoryRow]
  BY DEF CatalogueInv, CatalogueTyped
<1>3. category' \in [Categories -> CategoryRow]
  BY <1>1, <1>2 DEF CategoryRow
<1>4. /\ \A y \in Categories : /\ category'[y].exists = category[y].exists
                               /\ category'[y].up = category[y].up
                               /\ category[y].active => category'[y].active
      /\ \A y \in Categories \ {g} : category'[y].active = category[y].active
  BY <1>1, <1>2 DEF CategoryRow
<1>5. Tree(category', Categories)
  <2>1. DOMAIN category = Categories /\ DOMAIN category' = Categories
    BY <1>2, <1>3
  <2>2. Tree(category, Categories)
    BY DEF CatalogueInv
  <2> QED BY <1>4, <2>1, <2>2, TreeKept
<1>6. Active(category) \subseteq Active(category')
  BY <1>2, <1>3, <1>4 DEF Active
<1>7. OrphansAccounted
  BY <1>1, <1>4, <1>6 DEF OrphansAccounted, Orphan, Filing
<1>8. \A y \in Categories : category'[y].active => category'[y].exists
  BY <1>1, <1>4 DEF CatalogueInv
<1> QED BY <1>3, <1>5, <1>6, <1>7, <1>8 DEF CategoriesInv

(* An active child of what goes, goes.                                     *)
LEMMA CascadeIsDownward ==
  ASSUME CatalogueTyped, NEW g \in Categories
  PROVE  g \in Cascade(g) /\ Cascade(g) \in SUBSET Categories /\ Downward(Cascade(g))
<1>1. ASSUME NEW y \in Cascade(g), NEW z \in Children(category, y) \cap Active(category)
      PROVE  z \in Cascade(g)
  <2>1. z \in Categories
    BY DEF CatalogueTyped, Active
  <2>2. ASSUME NEW S \in SUBSET Categories, g \in S, Downward(S) PROVE z \in S
    BY <2>2 DEF Cascade, Downward
  <2> QED BY <2>1, <2>2 DEF Cascade
<1>2. Downward(Cascade(g))
  BY <1>1 DEF Downward
<1> QED BY <1>2 DEF Cascade

(* Nor does an active item stay behind in what is deactivated.             *)
LEMMA DeactivatingCategory ==
  ASSUME CatalogueInv, NEW g \in Categories, NEW cascade \in BOOLEAN,
         DeactivateCategory(g, cascade)
  PROVE  /\ CategoriesInv' /\ OrphansAccounted
         /\ \A i \in Items :
              /\ item'[i] \in ItemRow /\ DOMAIN item' = Items
              /\ item'[i].exists = item[i].exists /\ item'[i].active = item[i].active
              /\ item'[i].unit = item[i].unit /\ item'[i].moved = item[i].moved
              /\ Misfiled(i)' => Misfiled(i)
<1> DEFINE gone == IF cascade THEN Cascade(g) ELSE {g}
           cleared == {i \in FiledIn(gone) :
                         FiledIn({item[i].category}) \cap Active(item) # {}}
<1>1. /\ category' = [y \in Categories |->
             IF y \in gone THEN [category[y] EXCEPT !.active = FALSE] ELSE category[y]]
      /\ item' = [i \in Items |->
             IF i \in cleared THEN [item[i] EXCEPT !.category = None] ELSE item[i]]
      /\ ~cascade => /\ FiledIn({g}) \cap Active(item) = {}
                     /\ Children(category, g) \cap Active(category) = {}
  BY DEF DeactivateCategory
<1>2. category \in [Categories -> CategoryRow] /\ item \in [Items -> ItemRow]
  BY DEF CatalogueInv, CatalogueTyped
<1>3. /\ gone \in SUBSET Categories /\ g \in gone
      /\ \A y \in gone : Children(category, y) \cap Active(category) \subseteq gone
  BY <1>1, CascadeIsDownward DEF Downward, CatalogueInv
<1>4. \A i \in FiledIn(gone) : i \in Active(item) => i \in cleared
  BY <1>2 DEF FiledIn, Active
<1>5. \A i \in Items : item[i].category \in gone /\ item[i].active => i \in cleared
  BY <1>2, <1>4 DEF FiledIn, Active
<1> HIDE DEF gone, cleared
<1>6. ASSUME NEW y \in Categories
      PROVE  /\ category'[y] \in CategoryRow
             /\ category'[y].exists = category[y].exists /\ category'[y].up = category[y].up
             /\ category'[y].active = (category[y].active /\ y \notin gone)
  <2>1. category[y] \in CategoryRow
    BY <1>2
  <2>2. CASE y \in gone
    BY <1>1, <2>1, <2>2 DEF CategoryRow
  <2>3. CASE y \notin gone
    BY <1>1, <2>1, <2>3 DEF CategoryRow
  <2> QED BY <2>2, <2>3
<1>7. category' \in [Categories -> CategoryRow]
  <2>1. category' = [y \in Categories |-> category'[y]]
    BY <1>1
  <2> QED BY <1>6, <2>1
<1>8. Tree(category', Categories)
  <2>1. DOMAIN category = Categories /\ DOMAIN category' = Categories
    BY <1>2, <1>7
  <2>2. Tree(category, Categories)
    BY DEF CatalogueInv
  <2> QED BY <1>6, <2>1, <2>2, TreeKept
<1>9. \A y \in Categories : y \in Active(category') <=> y \in Active(category) /\ y \notin gone
  BY <1>2, <1>6, <1>7 DEF Active
<1>10. OrphansAccounted
  <2>1. SUFFICES ASSUME NEW y \in Categories, Orphan(y)', category'[y].up = category[y].up
                 PROVE  Orphan(y)
    BY DEF OrphansAccounted
  <2>2. /\ category[y].active /\ y \notin gone
        /\ category[y].up # None /\ category[y].up \notin Active(category')
    BY <1>6, <2>1 DEF Orphan, Filing
  <2>3. category[y].up \in Categories
    BY <1>2, <2>2 DEF CategoryRow
  <2>4. category[y].up \notin gone
    <3>1. category[y].up \in gone => y \in Children(category, category[y].up) \cap Active(category)
      BY <1>2, <2>2 DEF Children, Active
    <3> QED BY <1>3, <2>2, <3>1
  <2> QED BY <1>9, <2>2, <2>3, <2>4 DEF Orphan, Filing
<1>11. \A y \in Categories : category'[y].active => category'[y].exists
  BY <1>6 DEF CatalogueInv
<1>12. ASSUME NEW i \in Items
       PROVE  /\ item'[i] \in ItemRow /\ DOMAIN item' = Items
              /\ item'[i].exists = item[i].exists /\ item'[i].active = item[i].active
              /\ item'[i].unit = item[i].unit /\ item'[i].moved = item[i].moved
              /\ Misfiled(i)' => Misfiled(i)
  <2>1. item[i] \in ItemRow /\ DOMAIN item' = Items
    BY <1>1, <1>2
  <2>2. CASE i \in cleared
    <3>1. item'[i] = [item[i] EXCEPT !.category = None]
      BY <1>1, <2>2
    <3>2. /\ item'[i] \in ItemRow /\ item'[i].category = None
          /\ item'[i].exists = item[i].exists /\ item'[i].active = item[i].active
          /\ item'[i].unit = item[i].unit /\ item'[i].moved = item[i].moved
      BY <2>1, <3>1 DEF ItemRow
    <3> QED BY <2>1, <3>2 DEF Misfiled, Filing
  <2>3. CASE i \notin cleared
    <3>1. item'[i] = item[i]
      BY <1>1, <2>3
    <3>2. ASSUME Misfiled(i)' PROVE Misfiled(i)
      <4>1. /\ item[i].active /\ item[i].category # None
            /\ item[i].category \notin Active(category')
        BY <3>1, <3>2 DEF Misfiled, Filing
      <4>2. item[i].category \in Categories
        BY <2>1, <4>1 DEF ItemRow
      <4>3. item[i].category \notin gone
        BY <1>5, <2>3, <4>1
      <4> QED BY <1>9, <4>1, <4>2, <4>3 DEF Misfiled, Filing
    <3> QED BY <2>1, <3>1, <3>2
  <2> QED BY <2>2, <2>3
<1> QED BY <1>7, <1>8, <1>10, <1>11, <1>12 DEF CategoriesInv

-----------------------------------------------------------------------------
(* Locations.                                                              *)

PlacesInv ==
  /\ place \in [Places -> PlaceRow] /\ Tree(place, Places)
  /\ \A l \in Places : place[l].active => place[l].exists
  /\ OneDefault

(* Whether l becomes the only default, keeps what it is, or is none.       *)
Redefaulted(l, default) ==
  \A k \in Places :
    place'[k].default = IF k = l THEN default
                        ELSE IF default THEN FALSE ELSE place[k].default

LEMMA DefaultIsOne ==
  ASSUME CatalogueInv, NEW l \in Places, NEW default \in BOOLEAN, Redefaulted(l, default)
  PROVE  OneDefault'
<1>1. CASE default
  BY <1>1 DEF Redefaulted, OneDefault
<1>2. CASE ~default
  BY <1>2 DEF Redefaulted, OneDefault, CatalogueInv
<1> QED BY <1>1, <1>2

LEMMA Undefaulting ==
  ASSUME CatalogueInv, NEW default \in BOOLEAN
  PROVE  LET base == IF default THEN Undefaulted ELSE place
         IN /\ base \in [Places -> PlaceRow]
            /\ \A k \in Places :
                 /\ base[k].exists = place[k].exists /\ base[k].active = place[k].active
                 /\ base[k].up = place[k].up
                 /\ base[k].default = IF default THEN FALSE ELSE place[k].default
<1>1. place \in [Places -> PlaceRow]
  BY DEF CatalogueInv, CatalogueTyped
<1>2. \A k \in Places : Undefaulted[k] = [place[k] EXCEPT !.default = FALSE]
  BY DEF Undefaulted
<1>3. ASSUME NEW k \in Places
      PROVE  /\ Undefaulted[k] \in PlaceRow
             /\ Undefaulted[k].exists = place[k].exists /\ Undefaulted[k].active = place[k].active
             /\ Undefaulted[k].up = place[k].up /\ Undefaulted[k].default = FALSE
  <2>1. place[k] \in PlaceRow
    BY <1>1
  <2> QED BY <1>2, <2>1 DEF PlaceRow
<1>4. Undefaulted \in [Places -> PlaceRow]
  <2>1. Undefaulted = [k \in Places |-> Undefaulted[k]]
    BY DEF Undefaulted
  <2> QED BY <1>3, <2>1
<1> QED BY <1>1, <1>3, <1>4

LEMMA CreatingPlace ==
  ASSUME CatalogueInv, NEW l \in Places, NEW up \in Places \cup {None}, NEW default \in BOOLEAN,
         CreatePlace(l, up, default)
  PROVE  PlacesInv'
<1> DEFINE base == IF default THEN Undefaulted ELSE place
           row == [exists |-> TRUE, active |-> TRUE, up |-> up, default |-> default]
<1>1. /\ ~place[l].exists /\ up \in Active(place) \cup {None}
      /\ place' = [base EXCEPT ![l] = row]
  BY DEF CreatePlace, MayAdd
<1>2. /\ base \in [Places -> PlaceRow]
      /\ \A k \in Places :
           /\ base[k].exists = place[k].exists /\ base[k].active = place[k].active
           /\ base[k].up = place[k].up
           /\ base[k].default = IF default THEN FALSE ELSE place[k].default
  BY Undefaulting
<1>3. row \in PlaceRow /\ row.exists /\ row.up = up /\ row.default = default
  BY DEF PlaceRow
<1> HIDE DEF base, row
<1>4. /\ place' \in [Places -> PlaceRow]
      /\ place'[l] = row /\ \A k \in Places \ {l} : place'[k] = base[k]
  BY <1>1, <1>2, <1>3
<1>5. place \in [Places -> PlaceRow]
  BY DEF CatalogueInv, CatalogueTyped
<1>6. Tree(place', Places)
  <2>1. DOMAIN place = Places /\ DOMAIN place' = Places
    BY <1>4, <1>5
  <2>2. Tree(place, Places) /\ None \notin Places
    BY CatalogueAssumption DEF CatalogueInv, None
  <2>3. Active(place) \subseteq Existing(place)
    BY <2>1 DEF CatalogueInv, Active, Existing
  <2>4. /\ ~place[l].exists /\ place'[l].exists
        /\ place'[l].up \in Existing(place) \cup {None}
        /\ \A k \in Places \ {l} : /\ place'[k].up = place[k].up
                                   /\ place[k].exists => place'[k].exists
    BY <1>1, <1>2, <1>3, <1>4, <2>3
  <2> QED BY <2>1, <2>2, <2>4, TreeGrows
<1>7. ASSUME NEW k \in Places, place'[k].active PROVE place'[k].exists
  <2>1. CASE k = l
    BY <1>3, <1>4, <2>1
  <2>2. CASE k # l
    BY <1>2, <1>4, <1>7, <2>2 DEF CatalogueInv
  <2> QED BY <2>1, <2>2
<1>8. Redefaulted(l, default)
  BY <1>2, <1>3, <1>4 DEF Redefaulted
<1>9. OneDefault'
  BY <1>8, DefaultIsOne
<1> QED BY <1>4, <1>6, <1>7, <1>9 DEF PlacesInv

LEMMA UpdatingPlace ==
  ASSUME CatalogueInv, NEW l \in Places, NEW up \in Places \cup {None}, NEW default \in BOOLEAN,
         UpdatePlace(l, up, default)
  PROVE  PlacesInv'
<1> DEFINE base == IF default THEN Undefaulted ELSE place
           row == [base[l] EXCEPT !.up = up, !.default = default]
<1>1. /\ place[l].exists /\ MayMove(place, l, up)
      /\ place' = [base EXCEPT ![l].up = up, ![l].default = default]
  BY DEF UpdatePlace, Existing
<1>2. /\ base \in [Places -> PlaceRow]
      /\ \A k \in Places :
           /\ base[k].exists = place[k].exists /\ base[k].active = place[k].active
           /\ base[k].up = place[k].up
           /\ base[k].default = IF default THEN FALSE ELSE place[k].default
  BY Undefaulting
<1> HIDE DEF base
<1>3. place' = [base EXCEPT ![l] = row]
  BY <1>1, <1>2
<1>4. /\ row \in PlaceRow /\ row.exists = base[l].exists /\ row.active = base[l].active
      /\ row.up = up /\ row.default = default
  <2>1. base[l] \in PlaceRow
    BY <1>2
  <2> QED BY <2>1 DEF PlaceRow
<1> HIDE DEF row
<1>5. /\ place' \in [Places -> PlaceRow]
      /\ place'[l] = row /\ \A k \in Places \ {l} : place'[k] = base[k]
  BY <1>2, <1>3, <1>4
<1>6. place \in [Places -> PlaceRow]
  BY DEF CatalogueInv, CatalogueTyped
<1>7. /\ \A k \in Places : place'[k].exists = place[k].exists /\ place'[k].active = place[k].active
      /\ \A k \in Places \ {l} : place'[k].up = place[k].up
      /\ place'[l].up = up
  BY <1>2, <1>4, <1>5
<1>8. Tree(place', Places)
  <2>1. DOMAIN place = Places /\ DOMAIN place' = Places
    BY <1>5, <1>6
  <2>2. Tree(place, Places) /\ None \notin Places
    BY CatalogueAssumption DEF CatalogueInv, None
  <2>3. /\ place[l].exists /\ MayMove(place, l, up) /\ place'[l].up = up
        /\ \A k \in Places \ {l} : place'[k].up = place[k].up
        /\ \A k \in Places : place'[k].exists = place[k].exists
    BY <1>1, <1>7
  <2> QED BY <2>1, <2>2, <2>3, TreeMoves
<1>9. \A k \in Places : place'[k].active => place'[k].exists
  BY <1>7 DEF CatalogueInv
<1>10. Redefaulted(l, default)
  BY <1>2, <1>4, <1>5 DEF Redefaulted
<1>11. OneDefault'
  BY <1>10, DefaultIsOne
<1> QED BY <1>5, <1>8, <1>9, <1>11 DEF PlacesInv

(* Steps that only change what is active.                                  *)
LEMMA ActivityOfPlaces ==
  ASSUME CatalogueInv, place' \in [Places -> PlaceRow],
         \A k \in Places :
           /\ place'[k].exists = place[k].exists /\ place'[k].up = place[k].up
           /\ place'[k].active => place[k].exists,
         OneDefault'
  PROVE  PlacesInv'
<1>1. place \in [Places -> PlaceRow] /\ Tree(place, Places)
  BY DEF CatalogueInv, CatalogueTyped
<1>2. DOMAIN place = Places /\ DOMAIN place' = Places
  BY <1>1
<1>3. Tree(place', Places)
  BY <1>1, <1>2, TreeKept
<1> QED BY <1>3 DEF PlacesInv

LEMMA DeactivatingPlace ==
  ASSUME CatalogueInv, NEW l \in Places, DeactivatePlace(l)
  PROVE  PlacesInv'
<1> DEFINE gone == {y \in Places : y = l \/ y \in Children(place, l)}
<1>1. place' = [y \in Places |->
         IF y \in gone THEN [place[y] EXCEPT !.active = FALSE] ELSE place[y]]
  BY DEF DeactivatePlace
<1> HIDE DEF gone
<1>2. ASSUME NEW y \in Places
      PROVE  /\ place'[y] \in PlaceRow /\ place'[y].exists = place[y].exists
             /\ place'[y].up = place[y].up /\ place'[y].default = place[y].default
             /\ place'[y].active => place[y].active
  <2>1. place[y] \in PlaceRow
    BY DEF CatalogueInv, CatalogueTyped
  <2>2. CASE y \in gone
    BY <1>1, <2>1, <2>2 DEF PlaceRow
  <2>3. CASE y \notin gone
    BY <1>1, <2>1, <2>3 DEF PlaceRow
  <2> QED BY <2>2, <2>3
<1>3. place' \in [Places -> PlaceRow]
  <2>1. place' = [y \in Places |-> place'[y]]
    BY <1>1
  <2> QED BY <1>2, <2>1
<1>4. OneDefault'
  BY <1>2 DEF OneDefault, CatalogueInv
<1> QED BY <1>2, <1>3, <1>4, ActivityOfPlaces DEF CatalogueInv

LEMMA ActivatingPlace ==
  ASSUME CatalogueInv, NEW l \in Places, ActivatePlace(l)
  PROVE  PlacesInv'
<1>1. place[l].exists /\ place' = [place EXCEPT ![l].active = TRUE]
  BY DEF ActivatePlace, MayActivate, Existing
<1>2. place \in [Places -> PlaceRow]
  BY DEF CatalogueInv, CatalogueTyped
<1>3. place' \in [Places -> PlaceRow]
  BY <1>1, <1>2 DEF PlaceRow
<1>4. \A k \in Places : /\ place'[k].exists = place[k].exists /\ place'[k].up = place[k].up
                        /\ place'[k].default = place[k].default
                        /\ k # l => place'[k].active = place[k].active
  BY <1>1, <1>2 DEF PlaceRow
<1>5. OneDefault'
  BY <1>4 DEF OneDefault, CatalogueInv
<1>6. \A k \in Places : place'[k].active => place[k].exists
  BY <1>1, <1>4 DEF CatalogueInv
<1> QED BY <1>3, <1>4, <1>5, <1>6, ActivityOfPlaces

LEMMA SettingDefault ==
  ASSUME CatalogueInv, NEW l \in Places, SetDefault(l)
  PROVE  PlacesInv'
<1>1. place' = [Undefaulted EXCEPT ![l].default = TRUE]
  BY DEF SetDefault
<1>2. /\ Undefaulted \in [Places -> PlaceRow]
      /\ \A k \in Places :
           /\ Undefaulted[k].exists = place[k].exists /\ Undefaulted[k].active = place[k].active
           /\ Undefaulted[k].up = place[k].up /\ Undefaulted[k].default = FALSE
  <2>1. TRUE \in BOOLEAN
    OBVIOUS
  <2> QED BY <2>1, Undefaulting
<1>3. place' \in [Places -> PlaceRow]
  BY <1>1, <1>2 DEF PlaceRow
<1>4. \A k \in Places : /\ place'[k].exists = place[k].exists /\ place'[k].up = place[k].up
                        /\ place'[k].active = place[k].active
                        /\ place'[k].default = (k = l)
  BY <1>1, <1>2 DEF PlaceRow
<1>5. OneDefault'
  BY <1>4 DEF OneDefault
<1> QED BY <1>3, <1>4, <1>5, ActivityOfPlaces DEF CatalogueInv

-----------------------------------------------------------------------------
(* Units and items.                                                        *)

UnitsInv == unit \in [Units -> UnitRow] /\ OneBase /\ \A i \in Items : ItemLinked(i)

LEMMA CreatingUnit ==
  ASSUME CatalogueInv, NEW u \in Units, NEW of \in Units \cup {None}, CreateUnit(u, of)
  PROVE  UnitsInv'
<1> DEFINE row == [exists |-> TRUE, active |-> TRUE, of |-> of]
<1>1. /\ ~unit[u].exists /\ unit' = [unit EXCEPT ![u] = row] /\ UNCHANGED item
      /\ of = None => BaseUnits = {}
  BY DEF CreateUnit
<1>2. row \in UnitRow /\ row.active /\ row.of = of
  BY DEF UnitRow
<1> HIDE DEF row
<1>3. unit \in [Units -> UnitRow]
  BY DEF CatalogueInv, CatalogueTyped
<1>4. /\ unit' \in [Units -> UnitRow]
      /\ unit'[u] = row /\ \A v \in Units \ {u} : unit'[v] = unit[v]
  BY <1>1, <1>2, <1>3
<1>5. \A v \in Units : /\ v \in Active(unit) <=> unit[v].active
                       /\ v \in Active(unit') <=> unit'[v].active
  BY <1>3, <1>4 DEF Active
<1>6. Active(unit) \subseteq Units /\ Active(unit') \subseteq Units
  BY <1>3, <1>4 DEF Active
<1>7. Active(unit) \subseteq Active(unit')
  BY <1>2, <1>4, <1>5, <1>6
<1>8. OneBase'
  <2>1. SUFFICES ASSUME NEW v \in BaseUnits', NEW w \in BaseUnits' PROVE v = w
    BY DEF OneBase
  <2>2. /\ v \in Units /\ w \in Units
        /\ unit'[v].active /\ unit'[v].of = None /\ unit'[w].active /\ unit'[w].of = None
    BY <1>5, <1>6, <2>1 DEF BaseUnits
  <2>3. ASSUME NEW x \in Units \ {u}, unit'[x].active, unit'[x].of = None
        PROVE  x \in BaseUnits
    BY <1>4, <1>5, <2>3 DEF BaseUnits
  <2>4. CASE of = None
    BY <1>1, <2>2, <2>3, <2>4
  <2>5. CASE of # None
    <3>1. v # u /\ w # u
      BY <1>2, <1>4, <2>2, <2>5
    <3> QED BY <2>2, <2>3, <3>1 DEF CatalogueInv, OneBase
  <2> QED BY <2>4, <2>5
<1>9. ASSUME NEW i \in Items PROVE ItemLinked(i)'
  <2>1. ItemLinked(i)
    BY DEF CatalogueInv
  <2> QED BY <1>1, <1>7, <2>1 DEF ItemLinked
<1> QED BY <1>4, <1>8, <1>9 DEF UnitsInv

(* No item, active or not, is measured in it.                              *)
LEMMA DeactivatingUnit ==
  ASSUME CatalogueInv, NEW u \in Units, DeactivateUnit(u)
  PROVE  UnitsInv'
<1>1. /\ MeasuredIn(u) = {} /\ unit' = [unit EXCEPT ![u].active = FALSE] /\ UNCHANGED item
  BY DEF DeactivateUnit
<1>2. unit \in [Units -> UnitRow] /\ item \in [Items -> ItemRow]
  BY DEF CatalogueInv, CatalogueTyped
<1>3. unit' \in [Units -> UnitRow]
  BY <1>1, <1>2 DEF UnitRow
<1>4. \A v \in Units : /\ unit'[v].of = unit[v].of
                       /\ unit'[v].active = (unit[v].active /\ v # u)
  BY <1>1, <1>2 DEF UnitRow
<1>5. \A v : v \in Active(unit') <=> v \in Active(unit) /\ v # u
  BY <1>2, <1>3, <1>4 DEF Active
<1>6. OneBase'
  <2>1. BaseUnits' \subseteq BaseUnits
    BY <1>2, <1>4, <1>5 DEF BaseUnits, Active
  <2> QED BY <2>1 DEF CatalogueInv, OneBase
<1>7. ASSUME NEW i \in Items PROVE ItemLinked(i)'
  <2>1. ItemLinked(i) /\ (item[i].exists => item[i].unit # u)
    BY <1>1, <1>2 DEF CatalogueInv, MeasuredIn, Existing
  <2> QED BY <1>1, <1>5, <2>1 DEF ItemLinked
<1> QED BY <1>3, <1>6, <1>7 DEF UnitsInv

ItemsInv == item \in [Items -> ItemRow] /\ \A i \in Items : ItemLinked(i)

(* What a call on items may do: an item that moved keeps its unit, and one *)
(* that is active goes into no inactive category.                          *)
ItemsAccounted ==
  \A i \in Items :
    /\ item[i].moved => item'[i].unit = item[i].unit
    /\ Misfiled(i)' => Misfiled(i) \/ ~item[i].active

LEMMA OneItem ==
  ASSUME CatalogueInv, NEW i \in Items, NEW row \in ItemRow, item' = [item EXCEPT ![i] = row],
         UNCHANGED <<unit, category>>,
         row.exists => row.unit \in Active(unit),
         ~row.exists => ~row.active /\ ~row.moved,
         item[i].moved => row.unit = item[i].unit,
         row.active /\ row.category \notin Filing => Misfiled(i) \/ ~item[i].active
  PROVE  ItemsInv' /\ ItemsAccounted
<1>1. item \in [Items -> ItemRow]
  BY DEF CatalogueInv, CatalogueTyped
<1>2. /\ item' \in [Items -> ItemRow]
      /\ item'[i] = row /\ \A j \in Items \ {i} : item'[j] = item[j]
  BY <1>1
<1>3. Filing' = Filing
  BY DEF Filing
<1>4. ASSUME NEW j \in Items PROVE ItemLinked(j)'
  <2>1. ItemLinked(j)
    BY DEF CatalogueInv
  <2>2. CASE j = i
    BY <1>2, <2>2 DEF ItemLinked
  <2>3. CASE j # i
    BY <1>2, <2>1, <2>3 DEF ItemLinked
  <2> QED BY <2>2, <2>3
<1>5. ASSUME NEW j \in Items
      PROVE  /\ item[j].moved => item'[j].unit = item[j].unit
             /\ Misfiled(j)' => Misfiled(j) \/ ~item[j].active
  <2>1. CASE j = i
    BY <1>2, <1>3, <2>1 DEF Misfiled
  <2>2. CASE j # i
    BY <1>2, <1>3, <2>2 DEF Misfiled
  <2> QED BY <2>1, <2>2
<1> QED BY <1>2, <1>4, <1>5 DEF ItemsInv, ItemsAccounted

LEMMA ItemStepping ==
  ASSUME CatalogueInv, ItemStep
  PROVE  ItemsInv' /\ ItemsAccounted /\ UNCHANGED <<category, place, unit>>
<1>1. /\ item \in [Items -> ItemRow] /\ unit \in [Units -> UnitRow]
      /\ category \in [Categories -> CategoryRow]
      /\ \A i \in Items : ItemLinked(i)
  BY DEF CatalogueInv, CatalogueTyped
<1>2. Active(unit) \subseteq Units /\ Filing \subseteq Categories \cup {None}
  BY <1>1 DEF Active, Filing
<1>3. ASSUME NEW i \in Items, NEW u \in Units, NEW g \in Categories \cup {None}, UpdateItem(i, u, g)
      PROVE  ItemsInv' /\ ItemsAccounted /\ UNCHANGED <<category, place, unit>>
  <2> DEFINE row == [item[i] EXCEPT !.unit = u, !.category = g]
  <2>1. /\ item[i].exists /\ g \in Filing \cup {item[i].category}
        /\ u # item[i].unit => u \in Active(unit) /\ ~item[i].moved
        /\ item' = [item EXCEPT ![i].unit = u, ![i].category = g]
        /\ UNCHANGED <<category, place, unit>>
    BY <1>3 DEF UpdateItem, Existing
  <2>2. item' = [item EXCEPT ![i] = row]
    BY <1>1, <2>1
  <2>3. /\ row \in ItemRow /\ row.exists = item[i].exists /\ row.active = item[i].active
        /\ row.unit = u /\ row.category = g /\ row.moved = item[i].moved
    <3>1. item[i] \in ItemRow
      BY <1>1
    <3> QED BY <3>1 DEF ItemRow
  <2> HIDE DEF row
  <2>4. row.unit \in Active(unit)
    BY <1>1, <2>1, <2>3 DEF ItemLinked
  <2>5. row.active /\ row.category \notin Filing => Misfiled(i)
    BY <2>1, <2>3 DEF Misfiled
  <2> QED BY <2>1, <2>2, <2>3, <2>4, <2>5, OneItem
<1>4. ASSUME NEW i \in Items, NEW u \in Units, NEW g \in Categories \cup {None},
             NEW opening, CreateItem(i, u, g, opening)
      PROVE  ItemsInv' /\ ItemsAccounted /\ UNCHANGED <<category, place, unit>>
  <2> DEFINE row == [exists |-> TRUE, active |-> TRUE, unit |-> u, category |-> g,
                     moved |-> opening # None]
  <2>1. /\ ~item[i].exists /\ u \in Active(unit) /\ g \in Filing
        /\ item' = [item EXCEPT ![i] = row]
        /\ UNCHANGED <<category, place, unit>>
    BY <1>4 DEF CreateItem
  <2>2. row \in ItemRow /\ row.exists /\ row.active /\ row.unit = u /\ row.category = g
    BY DEF ItemRow
  <2> HIDE DEF row
  <2>3. ~item[i].active /\ ~item[i].moved
    BY <1>1, <2>1 DEF ItemLinked
  <2> QED BY <2>1, <2>2, <2>3, OneItem
<1>5. ASSUME NEW i \in Items, NEW active \in BOOLEAN,
             item[i].exists, item' = [item EXCEPT ![i].active = active],
             UNCHANGED <<category, place, unit>>
      PROVE  ItemsInv' /\ ItemsAccounted
  <2> DEFINE row == [item[i] EXCEPT !.active = active]
  <2>1. item' = [item EXCEPT ![i] = row]
    BY <1>1, <1>5
  <2>2. /\ row \in ItemRow /\ row.exists = item[i].exists /\ row.active = active
        /\ row.unit = item[i].unit /\ row.category = item[i].category /\ row.moved = item[i].moved
    <3>1. item[i] \in ItemRow
      BY <1>1
    <3> QED BY <3>1 DEF ItemRow
  <2> HIDE DEF row
  <2>3. row.unit \in Active(unit)
    BY <1>1, <1>5, <2>2 DEF ItemLinked
  <2>4. row.active /\ row.category \notin Filing => Misfiled(i) \/ ~item[i].active
    BY <2>2 DEF Misfiled
  <2> QED BY <1>5, <2>1, <2>2, <2>3, <2>4, OneItem
<1>6. ASSUME NEW i \in Items, DeactivateItem(i) \/ ActivateItem(i)
      PROVE  ItemsInv' /\ ItemsAccounted /\ UNCHANGED <<category, place, unit>>
  <2>1. /\ item[i].exists /\ UNCHANGED <<category, place, unit>>
        /\ \/ item' = [item EXCEPT ![i].active = FALSE]
           \/ item' = [item EXCEPT ![i].active = TRUE]
    BY <1>6 DEF DeactivateItem, ActivateItem, Existing
  <2> QED BY <1>5, <2>1
<1>7. ASSUME NEW i \in Items, NEW l \in Places, NEW some \in BOOLEAN, Booked(i, l, some)
      PROVE  ItemsInv' /\ ItemsAccounted /\ UNCHANGED <<category, place, unit>>
  <2> DEFINE row == [item[i] EXCEPT !.moved = TRUE]
  <2>1. /\ item[i].exists /\ item' = [item EXCEPT ![i].moved = TRUE]
        /\ UNCHANGED <<category, place, unit>>
    BY <1>7 DEF Booked, Existing
  <2>2. item' = [item EXCEPT ![i] = row]
    BY <1>1, <2>1
  <2>3. /\ row \in ItemRow /\ row.exists = item[i].exists /\ row.active = item[i].active
        /\ row.unit = item[i].unit /\ row.category = item[i].category
    <3>1. item[i] \in ItemRow
      BY <1>1
    <3> QED BY <3>1 DEF ItemRow
  <2> HIDE DEF row
  <2>4. row.unit \in Active(unit)
    BY <1>1, <2>1, <2>3 DEF ItemLinked
  <2>5. row.active /\ row.category \notin Filing => Misfiled(i)
    BY <2>3 DEF Misfiled
  <2> QED BY <2>1, <2>2, <2>3, <2>4, <2>5, OneItem
<1> QED BY <1>3, <1>4, <1>6, <1>7 DEF ItemStep

-----------------------------------------------------------------------------
Accounted == ItemsAccounted /\ OrphansAccounted

LEMMA CategoryStepping ==
  ASSUME CatalogueInv, CategoryStep
  PROVE  CatalogueInv' /\ Accounted
<1>1. UNCHANGED <<place, unit>>
  BY DEF CategoryStep, CreateCategory, UpdateCategory, DeactivateCategory, ActivateCategory
<1>2. (PlacesInv /\ UnitsInv /\ ItemsInv) /\ item \in [Items -> ItemRow]
  BY DEF CatalogueInv, CatalogueTyped, PlacesInv, UnitsInv, ItemsInv
<1>3. PlacesInv' /\ OneBase' /\ unit' \in [Units -> UnitRow]
  BY <1>1, <1>2 DEF PlacesInv, OneDefault, UnitsInv, OneBase, BaseUnits
<1>4. ASSUME CategoriesInv', OrphansAccounted, UNCHANGED item,
             Active(category) \subseteq Active(category')
      PROVE  CatalogueInv' /\ Accounted
  <2>1. \A i \in Items : ItemLinked(i)'
    BY <1>1, <1>2, <1>4 DEF UnitsInv, ItemLinked
  <2>2. ItemsAccounted
    BY <1>4 DEF ItemsAccounted, Misfiled, Filing
  <2> QED BY <1>2, <1>3, <1>4, <2>1, <2>2
      DEF CatalogueInv, CatalogueTyped, CategoriesInv, PlacesInv, Accounted
<1>5. ASSUME NEW g \in Categories, NEW up \in Categories \cup {None},
             CreateCategory(g, up) \/ UpdateCategory(g, up)
      PROVE  CatalogueInv' /\ Accounted
  <2>1. UNCHANGED item
    BY <1>5 DEF CreateCategory, UpdateCategory
  <2> QED BY <1>4, <1>5, <2>1, CreatingCategory, UpdatingCategory
<1>6. ASSUME NEW g \in Categories, ActivateCategory(g)
      PROVE  CatalogueInv' /\ Accounted
  <2>1. UNCHANGED item
    BY <1>6 DEF ActivateCategory
  <2> QED BY <1>4, <1>6, <2>1, ActivatingCategory
<1>7. ASSUME NEW g \in Categories, NEW cascade \in BOOLEAN, DeactivateCategory(g, cascade)
      PROVE  CatalogueInv' /\ Accounted
  <2>1. /\ CategoriesInv' /\ OrphansAccounted
        /\ \A i \in Items :
             /\ item'[i] \in ItemRow /\ DOMAIN item' = Items
             /\ item'[i].exists = item[i].exists /\ item'[i].active = item[i].active
             /\ item'[i].unit = item[i].unit /\ item'[i].moved = item[i].moved
             /\ Misfiled(i)' => Misfiled(i)
    BY <1>7, DeactivatingCategory
  <2>2. item' \in [Items -> ItemRow]
    <3>1. \E f : item' = [i \in Items |-> f[i]]
      <4> DEFINE gone == IF cascade THEN Cascade(g) ELSE {g}
                 f == [i \in Items |->
                        IF i \in {j \in FiledIn(gone) :
                                    FiledIn({item[j].category}) \cap Active(item) # {}}
                        THEN [item[i] EXCEPT !.category = None] ELSE item[i]]
      <4>1. item' = f
        BY <1>7 DEF DeactivateCategory
      <4>2. f = [i \in Items |-> f[i]]
        OBVIOUS
      <4> QED BY <4>1, <4>2
    <3>2. item' = [i \in Items |-> item'[i]]
      BY <3>1
    <3> QED BY <2>1, <3>2
  <2>3. \A i \in Items : ItemLinked(i)'
    BY <1>1, <1>2, <2>1 DEF UnitsInv, ItemLinked
  <2>4. ItemsAccounted
    BY <2>1 DEF ItemsAccounted
  <2> QED BY <1>3, <2>1, <2>2, <2>3, <2>4
      DEF CatalogueInv, CatalogueTyped, CategoriesInv, PlacesInv, Accounted
<1> QED BY <1>5, <1>6, <1>7 DEF CategoryStep

LEMMA OtherStepping ==
  ASSUME CatalogueInv, PlaceStep \/ UnitStep \/ ItemStep
  PROVE  CatalogueInv' /\ Accounted
<1>1. CategoriesInv /\ PlacesInv /\ UnitsInv /\ ItemsInv
  BY DEF CatalogueInv, CatalogueTyped, CategoriesInv, PlacesInv, UnitsInv, ItemsInv
<1>2. ASSUME UNCHANGED category, PlacesInv', UnitsInv', ItemsInv' PROVE CatalogueInv'
  BY <1>1, <1>2 DEF CatalogueInv, CatalogueTyped, CategoriesInv, PlacesInv, UnitsInv, ItemsInv
<1>3. ASSUME UNCHANGED category PROVE OrphansAccounted
  BY <1>3 DEF OrphansAccounted, Orphan, Filing
<1>4. ASSUME UNCHANGED <<category, item>> PROVE ItemsAccounted
  BY <1>4 DEF ItemsAccounted, Misfiled, Filing
<1>5. ASSUME UNCHANGED place PROVE PlacesInv'
  BY <1>1, <1>5 DEF PlacesInv, OneDefault
<1>6. CASE PlaceStep
  <2>1. UNCHANGED <<category, unit, item>>
    BY <1>6 DEF PlaceStep, CreatePlace, UpdatePlace, DeactivatePlace, ActivatePlace, SetDefault
  <2>2. PlacesInv'
    BY <1>6, CreatingPlace, UpdatingPlace, DeactivatingPlace, ActivatingPlace, SettingDefault
    DEF PlaceStep
  <2>3. UnitsInv' /\ ItemsInv'
    BY <1>1, <2>1 DEF UnitsInv, ItemsInv, OneBase, BaseUnits, ItemLinked
  <2> QED BY <1>2, <1>3, <1>4, <2>1, <2>2, <2>3 DEF Accounted
<1>7. CASE UnitStep
  <2>1. UNCHANGED <<category, place, item>>
    BY <1>7 DEF UnitStep, CreateUnit, DeactivateUnit
  <2>2. UnitsInv'
    BY <1>7, CreatingUnit, DeactivatingUnit DEF UnitStep
  <2>3. ItemsInv'
    BY <1>1, <2>1, <2>2 DEF UnitsInv, ItemsInv
  <2> QED BY <1>2, <1>3, <1>4, <1>5, <2>1, <2>2, <2>3 DEF Accounted
<1>8. CASE ItemStep
  <2>1. ItemsInv' /\ ItemsAccounted /\ UNCHANGED <<category, place, unit>>
    BY <1>8, ItemStepping
  <2>2. UnitsInv'
    BY <1>1, <2>1 DEF UnitsInv, ItemsInv, OneBase, BaseUnits
  <2> QED BY <1>2, <1>3, <1>5, <2>1, <2>2 DEF Accounted
<1> QED BY <1>6, <1>7, <1>8

LEMMA LinksHold ==
  ASSUME CatalogueInv
  PROVE  NoCycle(category) /\ NoCycle(place) /\ Linked
<1>1. NoCycle(category) /\ NoCycle(place)
  BY DEF CatalogueInv, Tree
<1>2. Cardinality({l \in Places : place[l].default}) <= 1
  <2> DEFINE S == {l \in Places : place[l].default}
  <2>1. \A k, l \in S : k = l
    BY DEF CatalogueInv, OneDefault
  <2> HIDE DEF S
  <2> QED BY <2>1, AtMostOne DEF S
<1>3. Cardinality(BaseUnits) <= 1
  BY AtMostOne DEF CatalogueInv, OneBase
<1>4. \A i \in Existing(item) : item[i].unit \in Active(unit)
  BY DEF CatalogueInv, CatalogueTyped, ItemLinked, Existing
<1> QED BY <1>1, <1>2, <1>3, <1>4 DEF Linked

(* Whatever is deactivated, moved or revived, the trees of categories and  *)
(* locations have no cycle, on which _is_descendant would not end; one     *)
(* location at most is the default; every item is measured in an active    *)
(* unit, and in the one its movements were booked in                       *)
(* (unit_service.py:265, item_service.py:423); and an active item or       *)
(* category is left in an inactive one by its own call only                *)
(* (category_service.py:273).                                              *)
THEOREM CatalogueLinked == CatalogueSpec => CatalogueHolds
<1>1. CatalogueInit => CatalogueInv
  <2> SUFFICES ASSUME CatalogueInit PROVE CatalogueInv
    OBVIOUS
  <2>1. /\ category \in [Categories -> CategoryRow] /\ place \in [Places -> PlaceRow]
        /\ unit \in [Units -> UnitRow] /\ item \in [Items -> ItemRow]
    BY DEF CatalogueInit, NoNode, NoPlace, NoUnit, NoItem, CategoryRow, PlaceRow, UnitRow, ItemRow
  <2>2. /\ \A g \in Categories : ~category[g].active /\ category[g].up = None
        /\ \A l \in Places : ~place[l].active /\ ~place[l].default /\ place[l].up = None
        /\ \A u \in Units : ~unit[u].active
        /\ \A i \in Items : ~item[i].exists /\ ~item[i].active /\ ~item[i].moved
    BY DEF CatalogueInit, NoNode, NoPlace, NoUnit, NoItem
  <2>3. None \notin Categories \cup Places
    BY CatalogueAssumption DEF None
  <2>4. Tree(category, Categories) /\ Tree(place, Places)
    BY <2>1, <2>2, <2>3 DEF Tree, NoCycle
  <2>5. OneDefault /\ OneBase /\ \A i \in Items : ItemLinked(i)
    BY <2>1, <2>2 DEF OneDefault, OneBase, BaseUnits, Active, ItemLinked
  <2> QED BY <2>1, <2>2, <2>4, <2>5 DEF CatalogueInv, CatalogueTyped
<1>2. CatalogueInv /\ [CatalogueNext]_catalogue => CatalogueInv' /\ (Accounted \/ UNCHANGED catalogue)
  <2> SUFFICES ASSUME CatalogueInv, [CatalogueNext]_catalogue
               PROVE  CatalogueInv' /\ (Accounted \/ UNCHANGED catalogue)
    OBVIOUS
  <2>1. CASE CatalogueNext
    BY <2>1, CategoryStepping, OtherStepping DEF CatalogueNext
  <2>2. CASE UNCHANGED catalogue
    BY <2>2 DEF catalogue, CatalogueInv, CatalogueTyped, OneDefault, OneBase, BaseUnits, ItemLinked
  <2> QED BY <2>1, <2>2
<1>3. CatalogueInv' /\ (Accounted \/ UNCHANGED catalogue) =>
        [/\ NoCycle(category)' /\ NoCycle(place)' /\ Linked'
         /\ \A i \in Items :
              /\ item[i].moved => item'[i].unit = item[i].unit
              /\ Misfiled(i)' => Misfiled(i) \/ ~item[i].active
         /\ \A g \in Categories :
              Orphan(g)' => Orphan(g) \/ category'[g].up # category[g].up
        ]_catalogue
  <2> SUFFICES ASSUME CatalogueInv', Accounted
               PROVE  /\ NoCycle(category)' /\ NoCycle(place)' /\ Linked'
                      /\ \A i \in Items :
                           /\ item[i].moved => item'[i].unit = item[i].unit
                           /\ Misfiled(i)' => Misfiled(i) \/ ~item[i].active
                      /\ \A g \in Categories :
                           Orphan(g)' => Orphan(g) \/ category'[g].up # category[g].up
    OBVIOUS
  <2>1. (NoCycle(category) /\ NoCycle(place) /\ Linked)'
    BY LinksHold, PTL
  <2> QED BY <2>1 DEF Accounted, ItemsAccounted, OrphansAccounted
<1> QED BY <1>1, <1>2, <1>3, PTL DEF CatalogueSpec, CatalogueHolds

-----------------------------------------------------------------------------
(* The rows of batches.                                                    *)

LEMMA SignedInt ==
  ASSUME NEW e, e.qty \in Int
  PROVE  Signed(e) \in Int
BY DEF Signed

LEMMA NetOfNone == Net({}) = 0
  BY SumEmpty DEF Net

LEMMA NetInt ==
  ASSUME NEW rows, Sized(rows)
  PROVE  Net(rows) \in Int
<1> DEFINE f == [e \in rows |-> Signed(e)]
<1>1. \A e \in rows : f[e] \in Int
  BY SignedInt DEF Sized
<1> HIDE DEF f
<1>2. SumFunctionOnSet(f, rows) \in Int
  BY <1>1, SumInt DEF Sized
<1> QED BY <1>2 DEF Net, f

LEMMA NetOfOne ==
  ASSUME NEW e, e.qty \in Int
  PROVE  Net({e}) = Signed(e)
<1> DEFINE f == [x \in {e} |-> Signed(x)]
<1>1. f[e] = Signed(e) /\ f[e] \in Int
  BY SignedInt
<1> HIDE DEF f
<1>2. SumFunctionOnSet(f, {e}) = f[e]
  BY <1>1, SumOne
<1> QED BY <1>1, <1>2 DEF Net, f

LEMMA NetGrows ==
  ASSUME NEW rows, Sized(rows), NEW more, Sized(more), more \cap rows = {}
  PROVE  /\ Net(rows \cup more) = Net(rows) + Net(more)
         /\ Sized(rows \cup more)
<1> DEFINE f == [e \in rows |-> Signed(e)]
           g == [e \in more |-> Signed(e)]
           h == [e \in rows \cup more |-> Signed(e)]
<1>1. \A e \in rows \cup more : h[e] \in Int
  BY SignedInt DEF Sized
<1>2. (\A e \in rows : f[e] = h[e]) /\ (\A e \in more : g[e] = h[e])
  OBVIOUS
<1>3. IsFiniteSet(rows) /\ IsFiniteSet(more) /\ IsFiniteSet(rows \cup more) /\ rows \cap more = {}
  BY FS_Union DEF Sized
<1>4. Net(rows) = SumFunctionOnSet(f, rows) /\ Net(more) = SumFunctionOnSet(g, more)
      /\ Net(rows \cup more) = SumFunctionOnSet(h, rows \cup more)
  BY DEF Net
<1> HIDE DEF f, g, h
<1>5. SumFunctionOnSet(h, rows \cup more) = SumFunctionOnSet(h, rows) + SumFunctionOnSet(h, more)
  BY <1>1, <1>3, SumUnion
<1>6. SumFunctionOnSet(f, rows) = SumFunctionOnSet(h, rows)
      /\ SumFunctionOnSet(g, more) = SumFunctionOnSet(h, more)
  BY <1>2, <1>3, SumSame
<1> QED BY <1>3, <1>4, <1>5, <1>6 DEF Sized

(* The rows of a consumption take what they say from each batch.           *)
LEMMA NetTaken ==
  ASSUME NEW p, NEW S, IsFiniteSet(S), NEW f, \A b \in S : f[b] \in Int
  PROVE  /\ Sized({Entry(p, "PRODUCTION_OUT", f[b], b, "none") : b \in S})
         /\ Net({Entry(p, "PRODUCTION_OUT", f[b], b, "none") : b \in S}) = - SumFunctionOnSet(f, S)
<1> DEFINE Line(b) == Entry(p, "PRODUCTION_OUT", f[b], b, "none")
           Lines(T) == {Line(b) : b \in T}
           Proper(T) == Sized(Lines(T)) /\ Net(Lines(T)) = - SumFunctionOnSet(f, T)
           Bad == {T \in SUBSET S : ~ Proper(T)}
<1>1. SUFFICES ASSUME Bad # {} PROVE FALSE
  <2>1. S \notin Bad
    BY <1>1
  <2>2. Proper(S)
    <3> HIDE DEF Proper
    <3> QED BY <2>1
  <2> QED BY <2>2
<1>2. PICK T \in Bad : \A U \in SUBSET T : U # T => U \notin Bad
  <2>1. Bad \in SUBSET SUBSET S
    OBVIOUS
  <2> HIDE DEF Bad
  <2> QED BY <1>1, <2>1, LeastPart
<1>3. T \in SUBSET S /\ ~ Proper(T)
  BY <1>2
<1>4. T # {}
  <2>1. Lines({}) = {} /\ SumFunctionOnSet(f, {}) = 0
    BY SumEmpty
  <2>2. Sized({})
    BY FS_EmptySet DEF Sized
  <2>3. Proper({})
    BY <2>1, <2>2, NetOfNone
  <2> HIDE DEF Proper
  <2> QED BY <2>3, <1>3
<1>5. PICK m \in T : TRUE
  BY <1>4
<1> DEFINE U == T \ {m}
<1>6. U \in SUBSET T /\ U # T /\ m \notin U /\ T = U \cup {m} /\ U \in SUBSET S
  BY <1>3, <1>5
<1>7. Proper(U)
  <2> HIDE DEF Proper
  <2> QED BY <1>2, <1>6
<1>8. Lines(T) = Lines(U) \cup {Line(m)} /\ {Line(m)} \cap Lines(U) = {}
  BY <1>6 DEF Entry
<1>9. Line(m).qty \in Int /\ Signed(Line(m)) = - f[m] /\ f[m] \in Int
  BY <1>3, <1>5 DEF Entry, Signed, Outgoing
<1>10. Sized({Line(m)}) /\ Net({Line(m)}) = - f[m]
  <2> HIDE DEF Line
  <2> QED BY <1>9, NetOfOne, FS_Singleton DEF Sized
<1>11. Sized(Lines(T)) /\ Net(Lines(T)) = Net(Lines(U)) + (- f[m])
  <2> HIDE DEF Lines, Line
  <2> QED BY <1>7, <1>8, <1>10, NetGrows
<1>12. SumFunctionOnSet(f, T) = f[m] + SumFunctionOnSet(f, U) /\ SumFunctionOnSet(f, U) \in Int
  <2>1. IsFiniteSet(T) /\ IsFiniteSet(U)
    BY <1>3, <1>6, FS_Subset
  <2>2. (\A b \in T : f[b] \in Int) /\ (\A b \in U : f[b] \in Int)
    BY <1>3
  <2> QED BY <2>1, <2>2, <1>5, SumSplits, SumInt
<1>13. Net(Lines(T)) = - SumFunctionOnSet(f, T)
  <2> HIDE DEF Lines
  <2>1. Net(Lines(U)) = - SumFunctionOnSet(f, U)
    BY <1>7
  <2> QED BY <2>1, <1>9, <1>11, <1>12
<1> QED BY <1>3, <1>11, <1>13

-----------------------------------------------------------------------------
(* Consumption takes the batches in order until it has what it wants.      *)

(* The order of the costing method tells the given batches apart.          *)
Ranked(lots) ==
  /\ \A a, b \in lots : a # b => Before(a, b) \/ Before(b, a)
  /\ \A a, b \in lots : Before(a, b) => ~ Before(b, a)
  /\ \A a, b, c \in lots : Before(a, b) /\ Before(b, c) => Before(a, c)

LEMMA OneIsLast ==
  ASSUME NEW S, IsFiniteSet(S), S # {}, Ranked(S)
  PROVE  \E m \in S : \A a \in S \ {m} : Before(a, m)
<1> DEFINE Lasts(u) == {m \in u : \A a \in u \ {m} : Before(a, m)}
           Bad == {u \in SUBSET S : u # {} /\ Lasts(u) = {}}
<1>1. SUFFICES ASSUME Bad # {} PROVE FALSE
  <2>1. S \notin Bad
    BY <1>1
  <2> QED BY <2>1
<1>2. PICK u \in Bad : \A v \in SUBSET u : v # u => v \notin Bad
  <2>1. Bad \in SUBSET SUBSET S
    OBVIOUS
  <2> HIDE DEF Bad
  <2> QED BY <1>1, <2>1, LeastPart
<1>3. u \in SUBSET S /\ u # {} /\ Lasts(u) = {}
  BY <1>2
<1>4. PICK x \in u : TRUE
  BY <1>3
<1> DEFINE v == u \ {x}
<1>5. v \in SUBSET u /\ v # u /\ v \in SUBSET S
  BY <1>3, <1>4
<1>6. v = {} \/ Lasts(v) # {}
  BY <1>2, <1>5
<1>7. v # {}
  BY <1>3, <1>4
<1>8. PICK m \in v : \A a \in v \ {m} : Before(a, m)
  BY <1>6, <1>7
<1>9. x \in S /\ m \in S /\ m # x /\ u = v \cup {x}
  BY <1>3, <1>4, <1>8
<1>10. CASE Before(x, m)
  <2>1. \A a \in u \ {m} : Before(a, m)
    BY <1>8, <1>9, <1>10
  <2>2. m \in Lasts(u)
    BY <1>8, <1>9, <2>1
  <2> QED BY <1>3, <2>2
<1>11. CASE Before(m, x)
  <2>1. \A a \in v : Before(a, x)
    BY <1>5, <1>8, <1>9, <1>11 DEF Ranked
  <2>2. x \in Lasts(u)
    BY <1>4, <1>9, <2>1
  <2> QED BY <1>3, <2>2
<1> QED BY <1>9, <1>10, <1>11 DEF Ranked

Least(a, b) == IF a <= b THEN a ELSE b

LEMMA HoldingGrows ==
  ASSUME NEW S, IsFiniteSet(S), NEW m \in S, \A b \in S : Current(b) \in Nat
  PROVE  /\ Holding(S) \in Nat /\ Holding(S \ {m}) \in Nat
         /\ Holding(S) = Holding(S \ {m}) + Current(m)
<1> DEFINE U == S \ {m}
           f == [b \in S |-> Current(b)]  g == [b \in U |-> Current(b)]
<1>1. (\A b \in S : f[b] \in Nat /\ f[b] \in Int) /\ (\A b \in U : g[b] = f[b] /\ g[b] \in Nat) /\ f[m] = Current(m)
  OBVIOUS
<1>2. IsFiniteSet(U)
  BY FS_Subset
<1>3. Holding(S) = SumFunctionOnSet(f, S) /\ Holding(U) = SumFunctionOnSet(g, U)
  BY DEF Holding
<1> HIDE DEF f, g
<1>4. SumFunctionOnSet(f, S) = f[m] + SumFunctionOnSet(f, U)
  BY <1>1, SumSplits
<1>5. SumFunctionOnSet(g, U) = SumFunctionOnSet(f, U)
  BY <1>1, <1>2, SumSame
<1>6. SumFunctionOnSet(g, U) \in Nat /\ SumFunctionOnSet(f, S) \in Nat
  BY <1>1, <1>2, SumNat
<1> QED BY <1>1, <1>3, <1>4, <1>5, <1>6

LEMMA HoldingOfNone == Holding({}) = 0
  BY SumEmpty DEF Holding

(* The batches before one of the ready batches hold a number.              *)
LEMMA TakenRange ==
  ASSUME NEW S, IsFiniteSet(S), \A b \in S : Current(b) \in Nat, NEW b \in S, NEW qty \in Nat
  PROVE  Taken(b, S, qty) \in Nat /\ Taken(b, S, qty) <= Current(b)
<1> DEFINE A == {a \in S : Before(a, b)}
<1>1. IsFiniteSet(A) /\ \A a \in A : Current(a) \in Nat
  BY FS_Subset
<1>2. Holding(A) \in Nat
  <2>1. CASE A = {}
    BY <2>1, HoldingOfNone
  <2>2. CASE A # {}
    <3> HIDE DEF A
    <3> QED BY <1>1, <2>2, HoldingGrows
  <2> QED BY <2>1, <2>2
<1>3. Current(b) \in Nat
  OBVIOUS
<1> HIDE DEF A
<1> QED BY <1>2, <1>3 DEF Taken, A

(* All that is taken is what is wanted, or all there is.                   *)
LEMMA AllTaken ==
  ASSUME NEW S, IsFiniteSet(S), Ranked(S), \A b \in S : Current(b) \in Nat, NEW qty \in Nat
  PROVE  SumFunctionOnSet([b \in S |-> Taken(b, S, qty)], S) = Least(qty, Holding(S))
<1> DEFINE Takings(T) == SumFunctionOnSet([b \in T |-> Taken(b, T, qty)], T)
           Bad == {T \in SUBSET S : Takings(T) # Least(qty, Holding(T))}
<1>1. SUFFICES ASSUME Bad # {} PROVE FALSE
  <2>1. S \notin Bad
    BY <1>1
  <2> QED BY <2>1
<1>2. PICK T \in Bad : \A U \in SUBSET T : U # T => U \notin Bad
  <2>1. Bad \in SUBSET SUBSET S
    OBVIOUS
  <2> HIDE DEF Bad
  <2> QED BY <1>1, <2>1, LeastPart
<1>3. T \in SUBSET S /\ Takings(T) # Least(qty, Holding(T)) /\ IsFiniteSet(T)
  BY <1>2, FS_Subset
<1>4. T # {}
  <2>1. Takings({}) = 0
    BY SumEmpty
  <2>2. Least(qty, Holding({})) = 0
    BY HoldingOfNone DEF Least
  <2> QED BY <2>1, <2>2, <1>3
<1>5. PICK m \in T : \A a \in T \ {m} : Before(a, m)
  <2>1. Ranked(T)
    BY <1>3 DEF Ranked
  <2> QED BY <1>3, <1>4, <2>1, OneIsLast
<1> DEFINE U == T \ {m}
<1>6. U \in SUBSET T /\ U # T /\ U \in SUBSET S /\ IsFiniteSet(U)
  BY <1>3, <1>5, FS_Subset
<1>7. Takings(U) = Least(qty, Holding(U))
  <2> HIDE DEF Takings
  <2> QED BY <1>2, <1>6
<1>8. \A a \in T : ~ Before(m, a)
  <2>1. ~ Before(m, m)
    BY <1>3, <1>5 DEF Ranked
  <2> QED BY <2>1, <1>3, <1>5 DEF Ranked
<1>9. \A b \in U : Taken(b, U, qty) = Taken(b, T, qty)
  <2> SUFFICES ASSUME NEW b \in U PROVE Taken(b, U, qty) = Taken(b, T, qty)
    OBVIOUS
  <2>1. {a \in T : Before(a, b)} = {a \in U : Before(a, b)}
    BY <1>8
  <2> QED BY <2>1 DEF Taken
<1>10. {a \in T : Before(a, m)} = U
  BY <1>5, <1>8
<1> DEFINE f == [b \in T |-> Taken(b, T, qty)]  g == [b \in U |-> Taken(b, U, qty)]
<1>11. /\ \A b \in T : f[b] \in Int
       /\ \A b \in U : g[b] = f[b] /\ g[b] \in Int
       /\ f[m] = Taken(m, T, qty)
  <2>1. \A b \in T : Taken(b, T, qty) \in Int
    BY <1>3, TakenRange
  <2> QED BY <2>1, <1>5, <1>6, <1>9
<1>12. Takings(T) = SumFunctionOnSet(f, T) /\ Takings(U) = SumFunctionOnSet(g, U)
  OBVIOUS
<1> HIDE DEF f, g, Takings
<1>13. SumFunctionOnSet(f, T) = f[m] + SumFunctionOnSet(f, U)
  BY <1>3, <1>5, <1>11, SumSplits
<1>14. SumFunctionOnSet(g, U) = SumFunctionOnSet(f, U) /\ SumFunctionOnSet(g, U) \in Int
  BY <1>6, <1>11, SumSame, SumInt
<1>15. Takings(T) = Taken(m, T, qty) + Least(qty, Holding(U))
  BY <1>7, <1>11, <1>12, <1>13, <1>14
<1>16. Holding(T) = Holding(U) + Current(m) /\ Holding(U) \in Nat /\ Current(m) \in Nat
  BY <1>3, <1>5, HoldingGrows
<1>17. Taken(m, T, qty) =
         IF qty - Holding(U) <= 0 THEN 0
         ELSE IF qty - Holding(U) < Current(m) THEN qty - Holding(U) ELSE Current(m)
  <2> HIDE DEF U
  <2> QED BY <1>10 DEF Taken
<1> HIDE DEF U
<1>18. Takings(T) = Least(qty, Holding(T))
  BY <1>15, <1>16, <1>17 DEF Least
<1> QED BY <1>3, <1>18

-----------------------------------------------------------------------------
(* The invariant: what the rows say of their batches, and the accounts.    *)

LotRow == [st : LotStatuses \cup {"none"}, initial : Nat, current : Int, cost : Int, seq : Nat]

Trades == {"PURCHASE_IN", "RETURN_TO_SUPPLIER"}

InRow(b) == Entry(b, "PURCHASE_IN", lot[b].initial, b, "none")

OutRow(b) == Entry(b, "RETURN_TO_SUPPLIER", lot[b].initial, b, b)

(* A row has a batch that came, or none; a receiving and its correction    *)
(* are caused by their batch and say all of it.                            *)
RowHolds(e) ==
  /\ e.qty \in Nat \ {0}
  /\ e.lot \in Opened \cup {"none"}
  /\ e.by \in Batches => e.by \in Opened /\ (e = InRow(e.by) \/ e = OutRow(e.by))
  /\ e.by \notin Batches => e.type \notin Trades /\ e.of \notin Batches
  /\ e.by \in Commands => e.lot \in Opened /\ e.type \in {"ADJUSTMENT_PLUS", "ADJUSTMENT_MINUS", "WASTE"}

PetitionsTyped ==
  /\ petition \in [Requests -> [st : {"none", "PENDING", "REJECTED", "APPROVED"}, change : Int]]
  /\ \A q \in Requests : petition[q].st # "none" => petition[q].change # 0

BatchesTyped ==
  /\ lot \in [Batches -> LotRow]
  /\ \A b \in Opened : lot[b].initial > 0
  /\ shelf \in Nat /\ avg \in Int
  /\ IsFiniteSet(log) /\ \A e \in log : RowHolds(e)
  /\ PetitionsTyped

(* Batches are numbered as they come.                                      *)
Numbered ==
  /\ \A b \in Opened : lot[b].seq <= Cardinality(Opened)
  /\ \A a, b \in Opened : a # b => lot[a].seq # lot[b].seq

OnLot(rows, b) == {e \in rows : e.lot = b /\ e.type # "PURCHASE_IN"}

LotsAccounted == \A b \in Opened : lot[b].current = lot[b].initial + Net(OnLot(log, b))

ShelfAccounted == shelf = Net(log)

UndoneOnce == \A e, f \in log : e.of # "none" /\ e.of = f.of => e = f

Answered == \A q \in Requests : petition[q].st = "APPROVED" <=> \E e \in log : e.by = q

(* What a step does to the books: the rows it adds are new, the level      *)
(* moves by all of them, a batch by those that name it, and a batch that   *)
(* comes is whole.                                                         *)
Kept ==
  \A b \in Opened : /\ b \in Opened'
                    /\ lot'[b].initial = lot[b].initial
                    /\ lot'[b].cost = lot[b].cost
                    /\ lot'[b].seq = lot[b].seq

Seated ==
  \/ Opened' = Opened
  \/ \E b \in Batches \ Opened : Opened' = Opened \cup {b} /\ lot'[b].seq = Cardinality(Opened) + 1

Entered(rows) ==
  /\ Kept /\ Seated
  /\ log' = log \cup rows /\ rows \cap log = {} /\ IsFiniteSet(rows)
  /\ \A e \in rows : e.qty \in Nat \ {0}
  /\ shelf' = shelf + Net(rows)
  /\ \A b \in Opened : lot'[b].current = lot[b].current + Net(OnLot(rows, b))
  /\ \A b \in Opened' \ Opened : lot'[b].current = lot'[b].initial /\ OnLot(rows, b) = {}

LEMMA OnLotOfOne ==
  ASSUME NEW e, NEW b
  PROVE  OnLot({e}, b) = IF e.lot = b /\ e.type # "PURCHASE_IN" THEN {e} ELSE {}
BY DEF OnLot

(* A step that moves no quantity.                                          *)
LEMMA NothingBooked ==
  ASSUME BatchesTyped, Kept, Seated, log' = log, shelf' = shelf,
         \A b \in Opened : lot'[b].current = lot[b].current,
         \A b \in Opened' \ Opened : lot'[b].current = lot'[b].initial
  PROVE  Entered({})
<1>1. \A b \in Opened : lot[b].current \in Int
  BY DEF BatchesTyped, LotRow, Opened
<1>2. \A b : OnLot({}, b) = {}
  BY DEF OnLot
<1>3. IsFiniteSet({})
  BY FS_EmptySet
<1>4. shelf' = shelf + Net({}) /\ log' = log \cup {}
  BY NetOfNone DEF BatchesTyped
<1>5. \A b \in Opened : lot'[b].current = lot[b].current + Net(OnLot({}, b))
  BY <1>1, <1>2, NetOfNone
<1> QED BY <1>2, <1>3, <1>4, <1>5 DEF Entered

(* A step that books one row.                                              *)
LEMMA OneBooked ==
  ASSUME BatchesTyped, NEW e, e.qty \in Nat \ {0}, Kept, Seated, e \notin log, log' = log \cup {e},
         shelf' = shelf + Signed(e),
         \A b \in Opened : lot'[b].current =
           lot[b].current + (IF e.lot = b /\ e.type # "PURCHASE_IN" THEN Signed(e) ELSE 0),
         \A b \in Opened' \ Opened :
           lot'[b].current = lot'[b].initial /\ (e.lot = b => e.type = "PURCHASE_IN")
  PROVE  Entered({e})
<1>1. Net({e}) = Signed(e)
  BY NetOfOne
<1>2. \A b \in Opened : lot'[b].current = lot[b].current + Net(OnLot({e}, b))
  BY <1>1, OnLotOfOne, NetOfNone
<1>3. \A b \in Opened' \ Opened : OnLot({e}, b) = {}
  BY OnLotOfOne
<1>4. IsFiniteSet({e}) /\ {e} \cap log = {}
  BY FS_Singleton
<1> QED BY <1>1, <1>2, <1>3, <1>4 DEF Entered

LEMMA CreateBooked ==
  ASSUME BatchesTyped, NEW b \in Batches, NEW qty \in Sizes, CreateLot(b, qty)
  PROVE  Entered({})
<1>1. b \notin Opened /\ Opened' = Opened \cup {b}
  BY DEF CreateLot, NewLot, Opened, BatchesTyped
<1>2. \A x \in Opened : lot'[x] = lot[x]
  BY <1>1 DEF CreateLot, Opened, BatchesTyped
<1>3. lot'[b].current = lot'[b].initial /\ lot'[b].seq = Cardinality(Opened) + 1
  BY DEF CreateLot, NewLot, BatchesTyped
<1>4. Seated
  BY <1>1, <1>3 DEF Seated
<1> QED BY <1>1, <1>2, <1>3, <1>4, NothingBooked DEF CreateLot, Kept

LEMMA ReceiveBooked ==
  ASSUME BatchesTyped, NEW b \in Batches, NEW qty \in Sizes, NEW price \in Prices, ReceiveLot(b, qty, price)
  PROVE  Entered({Entry(b, "PURCHASE_IN", qty, b, "none")})
<1> DEFINE e == Entry(b, "PURCHASE_IN", qty, b, "none")
<1>1. b \notin Opened /\ Opened' = Opened \cup {b}
  BY DEF ReceiveLot, NewLot, Opened, BatchesTyped
<1>2. \A x \in Opened : lot'[x] = lot[x] /\ lot[x].current \in Int
  BY <1>1 DEF ReceiveLot, Opened, BatchesTyped, LotRow
<1>3. lot'[b].current = lot'[b].initial /\ lot'[b].seq = Cardinality(Opened) + 1
  BY DEF ReceiveLot, NewLot, BatchesTyped
<1>4. qty \in Nat \ {0}
  BY StockBatchesAssumption
<1>5. e.qty = qty /\ e.type = "PURCHASE_IN" /\ e.by = b /\ Signed(e) = qty
  BY DEF Entry, Signed, Outgoing
<1>6. e \notin log
  BY <1>1, <1>5 DEF BatchesTyped, RowHolds
<1>7. log' = log \cup {e} /\ shelf' = shelf + qty
  BY DEF ReceiveLot
<1>8. Seated
  BY <1>1, <1>3 DEF Seated
<1> HIDE DEF e
<1>9. Entered({e})
  BY <1>1, <1>2, <1>3, <1>4, <1>5, <1>6, <1>7, <1>8, OneBooked DEF Kept
<1> QED BY <1>9 DEF e

(* The row of a receiving, and what undoes it.                             *)
LEMMA CameAsSaid ==
  ASSUME BatchesTyped, NEW b \in Batches, Came(b) # {}
  PROVE  b \in Opened /\ InRow(b) \in log
<1>1. PICK e \in log : e.by = b /\ e.type = "PURCHASE_IN"
  BY DEF Came
<1>2. b \in Opened /\ (e = InRow(b) \/ e = OutRow(b))
  BY <1>1 DEF BatchesTyped, RowHolds
<1>3. e # OutRow(b)
  BY <1>1 DEF OutRow, Entry
<1> QED BY <1>1, <1>2, <1>3

LEMMA CorrectBooked ==
  ASSUME BatchesTyped, NEW b \in Batches, CorrectReceiving(b)
  PROVE  Entered({OutRow(b)})
<1> DEFINE e == OutRow(b)
<1>1. b \in Opened
  BY CameAsSaid DEF CorrectReceiving
<1>2. lot[b] \in LotRow /\ lot[b].initial > 0
  BY <1>1 DEF BatchesTyped
<1>3. lot' = [lot EXCEPT ![b].current = @ - lot[b].initial]
  BY DEF CorrectReceiving
<1>4. /\ \A x \in Opened : x # b => lot'[x] = lot[x]
      /\ lot'[b] = [lot[b] EXCEPT !.current = lot[b].current - lot[b].initial]
  BY <1>3 DEF BatchesTyped, Opened
<1>5. \A x \in Opened : /\ lot'[x].st = lot[x].st /\ lot'[x].initial = lot[x].initial
                        /\ lot'[x].cost = lot[x].cost /\ lot'[x].seq = lot[x].seq
  BY <1>2, <1>4 DEF LotRow
<1>6. Opened' = Opened
  BY <1>2, <1>3 DEF BatchesTyped, Opened, LotRow
<1>7. Kept /\ Seated
  BY <1>5, <1>6 DEF Kept, Seated
<1>8. e.qty = lot[b].initial /\ e.type = "RETURN_TO_SUPPLIER" /\ e.of = b /\ e.lot = b
      /\ Signed(e) = - lot[b].initial
  BY DEF OutRow, Entry, Signed, Outgoing
<1>9. e \notin log
  BY <1>8 DEF CorrectReceiving
<1>10. log' = log \cup {e} /\ shelf' = shelf - lot[b].initial
  BY DEF CorrectReceiving, OutRow
<1>11. lot[b].initial \in Nat \ {0} /\ \A x \in Opened : lot[x].current \in Int
  BY <1>2 DEF LotRow, BatchesTyped, Opened
<1>12. \A x \in Opened : lot'[x].current = lot[x].current + (IF x = b THEN - lot[b].initial ELSE 0)
  BY <1>2, <1>4, <1>11 DEF LotRow
<1>13. shelf' = shelf + Signed(e)
  BY <1>2, <1>8, <1>10 DEF BatchesTyped, LotRow
<1> HIDE DEF e
<1>14. Entered({e})
  BY <1>6, <1>7, <1>8, <1>9, <1>10, <1>11, <1>12, <1>13, OneBooked
<1> QED BY <1>14 DEF e

LEMMA StatusBooked ==
  ASSUME BatchesTyped, NEW b \in Batches, NEW st \in Marks, SetLotStatus(b, st)
  PROVE  Entered({})
<1>1. st # "none"
  BY StockBatchesAssumption DEF LotStatuses
<1>2. lot[b] \in LotRow /\ b \in Opened
  BY DEF BatchesTyped, SetLotStatus, Opened
<1>3. /\ \A x \in Batches : x # b => lot'[x] = lot[x]
      /\ lot'[b] = [lot[b] EXCEPT !.st = st]
  BY DEF BatchesTyped, SetLotStatus
<1>4. \A x \in Batches : /\ lot'[x].initial = lot[x].initial /\ lot'[x].current = lot[x].current
                         /\ lot'[x].cost = lot[x].cost /\ lot'[x].seq = lot[x].seq
  BY <1>2, <1>3 DEF LotRow
<1>5. Opened' = Opened
  BY <1>1, <1>2, <1>3 DEF LotRow, Opened
<1>6. Kept /\ \A x \in Opened : lot'[x].current = lot[x].current
  BY <1>4, <1>5 DEF Kept, Opened
<1> QED BY <1>5, <1>6, NothingBooked DEF SetLotStatus, Seated

LEMMA AdjustBooked ==
  ASSUME BatchesTyped, NEW a \in Commands, NEW b \in Opened, NEW qty \in Nat \ {0}, NEW of,
         NEW type \in {"ADJUSTMENT_PLUS", "ADJUSTMENT_MINUS", "WASTE"},
         Adjust(a, b, type, qty, of)
  PROVE  Entered({Entry(a, type, qty, b, of)})
<1> DEFINE e == Entry(a, type, qty, b, of)
           change == IF type \in Outgoing THEN - qty ELSE qty
<1>1. b \in Batches /\ lot[b] \in LotRow /\ change \in Int
  BY DEF BatchesTyped, Opened
<1>2. lot' = [lot EXCEPT ![b].current = @ + change]
  BY DEF Adjust
<1>3. /\ \A x \in Batches : x # b => lot'[x] = lot[x]
      /\ lot'[b] = [lot[b] EXCEPT !.current = lot[b].current + change]
  BY <1>1, <1>2 DEF BatchesTyped
<1> HIDE DEF change
<1>4. \A x \in Batches : /\ lot'[x].st = lot[x].st /\ lot'[x].initial = lot[x].initial
                         /\ lot'[x].cost = lot[x].cost /\ lot'[x].seq = lot[x].seq
  BY <1>1, <1>3 DEF LotRow
<1>5. Opened' = Opened /\ Kept /\ Seated
  BY <1>4 DEF Kept, Opened, Seated
<1>6. e.qty = qty /\ e.type = type /\ e.by = a /\ e.lot = b /\ Signed(e) = change
  BY DEF Entry, Signed, change
<1>7. e \notin log
  BY <1>6 DEF Adjust
<1>8. log' = log \cup {e} /\ shelf' = shelf + change
  BY DEF Adjust, change
<1> HIDE DEF e
<1>9. \A x \in Opened : lot'[x].current = lot[x].current + (IF x = b THEN change ELSE 0)
  <2>1. \A x \in Opened : x \in Batches /\ lot[x].current \in Int
    BY DEF BatchesTyped, LotRow, Opened
  <2>2. lot'[b].current = lot[b].current + change
    BY <1>1, <1>3 DEF LotRow
  <2>3. ASSUME NEW x \in Opened, x # b PROVE lot'[x].current = lot[x].current + 0
    BY <1>3, <2>1, <2>3
  <2> QED BY <2>2, <2>3
<1>10. type # "PURCHASE_IN"
  OBVIOUS
<1>11. Entered({e})
  BY <1>5, <1>6, <1>7, <1>8, <1>9, <1>10, OneBooked
<1> QED BY <1>11 DEF e

LEMMA ByHandBooked ==
  ASSUME BatchesTyped, NEW a \in Commands, NEW b \in Batches, NEW qty \in Losses,
         NEW type \in {"ADJUSTMENT_PLUS", "WASTE"}, AdjustByHand(a, b, type, qty)
  PROVE  b \in Opened /\ qty \in Nat \ {0} /\ Entered({Entry(a, type, qty, b, "none")})
<1>1. b \in Opened /\ qty \in Nat \ {0} /\ Adjust(a, b, type, qty, "none")
  BY StockBatchesAssumption DEF AdjustByHand, Opened
<1> QED BY <1>1, AdjustBooked

LEMMA ReverseBooked ==
  ASSUME BatchesTyped, NEW a \in Commands, NEW e \in log, Reverse(a, e)
  PROVE  /\ e.lot \in Opened /\ e.qty \in Nat \ {0} /\ e.by \in Commands
         /\ Opposite(e.type) \in {"ADJUSTMENT_PLUS", "ADJUSTMENT_MINUS"}
         /\ Entered({Entry(a, Opposite(e.type), e.qty, e.lot, e.by)})
<1>1. e.lot \in Opened /\ e.qty \in Nat \ {0} /\ e.by \in Commands
  BY DEF Reverse, BatchesTyped, RowHolds
<1>2. Opposite(e.type) \in {"ADJUSTMENT_PLUS", "ADJUSTMENT_MINUS"}
  BY DEF Opposite
<1>3. Adjust(a, e.lot, Opposite(e.type), e.qty, e.by)
  BY DEF Reverse
<1>4. Entered({Entry(a, Opposite(e.type), e.qty, e.lot, e.by)})
  BY <1>1, <1>2, <1>3, AdjustBooked
<1> QED BY <1>1, <1>2, <1>4

LEMMA RequestBooked ==
  ASSUME BatchesTyped, NEW q \in Requests,
         (\E change \in Changes : AskAdjustment(q, change)) \/ RejectAdjustment(q)
  PROVE  Entered({}) /\ lot' = lot /\ shelf' = shelf /\ avg' = avg /\ log' = log
<1>1. lot' = lot /\ shelf' = shelf /\ avg' = avg /\ log' = log
  BY DEF AskAdjustment, RejectAdjustment
<1>2. Opened' = Opened /\ Kept /\ Seated
  BY <1>1 DEF Opened, Kept, Seated
<1> QED BY <1>1, <1>2, NothingBooked

ApprovalRow(q) ==
  IF petition[q].change > 0 THEN Entry(q, "ADJUSTMENT_PLUS", petition[q].change, "none", "none")
                            ELSE Entry(q, "ADJUSTMENT_MINUS", - petition[q].change, "none", "none")

LEMMA ApproveBooked ==
  ASSUME BatchesTyped, Answered, NEW q \in Requests, ApproveAdjustment(q)
  PROVE  /\ ApprovalRow(q).qty \in Nat \ {0} /\ ApprovalRow(q).by = q
         /\ ApprovalRow(q).lot = "none" /\ ApprovalRow(q).of = "none"
         /\ ApprovalRow(q).type \in {"ADJUSTMENT_PLUS", "ADJUSTMENT_MINUS"}
         /\ Entered({ApprovalRow(q)})
<1> DEFINE e == ApprovalRow(q)  change == petition[q].change
<1>1. petition[q].st = "PENDING" /\ change \in Int /\ change # 0
  BY DEF BatchesTyped, PetitionsTyped, ApproveAdjustment
<1>2. lot' = lot /\ log' = log \cup {e} /\ shelf' = shelf + change
  BY DEF ApproveAdjustment, ApprovalRow
<1>3. e.qty \in Nat \ {0} /\ e.by = q /\ e.lot = "none" /\ e.of = "none" /\ Signed(e) = change
      /\ e.type \in {"ADJUSTMENT_PLUS", "ADJUSTMENT_MINUS"}
  BY <1>1 DEF ApprovalRow, Entry, Signed, Outgoing
<1>4. e \notin log
  BY <1>1, <1>3 DEF Answered
<1>5. Opened' = Opened /\ Kept /\ Seated
  BY <1>2 DEF Opened, Kept, Seated
<1>6. \A b \in Opened : b # "none" /\ lot'[b].current = lot[b].current + 0
  BY <1>2, StockBatchesAssumption DEF BatchesTyped, LotRow, Opened
<1> HIDE DEF e, change
<1>7. Entered({e})
  BY <1>2, <1>3, <1>4, <1>5, <1>6, OneBooked
<1> QED BY <1>3, <1>7 DEF e

LEMMA OpenedRanked ==
  ASSUME BatchesTyped, Numbered, NEW S \in SUBSET Opened
  PROVE  Ranked(S)
<1>1. \A b \in S : lot[b].seq \in Nat /\ Expiry[b] \in Nat /\ b \in Opened
  BY StockBatchesAssumption DEF BatchesTyped, LotRow, Opened
<1>2. \A a, b \in S : a # b => lot[a].seq # lot[b].seq
  BY DEF Numbered
<1>3. Method \in {"FIFO", "LIFO", "FEFO"}
  BY StockBatchesAssumption
<1>4. \A a, b \in S : a # b => Before(a, b) \/ Before(b, a)
  <2>1. CASE Method = "FIFO"
    BY <1>1, <1>2, <2>1 DEF Before
  <2>2. CASE Method = "LIFO"
    BY <1>1, <1>2, <2>2 DEF Before
  <2>3. CASE Method = "FEFO"
    BY <1>1, <1>2, <2>3 DEF Before
  <2> QED BY <1>3, <2>1, <2>2, <2>3
<1>5. \A a, b \in S : Before(a, b) => ~ Before(b, a)
  <2>1. CASE Method = "FIFO"
    BY <1>1, <1>2, <2>1 DEF Before
  <2>2. CASE Method = "LIFO"
    BY <1>1, <1>2, <2>2 DEF Before
  <2>3. CASE Method = "FEFO"
    BY <1>1, <1>2, <2>3 DEF Before
  <2> QED BY <1>3, <2>1, <2>2, <2>3
<1>6. \A a, b, c \in S : Before(a, b) /\ Before(b, c) => Before(a, c)
  <2>1. CASE Method = "FIFO"
    BY <1>1, <1>2, <2>1 DEF Before
  <2>2. CASE Method = "LIFO"
    BY <1>1, <1>2, <2>2 DEF Before
  <2>3. CASE Method = "FEFO"
    BY <1>1, <1>2, <2>3 DEF Before
  <2> QED BY <1>3, <2>1, <2>2, <2>3
<1> QED BY <1>4, <1>5, <1>6 DEF Ranked

(* What a consumption takes, and from which batches.                       *)
TakenOf(qty, today) == [b \in Ready(today) |-> Taken(b, Ready(today), qty)]

TakenFrom(qty, today) == {b \in Ready(today) : TakenOf(qty, today)[b] > 0}

TakenRows(p, qty, today) ==
  {Entry(p, "PRODUCTION_OUT", TakenOf(qty, today)[b], b, "none") : b \in TakenFrom(qty, today)}

LEMMA TakesAll ==
  ASSUME BatchesTyped, Numbered, NEW qty \in Nat, NEW today, Holding(Ready(today)) >= qty
  PROVE  /\ Ready(today) \in SUBSET Opened /\ IsFiniteSet(Ready(today))
         /\ \A b \in Ready(today) : TakenOf(qty, today)[b] \in Nat
         /\ IsFiniteSet(TakenFrom(qty, today))
         /\ SumFunctionOnSet(TakenOf(qty, today), TakenFrom(qty, today)) = qty
<1> DEFINE R == Ready(today)  f == TakenOf(qty, today)  F == TakenFrom(qty, today)
<1>1. R \in SUBSET Opened /\ \A b \in R : Current(b) \in Nat
  BY DEF Ready, Opened, Current, BatchesTyped, LotRow
<1>2. IsFiniteSet(R)
  BY <1>1, FS_Subset, StockBatchesAssumption DEF Opened
<1>3. Ranked(R)
  BY <1>1, OpenedRanked
<1>4. \A b \in R : f[b] \in Nat
  <2> SUFFICES ASSUME NEW b \in R PROVE f[b] \in Nat
    OBVIOUS
  <2>1. f[b] = Taken(b, R, qty)
    BY DEF TakenOf
  <2> HIDE DEF R, f
  <2> QED BY <1>1, <1>2, <2>1, TakenRange
<1>5. SumFunctionOnSet(f, R) = Least(qty, Holding(R))
  <2>1. f = [b \in R |-> Taken(b, R, qty)]
    BY DEF TakenOf
  <2> HIDE DEF R, f
  <2> QED BY <1>1, <1>2, <1>3, <2>1, AllTaken
<1>6. F \in SUBSET R /\ \A b \in R \ F : f[b] = 0
  BY <1>4 DEF TakenFrom
<1>7. IsFiniteSet(F) /\ \A b \in F : f[b] \in Int
  BY <1>2, <1>4, <1>6, FS_Subset
<1>8. Holding(R) >= qty
  OBVIOUS
<1> HIDE DEF R, f, F
<1>9. Holding(R) \in Nat
  <2>1. ASSUME NEW m \in R PROVE Holding(R) \in Nat
    BY <1>1, <1>2, HoldingGrows
  <2> QED BY <2>1, HoldingOfNone
<1>10. SumFunctionOnSet(f, R) = SumFunctionOnSet(f, F)
  BY <1>2, <1>6, <1>7, SumOver
<1>11. SumFunctionOnSet(f, F) = qty
  BY <1>5, <1>8, <1>9, <1>10 DEF Least
<1> QED BY <1>1, <1>2, <1>4, <1>7, <1>11 DEF R, f, F

LEMMA ConsumeBooked ==
  ASSUME BatchesTyped, Numbered, NEW p \in Consumers, NEW qty \in Sizes, NEW today, Consume(p, qty, today)
  PROVE  /\ Entered(TakenRows(p, qty, today))
         /\ TakenFrom(qty, today) # {} /\ TakenFrom(qty, today) \in SUBSET Opened
         /\ \A b \in TakenFrom(qty, today) : TakenOf(qty, today)[b] \in Nat \ {0}
<1> DEFINE R == Ready(today)  f == TakenOf(qty, today)  F == TakenFrom(qty, today)
           row(b) == Entry(p, "PRODUCTION_OUT", f[b], b, "none")  rows == {row(b) : b \in F}
<1>1. qty \in Nat \ {0} /\ Holding(R) >= qty
  BY StockBatchesAssumption DEF Consume
<1>2. /\ R \in SUBSET Opened /\ IsFiniteSet(R) /\ (\A b \in R : f[b] \in Nat)
      /\ IsFiniteSet(F) /\ SumFunctionOnSet(f, F) = qty
  <2>1. Holding(Ready(today)) >= qty /\ qty \in Nat
    BY <1>1
  <2> QED BY <2>1, TakesAll
<1>3. F \in SUBSET R /\ (\A b \in F : f[b] \in Nat \ {0}) /\ \A b \in R \ F : f[b] = 0
  BY <1>2 DEF TakenFrom
<1>4. Sized(rows) /\ Net(rows) = - qty
  <2>1. \A b \in F : f[b] \in Int
    BY <1>3
  <2>2. IsFiniteSet(F) /\ SumFunctionOnSet(f, F) = qty
    BY <1>2
  <2> HIDE DEF f, F
  <2>3. Sized(rows) /\ Net(rows) = - SumFunctionOnSet(f, F)
    BY Zenon, <2>1, <2>2, NetTaken
  <2> QED BY <2>2, <2>3
<1>5. \A e \in rows : e.by = p /\ e.type = "PRODUCTION_OUT" /\ e.qty \in Nat \ {0}
  BY <1>3 DEF Entry
<1>6. \A b \in Opened : OnLot(rows, b) = IF b \in F THEN {row(b)} ELSE {}
  BY DEF OnLot, Entry
<1>7. \A b \in F : Net({row(b)}) = - f[b]
  <2> SUFFICES ASSUME NEW b \in F PROVE Net({row(b)}) = - f[b]
    OBVIOUS
  <2>1. row(b).qty \in Int /\ Signed(row(b)) = - f[b]
    BY <1>3 DEF Entry, Signed, Outgoing
  <2> HIDE DEF row
  <2> QED BY <2>1, NetOfOne
<1>8. lot' = [b \in Batches |->
               IF b \notin F THEN lot[b]
               ELSE [lot[b] EXCEPT !.current = @ - f[b],
                                   !.st = IF f[b] = Current(b) THEN "CONSUMED" ELSE @]]
      /\ log' = log \cup rows /\ shelf' = shelf - qty /\ \A e \in log : e.by # p
  BY DEF Consume, TakenOf, TakenFrom
<1>9. F # {}
  BY <1>1, <1>2, SumEmpty
<1> HIDE DEF R, f, F, row, rows
<1>10. \A b \in Batches : lot[b] \in LotRow
  BY DEF BatchesTyped
<1>11. \A b \in F : b \in Batches /\ lot'[b] = [lot[b] EXCEPT !.current = lot[b].current - f[b],
                                        !.st = IF f[b] = Current(b) THEN "CONSUMED" ELSE lot[b].st]
  BY <1>2, <1>3, <1>8, <1>10 DEF Opened
<1>12. \A b \in Batches \ F : lot'[b] = lot[b]
  BY <1>8
<1>13. \A b \in F : /\ lot'[b].current = lot[b].current - f[b] /\ lot'[b].initial = lot[b].initial
                    /\ lot'[b].cost = lot[b].cost /\ lot'[b].seq = lot[b].seq
                    /\ lot'[b].st \in {lot[b].st, "CONSUMED"}
  <2> SUFFICES ASSUME NEW b \in F
               PROVE  /\ lot'[b].current = lot[b].current - f[b] /\ lot'[b].initial = lot[b].initial
                      /\ lot'[b].cost = lot[b].cost /\ lot'[b].seq = lot[b].seq
                      /\ lot'[b].st \in {lot[b].st, "CONSUMED"}
    OBVIOUS
  <2> DEFINE st == IF f[b] = Current(b) THEN "CONSUMED" ELSE lot[b].st  n == lot[b].current - f[b]
  <2>1. lot[b] \in LotRow /\ lot'[b] = [lot[b] EXCEPT !.current = n, !.st = st] /\ st \in {lot[b].st, "CONSUMED"}
    BY <1>10, <1>11
  <2> HIDE DEF st, n
  <2>2. lot'[b].current = n /\ lot'[b].initial = lot[b].initial
        /\ lot'[b].cost = lot[b].cost /\ lot'[b].seq = lot[b].seq /\ lot'[b].st = st
    BY <2>1 DEF LotRow
  <2> QED BY <2>1, <2>2 DEF n
<1>14. Opened' = Opened
  BY <1>2, <1>3, <1>12, <1>13 DEF Opened
<1>15. Kept /\ Seated
  BY <1>12, <1>13, <1>14 DEF Kept, Opened, Seated
<1>16. \A b \in Opened : lot'[b].current = lot[b].current + Net(OnLot(rows, b))
  <2> SUFFICES ASSUME NEW b \in Opened PROVE lot'[b].current = lot[b].current + Net(OnLot(rows, b))
    OBVIOUS
  <2>1. b \in Batches /\ lot[b].current \in Int
    BY <1>10 DEF Opened, LotRow
  <2>2. CASE b \in F
    BY <1>3, <1>6, <1>7, <1>13, <2>1, <2>2
  <2>3. CASE b \notin F
    <3>1. lot'[b] = lot[b] /\ OnLot(rows, b) = {}
      BY <1>6, <1>12, <2>1, <2>3
    <3>2. lot[b].current + Net({}) = lot[b].current
      BY <2>1, NetOfNone
    <3> QED BY <3>1, <3>2
  <2> QED BY <2>2, <2>3
<1>17. rows \cap log = {} /\ IsFiniteSet(rows)
  BY <1>4, <1>5, <1>8 DEF Sized
<1>18. shelf' = shelf + Net(rows)
  BY <1>1, <1>4, <1>8 DEF BatchesTyped
<1>19. Entered(rows)
  BY <1>5, <1>8, <1>14, <1>15, <1>16, <1>17, <1>18 DEF Entered
<1> QED BY <1>2, <1>3, <1>9, <1>19 DEF R, f, F, row, rows, TakenRows

-----------------------------------------------------------------------------
(* A step that books its rows keeps the accounts and the numbers.          *)

LEMMA AccountsStep ==
  ASSUME BatchesTyped, LotsAccounted, ShelfAccounted, NEW rows, Entered(rows),
         lot' \in [Batches -> LotRow]
  PROVE  LotsAccounted' /\ ShelfAccounted'
<1>1. Sized(log) /\ Sized(rows) /\ rows \cap log = {} /\ log' = log \cup rows
  BY DEF BatchesTyped, RowHolds, Entered, Sized
<1>2. Net(log') = Net(log) + Net(rows)
  BY <1>1, NetGrows
<1>3. ASSUME NEW b
      PROVE  /\ OnLot(log', b) = OnLot(log, b) \cup OnLot(rows, b)
             /\ OnLot(rows, b) \cap OnLot(log, b) = {}
             /\ Sized(OnLot(log, b)) /\ Sized(OnLot(rows, b))
  <2>1. OnLot(log', b) = OnLot(log, b) \cup OnLot(rows, b)
    BY <1>1 DEF OnLot
  <2>2. OnLot(log, b) \in SUBSET log /\ OnLot(rows, b) \in SUBSET rows
    BY DEF OnLot
  <2>3. Sized(OnLot(log, b)) /\ Sized(OnLot(rows, b))
    BY <1>1, <2>2, FS_Subset DEF Sized
  <2> QED BY <1>1, <2>1, <2>2, <2>3
<1>4. \A b : Net(OnLot(log', b)) = Net(OnLot(log, b)) + Net(OnLot(rows, b))
             /\ Net(OnLot(log, b)) \in Int /\ Net(OnLot(rows, b)) \in Int
  BY <1>3, NetGrows, NetInt
<1>5. ASSUME NEW b \in Opened' PROVE lot'[b].current = lot'[b].initial + Net(OnLot(log', b))
  <2>1. CASE b \in Opened
    <3>1. lot[b].current \in Int /\ lot[b].initial \in Int
      BY <2>1 DEF BatchesTyped, LotRow, Opened
    <3>2. lot'[b].current = lot[b].current + Net(OnLot(rows, b)) /\ lot'[b].initial = lot[b].initial
      BY <2>1 DEF Entered, Kept
    <3>3. lot[b].current = lot[b].initial + Net(OnLot(log, b))
      BY <2>1 DEF LotsAccounted
    <3> HIDE DEF OnLot
    <3> QED BY <1>4, <3>1, <3>2, <3>3
  <2>2. CASE b \notin Opened
    <3>1. lot'[b].current = lot'[b].initial /\ OnLot(rows, b) = {}
      BY <2>2 DEF Entered
    <3>2. b \in Batches /\ b # "none"
      BY StockBatchesAssumption DEF Opened
    <3>3. OnLot(log, b) = {}
      BY <2>2, <3>2 DEF OnLot, BatchesTyped, RowHolds
    <3>4. Net(OnLot(log', b)) = 0
      BY <1>3, <3>1, <3>3, NetOfNone
    <3>5. lot'[b].initial \in Nat
      BY <3>2 DEF LotRow
    <3> QED BY <3>1, <3>4, <3>5
  <2> QED BY <2>1, <2>2
<1>6. LotsAccounted'
  BY <1>5 DEF LotsAccounted
<1>7. ShelfAccounted'
  BY <1>2 DEF ShelfAccounted, Entered
<1> QED BY <1>6, <1>7

LEMMA NumberedStep ==
  ASSUME BatchesTyped, Numbered, NEW rows, Entered(rows)
  PROVE  Numbered'
<1>1. IsFiniteSet(Opened) /\ Cardinality(Opened) \in Nat
  BY FS_Subset, FS_CardinalityType, StockBatchesAssumption DEF Opened
<1>2. \A b \in Opened : b \in Opened' /\ lot'[b].seq = lot[b].seq /\ lot[b].seq \in Nat
  BY DEF Entered, Kept, BatchesTyped, LotRow, Opened
<1>3. CASE Opened' = Opened
  BY <1>2, <1>3 DEF Numbered
<1>4. CASE Opened' # Opened
  <2>1. PICK b \in Batches \ Opened : Opened' = Opened \cup {b} /\ lot'[b].seq = Cardinality(Opened) + 1
    BY <1>4 DEF Entered, Seated
  <2>2. Cardinality(Opened') = Cardinality(Opened) + 1
    BY <1>1, <2>1, FS_AddElement
  <2>3. \A x \in Opened' : lot'[x].seq <= Cardinality(Opened')
    BY <1>1, <1>2, <2>1, <2>2 DEF Numbered
  <2>4. \A x, y \in Opened' : x # y => lot'[x].seq # lot'[y].seq
    BY <1>1, <1>2, <2>1 DEF Numbered
  <2> QED BY <2>3, <2>4 DEF Numbered
<1> QED BY <1>3, <1>4

LEMMA RowsKept ==
  ASSUME BatchesTyped, Kept
  PROVE  \A e \in log : RowHolds(e)'
<1> SUFFICES ASSUME NEW e \in log PROVE RowHolds(e)'
  OBVIOUS
<1>1. RowHolds(e)
  BY DEF BatchesTyped
<1>2. \A b \in Opened : InRow(b)' = InRow(b) /\ OutRow(b)' = OutRow(b) /\ b \in Opened'
  BY DEF InRow, OutRow, Kept
<1>3. e.by \in Batches => e.by \in Opened' /\ (e = InRow(e.by)' \/ e = OutRow(e.by)')
  BY <1>1, <1>2 DEF RowHolds
<1>4. /\ e.qty \in Nat \ {0} /\ e.lot \in Opened' \cup {"none"}
      /\ e.by \notin Batches => e.type \notin Trades /\ e.of \notin Batches
      /\ e.by \in Commands => e.lot \in Opened' /\ e.type \in {"ADJUSTMENT_PLUS", "ADJUSTMENT_MINUS", "WASTE"}
  BY <1>1, <1>2 DEF RowHolds
<1> QED BY <1>3, <1>4 DEF RowHolds, InRow, OutRow

-----------------------------------------------------------------------------
(* Every step keeps the types and what the rows say.                       *)

LEMMA RoundedInt ==
  ASSUME NEW value \in Int, NEW qty \in Nat, qty > 0
  PROVE  /\ Rounded(value, qty) \in Int
         /\ 2 * (qty * Rounded(value, qty) - value) <= qty
         /\ 2 * (value - qty * Rounded(value, qty)) <= qty
<1> DEFINE d == 2 * qty  n == 2 * value + qty  r == n \div d
<1>1. d \in Int /\ d > 0 /\ n \in Int
  OBVIOUS
<1>2. r \in Int /\ d * r <= n /\ n < d * (r + 1)
  <2> HIDE DEF d, n
  <2> QED BY <1>1
<1>3. Rounded(value, qty) = r
  BY DEF Rounded
<1> HIDE DEF r
<1>4. qty * r \in Int /\ 2 * (qty * r) = d * r /\ d * (r + 1) = d * r + d
  BY <1>2
<1> QED BY <1>2, <1>3, <1>4

LEMMA UpdatedInt ==
  ASSUME BatchesTyped, NEW qty \in Nat \ {0}, NEW price \in Nat
  PROVE  UpdatedCost(qty, price) \in Int
<1>1. CASE shelf > 0
  <2>1. shelf * avg + qty * price \in Int /\ shelf + qty \in Nat /\ shelf + qty > 0
    BY <1>1 DEF BatchesTyped
  <2> QED BY <1>1, <2>1, RoundedInt DEF UpdatedCost
<1>2. CASE ~ (shelf > 0)
  BY <1>2 DEF UpdatedCost
<1> QED BY <1>1, <1>2

LEMMA ReversedInt ==
  ASSUME BatchesTyped, NEW qty \in Nat, NEW price \in Int
  PROVE  ReversedCost(qty, price) \in Int
<1>1. CASE shelf > qty
  <2>1. LeftValue(qty, price) \in Int /\ shelf - qty \in Nat /\ shelf - qty > 0
    BY <1>1 DEF BatchesTyped, LeftValue
  <2> QED BY <1>1, <2>1, RoundedInt DEF ReversedCost
<1>2. CASE ~ (shelf > qty)
  BY <1>2 DEF ReversedCost
<1> QED BY <1>1, <1>2

LEMMA StillTyped ==
  ASSUME BatchesTyped, NEW rows, Entered(rows), lot' \in [Batches -> LotRow],
         \A b \in Opened' \ Opened : lot'[b].initial > 0,
         shelf' \in Nat, avg' \in Int, PetitionsTyped', \A e \in rows : RowHolds(e)'
  PROVE  BatchesTyped'
<1>1. \A b \in Opened' : lot'[b].initial > 0
  BY DEF Entered, Kept, BatchesTyped
<1>2. IsFiniteSet(log')
  BY FS_Union DEF Entered, BatchesTyped
<1>3. \A e \in log' : RowHolds(e)'
  BY RowsKept DEF Entered
<1> QED BY <1>1, <1>2, <1>3 DEF BatchesTyped

(* A batch that a step changes is still a batch.                           *)
LEMMA LotChanges ==
  ASSUME NEW f, f \in [Batches -> LotRow], NEW b \in Batches, NEW n \in Int
  PROVE  [f EXCEPT ![b].current = @ + n] \in [Batches -> LotRow]
<1>1. f[b] \in LotRow /\ f[b].current + n \in Int
  BY DEF LotRow
<1>2. [f[b] EXCEPT !.current = @ + n] \in LotRow
  BY <1>1 DEF LotRow
<1> DEFINE made == [f[b] EXCEPT !.current = @ + n]
<1>3. [f EXCEPT ![b].current = @ + n] = [f EXCEPT ![b] = made]
  OBVIOUS
<1> HIDE DEF made
<1> QED BY <1>2, <1>3 DEF made

LEMMA NewLotIs ==
  ASSUME BatchesTyped, NEW b \in Batches, NEW qty \in Sizes, NEW price \in Int,
         lot' = [lot EXCEPT ![b] = NewLot(qty, price)], b \notin Opened
  PROVE  /\ lot' \in [Batches -> LotRow]
         /\ lot'[b].initial = qty /\ lot'[b].cost = price /\ qty \in Nat \ {0}
         /\ Opened' = Opened \cup {b} /\ \A x \in Opened : lot'[x] = lot[x]
<1>1. qty \in Nat \ {0}
  BY StockBatchesAssumption
<1>2. Cardinality(Opened) + 1 \in Nat
  BY FS_Subset, FS_CardinalityType, StockBatchesAssumption DEF Opened
<1>3. NewLot(qty, price) \in LotRow
  BY <1>1, <1>2 DEF NewLot, LotRow, LotStatuses
<1>4. lot' \in [Batches -> LotRow] /\ lot'[b] = NewLot(qty, price) /\ \A x \in Batches \ {b} : lot'[x] = lot[x]
  BY <1>3 DEF BatchesTyped
<1>5. lot'[b].initial = qty /\ lot'[b].cost = price /\ lot'[b].st = "AVAILABLE"
  BY <1>4 DEF NewLot
<1> QED BY <1>1, <1>4, <1>5 DEF Opened

LEMMA CreateTyped ==
  ASSUME BatchesTyped, NEW b \in Batches, NEW qty \in Sizes, CreateLot(b, qty)
  PROVE  BatchesTyped'
<1>1. b \notin Opened /\ avg \in Int /\ lot' = [lot EXCEPT ![b] = NewLot(qty, avg)]
  BY DEF CreateLot, Opened, BatchesTyped
<1>2. lot' \in [Batches -> LotRow] /\ lot'[b].initial = qty /\ qty \in Nat \ {0} /\ Opened' = Opened \cup {b}
  BY <1>1, NewLotIs
<1>3. shelf' \in Nat /\ avg' \in Int /\ PetitionsTyped'
  BY DEF CreateLot, BatchesTyped, PetitionsTyped
<1> QED BY <1>1, <1>2, <1>3, CreateBooked, StillTyped

LEMMA ReceiveTyped ==
  ASSUME BatchesTyped, NEW b \in Batches, NEW qty \in Sizes, NEW price \in Prices, ReceiveLot(b, qty, price)
  PROVE  BatchesTyped'
<1> DEFINE e == Entry(b, "PURCHASE_IN", qty, b, "none")
<1>1. b \notin Opened /\ price \in Nat /\ price \in Int /\ lot' = [lot EXCEPT ![b] = NewLot(qty, price)]
  BY StockBatchesAssumption DEF ReceiveLot, Opened
<1>2. lot' \in [Batches -> LotRow] /\ lot'[b].initial = qty /\ qty \in Nat \ {0} /\ Opened' = Opened \cup {b}
  BY <1>1, NewLotIs
<1>3. shelf' \in Nat /\ PetitionsTyped'
  BY <1>2 DEF ReceiveLot, BatchesTyped, PetitionsTyped
<1>4. avg' \in Int
  BY <1>1, <1>2, UpdatedInt DEF ReceiveLot
<1>5. /\ e = InRow(b)' /\ b \in Opened' /\ b \notin Commands
      /\ e.qty = qty /\ e.lot = b /\ e.by = b
  BY <1>2, StockBatchesAssumption DEF InRow, Entry
<1>6. Entered({e})
  BY ReceiveBooked
<1> HIDE DEF e
<1>7. RowHolds(e)'
  BY <1>2, <1>5 DEF RowHolds, InRow
<1> QED BY <1>1, <1>2, <1>3, <1>4, <1>6, <1>7, StillTyped

LEMMA CorrectTyped ==
  ASSUME BatchesTyped, NEW b \in Batches, CorrectReceiving(b)
  PROVE  BatchesTyped'
<1> PICK e : e = OutRow(b)
  OBVIOUS
<1>1. b \in Opened /\ InRow(b) \in log
  BY CameAsSaid DEF CorrectReceiving
<1>2. lot[b] \in LotRow /\ lot[b].initial \in Nat \ {0} /\ lot[b].cost \in Int /\ shelf \in Nat
  BY <1>1 DEF BatchesTyped, LotRow, Opened
<1> DEFINE n == - lot[b].initial
<1>3. lot' = [lot EXCEPT ![b].current = @ + n]
  <2>1. lot[b].current - lot[b].initial = lot[b].current + n
    BY <1>2 DEF LotRow
  <2>2. lot' = [lot EXCEPT ![b].current = @ - lot[b].initial]
    BY DEF CorrectReceiving
  <2> HIDE DEF n
  <2> QED BY <2>1, <2>2
<1>4. lot' \in [Batches -> LotRow]
  <2>1. n \in Int /\ lot \in [Batches -> LotRow]
    BY <1>2 DEF BatchesTyped
  <2> HIDE DEF n
  <2> QED BY <1>3, <2>1, LotChanges
<1>5. shelf' \in Nat /\ PetitionsTyped'
  BY <1>2 DEF CorrectReceiving, BatchesTyped, PetitionsTyped
<1>6. avg' \in Int
  BY <1>2, ReversedInt DEF CorrectReceiving
<1>7. Entered({e})
  BY CorrectBooked
<1>8. Opened' = Opened
  BY <1>2, <1>3 DEF Opened, BatchesTyped, LotRow
<1>9. e = OutRow(b)'
  BY <1>1, <1>7 DEF OutRow, Entered, Kept
<1>10. e.qty = lot[b].initial /\ e.lot = b /\ e.by = b /\ b \notin Commands
  BY StockBatchesAssumption DEF OutRow, Entry
<1> HIDE DEF n
<1>11. RowHolds(e)'
  BY <1>1, <1>2, <1>8, <1>9, <1>10 DEF RowHolds, OutRow
<1> QED BY <1>4, <1>5, <1>6, <1>7, <1>8, <1>11, StillTyped

LEMMA StatusTyped ==
  ASSUME BatchesTyped, NEW b \in Batches, NEW st \in Marks, SetLotStatus(b, st)
  PROVE  BatchesTyped'
<1> DEFINE made == [lot[b] EXCEPT !.st = st]
<1>1. lot[b] \in LotRow /\ st \in LotStatuses /\ st # "none" /\ lot[b].st # "none"
  BY StockBatchesAssumption DEF BatchesTyped, LotStatuses, SetLotStatus
<1>2. made \in LotRow
  BY <1>1 DEF LotRow
<1>3. lot' = [lot EXCEPT ![b] = made]
  BY DEF SetLotStatus
<1>4. made.st = st
  BY <1>1 DEF LotRow
<1> HIDE DEF made
<1>5. lot' \in [Batches -> LotRow]
  BY <1>2, <1>3 DEF BatchesTyped
<1>6. Opened' = Opened
  BY <1>1, <1>2, <1>3, <1>4 DEF Opened, BatchesTyped
<1>7. shelf' \in Nat /\ avg' \in Int /\ PetitionsTyped'
  BY DEF SetLotStatus, BatchesTyped, PetitionsTyped
<1> QED BY <1>5, <1>6, <1>7, StatusBooked, StillTyped

LEMMA AdjustTyped ==
  ASSUME BatchesTyped, NEW a \in Commands, NEW b \in Opened, NEW qty \in Nat \ {0}, NEW of,
         of \notin Batches, NEW type \in {"ADJUSTMENT_PLUS", "ADJUSTMENT_MINUS", "WASTE"},
         Adjust(a, b, type, qty, of)
  PROVE  BatchesTyped'
<1> DEFINE e == Entry(a, type, qty, b, of)
           change == IF type \in Outgoing THEN - qty ELSE qty
<1>1. change \in Int /\ b \in Batches /\ lot' = [lot EXCEPT ![b].current = @ + change]
      /\ shelf' = shelf + change /\ shelf + change >= 0
  BY DEF Adjust, Opened
<1>2. e.qty = qty /\ e.lot = b /\ e.by = a /\ e.of = of /\ e.type = type
  BY DEF Entry
<1>3. Entered({e})
  BY AdjustBooked
<1> HIDE DEF change, e
<1>4. lot' \in [Batches -> LotRow]
  BY <1>1, LotChanges DEF BatchesTyped
<1>5. Opened' = Opened
  BY <1>1 DEF Opened, BatchesTyped, LotRow
<1>6. shelf' \in Nat /\ avg' \in Int /\ PetitionsTyped'
  BY <1>1 DEF Adjust, BatchesTyped, PetitionsTyped
<1>7. a \notin Batches
  BY StockBatchesAssumption
<1>8. RowHolds(e)'
  BY <1>2, <1>5, <1>7 DEF RowHolds, Trades
<1> QED BY <1>3, <1>4, <1>5, <1>6, <1>8, StillTyped

LEMMA RequestTyped ==
  ASSUME BatchesTyped, NEW q \in Requests,
         (\E change \in Changes : AskAdjustment(q, change)) \/ RejectAdjustment(q)
  PROVE  BatchesTyped'
<1> DEFINE Petition == [st : {"none", "PENDING", "REJECTED", "APPROVED"}, change : Int]
<1>1. Entered({}) /\ lot' = lot /\ shelf' = shelf /\ avg' = avg /\ log' = log
  BY RequestBooked
<1>2. petition \in [Requests -> Petition] /\ petition[q] \in Petition
  BY DEF BatchesTyped, PetitionsTyped
<1>3. PICK made \in Petition : petition' = [petition EXCEPT ![q] = made] /\ made.change # 0
  <2>1. CASE \E change \in Changes : AskAdjustment(q, change)
    <3>1. PICK change \in Changes : AskAdjustment(q, change)
      BY <2>1
    <3> DEFINE made == [st |-> "PENDING", change |-> change]
    <3>2. made \in Petition /\ made.change # 0
      BY StockBatchesAssumption
    <3>3. petition' = [petition EXCEPT ![q] = made]
      BY <3>1 DEF AskAdjustment
    <3> QED BY <3>2, <3>3
  <2>2. CASE RejectAdjustment(q)
    <3> DEFINE made == [petition[q] EXCEPT !.st = "REJECTED"]
    <3>1. petition[q].change # 0
      BY <2>2 DEF RejectAdjustment, BatchesTyped, PetitionsTyped
    <3>2. made \in Petition /\ made.change # 0
      BY <1>2, <3>1
    <3>3. petition' = [petition EXCEPT ![q] = made]
      BY <2>2 DEF RejectAdjustment
    <3> QED BY <3>2, <3>3
  <2> QED BY <2>1, <2>2
<1>4. PetitionsTyped'
  BY <1>2, <1>3 DEF PetitionsTyped, BatchesTyped
<1>5. lot' \in [Batches -> LotRow] /\ Opened' = Opened
  BY <1>1 DEF BatchesTyped, Opened
<1>6. shelf' \in Nat /\ avg' \in Int
  BY <1>1 DEF BatchesTyped
<1> QED BY <1>1, <1>4, <1>5, <1>6, StillTyped

LEMMA ApproveTyped ==
  ASSUME BatchesTyped, Answered, NEW q \in Requests, ApproveAdjustment(q)
  PROVE  BatchesTyped'
<1> DEFINE Petition == [st : {"none", "PENDING", "REJECTED", "APPROVED"}, change : Int]
           made == [petition[q] EXCEPT !.st = "APPROVED"]
<1> PICK e : e = ApprovalRow(q)
  OBVIOUS
<1>1. /\ e.qty \in Nat \ {0} /\ e.by = q /\ e.lot = "none" /\ e.of = "none"
      /\ e.type \in {"ADJUSTMENT_PLUS", "ADJUSTMENT_MINUS"} /\ Entered({e})
  BY ApproveBooked
<1>2. petition \in [Requests -> Petition] /\ petition[q] \in Petition /\ petition[q].change # 0
  BY DEF BatchesTyped, PetitionsTyped, ApproveAdjustment
<1>3. made \in Petition /\ made.change # 0 /\ petition' = [petition EXCEPT ![q] = made]
  BY <1>2 DEF ApproveAdjustment
<1> HIDE DEF made
<1>4. PetitionsTyped'
  BY <1>2, <1>3 DEF PetitionsTyped, BatchesTyped
<1>5. lot' \in [Batches -> LotRow] /\ Opened' = Opened
  BY DEF BatchesTyped, Opened, ApproveAdjustment
<1>6. shelf' \in Nat /\ avg' \in Int
  BY <1>2 DEF ApproveAdjustment, BatchesTyped
<1>7. q \notin Batches /\ q \notin Commands /\ "none" \notin Batches
  BY StockBatchesAssumption
<1>8. RowHolds(e)'
  BY <1>1, <1>7 DEF RowHolds, Trades
<1> QED BY <1>1, <1>4, <1>5, <1>6, <1>8, StillTyped

LEMMA ConsumeTyped ==
  ASSUME BatchesTyped, Numbered, NEW p \in Consumers, NEW qty \in Sizes, NEW today, Consume(p, qty, today)
  PROVE  BatchesTyped'
<1> DEFINE f == TakenOf(qty, today)  F == TakenFrom(qty, today)  rows == TakenRows(p, qty, today)
<1>1. Entered(rows) /\ F \in SUBSET Opened /\ \A b \in F : f[b] \in Nat \ {0}
  BY ConsumeBooked
<1>2. lot' = [b \in Batches |->
               IF b \notin F THEN lot[b]
               ELSE [lot[b] EXCEPT !.current = @ - f[b],
                                   !.st = IF f[b] = Current(b) THEN "CONSUMED" ELSE @]]
  BY DEF Consume, TakenOf, TakenFrom
<1>3. rows = {Entry(p, "PRODUCTION_OUT", f[b], b, "none") : b \in F}
  BY DEF TakenRows
<1>4. shelf' \in Nat /\ avg' \in Int /\ PetitionsTyped'
  <2>1. qty \in Nat /\ shelf \in Nat /\ shelf >= qty
    BY StockBatchesAssumption DEF Consume, BatchesTyped
  <2>2. shelf' = shelf - qty /\ avg' = avg /\ petition' = petition
    BY DEF Consume
  <2> QED BY <2>1, <2>2 DEF BatchesTyped, PetitionsTyped
<1> HIDE DEF f, F, rows
<1>5. ASSUME NEW b \in F, NEW st \in LotStatuses \cup {"none"}
      PROVE  [lot[b] EXCEPT !.current = @ - f[b], !.st = st] \in LotRow
  <2>1. lot[b] \in LotRow /\ lot[b].current - f[b] \in Int
    BY <1>1 DEF BatchesTyped, LotRow, Opened
  <2> QED BY <2>1 DEF LotRow
<1>6. lot' \in [Batches -> LotRow]
  <2> SUFFICES ASSUME NEW b \in Batches PROVE lot'[b] \in LotRow
    BY <1>2
  <2>1. CASE b \notin F
    BY <1>2, <2>1 DEF BatchesTyped
  <2>2. CASE b \in F
    <3> DEFINE st == IF f[b] = Current(b) THEN "CONSUMED" ELSE lot[b].st
    <3>1. st \in LotStatuses \cup {"none"}
      BY DEF BatchesTyped, LotRow, LotStatuses
    <3>2. lot'[b] = [lot[b] EXCEPT !.current = @ - f[b], !.st = st]
      BY <1>2, <2>2
    <3> HIDE DEF st
    <3> QED BY <1>5, <2>2, <3>1, <3>2
  <2> QED BY <2>1, <2>2
<1>7. Opened \in SUBSET Opened'
  BY <1>1 DEF Entered, Kept
<1>8. Opened' = Opened
  BY <1>1, <1>2, <1>7 DEF Opened
<1>9. p \notin Batches /\ p \notin Commands /\ "none" \notin Batches
  BY StockBatchesAssumption
<1>10. \A e \in rows : e.qty \in Nat \ {0} /\ e.lot \in Opened /\ e.by = p /\ e.of = "none"
                       /\ e.type = "PRODUCTION_OUT"
  BY <1>1, <1>3 DEF Entry
<1>11. \A e \in rows : RowHolds(e)'
  BY <1>8, <1>9, <1>10 DEF RowHolds, Trades
<1> QED BY <1>1, <1>4, <1>6, <1>8, <1>11, StillTyped

-----------------------------------------------------------------------------
(* Nothing is undone twice, and a request is approved with its row.        *)

LEMMA UndoneStep ==
  ASSUME UndoneOnce, NEW rows, log' = log \cup rows,
         \/ \A e \in rows : e.of = "none"
         \/ \E x : rows = {x} /\ \A e \in log : e.of # x.of
  PROVE  UndoneOnce'
<1>1. CASE \A e \in rows : e.of = "none"
  BY <1>1 DEF UndoneOnce
<1>2. CASE \E x : rows = {x} /\ \A e \in log : e.of # x.of
  <2>1. PICK x : rows = {x} /\ \A e \in log : e.of # x.of
    BY <1>2
  <2> QED BY <2>1 DEF UndoneOnce
<1> QED BY <1>1, <1>2

LEMMA AnsweredStep ==
  ASSUME Answered, NEW rows, log' = log \cup rows, \A e \in rows : e.by \notin Requests,
         \A q \in Requests : petition'[q].st = "APPROVED" <=> petition[q].st = "APPROVED"
  PROVE  Answered'
BY DEF Answered

LEMMA AskedNotAnswered ==
  ASSUME BatchesTyped, Answered, NEW q \in Requests,
         (\E change \in Changes : AskAdjustment(q, change)) \/ RejectAdjustment(q)
  PROVE  Answered'
<1>1. petition[q].st \in {"none", "PENDING"} /\ \A x \in Requests : x # q => petition'[x] = petition[x]
  BY DEF AskAdjustment, RejectAdjustment, BatchesTyped, PetitionsTyped
<1>2. petition'[q].st \in {"PENDING", "REJECTED"}
  <2>1. CASE \E change \in Changes : AskAdjustment(q, change)
    BY <2>1 DEF AskAdjustment, BatchesTyped, PetitionsTyped
  <2>2. CASE RejectAdjustment(q)
    <3>1. petition[q] \in [st : {"none", "PENDING", "REJECTED", "APPROVED"}, change : Int]
      BY DEF BatchesTyped, PetitionsTyped
    <3>2. petition'[q] = [petition[q] EXCEPT !.st = "REJECTED"]
      BY <2>2 DEF RejectAdjustment, BatchesTyped, PetitionsTyped
    <3> QED BY <3>1, <3>2
  <2> QED BY <2>1, <2>2
<1>3. \A x \in Requests : petition'[x].st = "APPROVED" <=> petition[x].st = "APPROVED"
  BY <1>1, <1>2
<1>4. log' = log
  BY RequestBooked
<1> QED BY <1>3, <1>4 DEF Answered

LEMMA ApprovedIsAnswered ==
  ASSUME BatchesTyped, Answered, NEW q \in Requests, ApproveAdjustment(q)
  PROVE  Answered'
<1>1. ApprovalRow(q).by = q
  BY ApproveBooked
<1>2. log' = log \cup {ApprovalRow(q)}
  BY DEF ApproveAdjustment, ApprovalRow
<1>3. petition[q] \in [st : {"none", "PENDING", "REJECTED", "APPROVED"}, change : Int]
  BY DEF BatchesTyped, PetitionsTyped
<1>4. petition'[q] = [petition[q] EXCEPT !.st = "APPROVED"]
      /\ \A x \in Requests : x # q => petition'[x] = petition[x]
  BY DEF ApproveAdjustment, BatchesTyped, PetitionsTyped
<1>5. petition'[q].st = "APPROVED"
  BY <1>3, <1>4
<1> QED BY <1>1, <1>2, <1>4, <1>5 DEF Answered

-----------------------------------------------------------------------------
(* While goods only come and go back, the batches that stayed make up the  *)
(* level and its value, and each step rounds the average once.             *)

Traded == \A e \in log : e.type \in Trades

Staying == {b \in Opened : InRow(b) \in log /\ \A e \in log : e.of # b}

LiveSize == SumFunctionOnSet([b \in Staying |-> lot[b].initial], Staying)

LiveWorth == SumFunctionOnSet([b \in Staying |-> lot[b].cost * lot[b].initial], Staying)

Arrived == Net({e \in log : e.type = "PURCHASE_IN"})

Drift == shelf * avg - Value(log)

Slack == Arrived * Cardinality(log)

TradingHolds ==
  Traded => /\ shelf <= Arrived /\ Arrived \in Nat
            /\ shelf = LiveSize /\ Value(log) = LiveWorth
            /\ - Slack <= 2 * Drift /\ 2 * Drift <= Slack

LEMMA SlackGrows ==
  ASSUME NEW c \in Nat, NEW d \in Nat, c <= d, NEW n \in Nat, NEW drift \in Int,
         - (c * n) <= 2 * drift, 2 * drift <= c * n,
         NEW err \in Int, - d <= 2 * err, 2 * err <= d
  PROVE  - (d * (n + 1)) <= 2 * (drift + err) /\ 2 * (drift + err) <= d * (n + 1)
<1> DEFINE q == d - c
<1>1. q \in Nat /\ d = c + q
  OBVIOUS
<1> HIDE DEF q
<1>2. q * n \in Nat /\ c * n \in Nat
  BY <1>1
<1>3. (c + q) * (n + 1) = c * n + q * n + d
  BY <1>1
<1>4. d * (n + 1) = c * n + q * n + d
  BY <1>1, <1>3
<1> DEFINE cn == c * n  qn == q * n  all == d * (n + 1)
<1>5. cn \in Nat /\ qn \in Nat /\ all = cn + qn + d /\ - cn <= 2 * drift /\ 2 * drift <= cn
  BY <1>2, <1>4
<1> HIDE DEF cn, qn, all
<1>6. - all <= 2 * (drift + err) /\ 2 * (drift + err) <= all
  BY <1>5
<1> QED BY <1>6 DEF all

(* A row of a trade names an opened batch.                                 *)
LEMMA TradedRows ==
  ASSUME BatchesTyped, Traded
  PROVE  /\ \A e \in log : /\ e.lot \in Opened /\ e.by = e.lot /\ e.by \in Opened
                           /\ Signed(e) \in Int /\ lot[e.lot].cost * Signed(e) \in Int
                           /\ e.type = "PURCHASE_IN" => e = InRow(e.by)
         /\ IsFiniteSet(log) /\ Cardinality(log) \in Nat
<1>1. ASSUME NEW e \in log
      PROVE  /\ e.lot \in Opened /\ e.by = e.lot /\ e.by \in Opened
             /\ Signed(e) \in Int /\ lot[e.lot].cost * Signed(e) \in Int
             /\ e.type = "PURCHASE_IN" => e = InRow(e.by)
  <2>1. e.type \in Trades /\ e.qty \in Int /\ RowHolds(e)
    BY DEF Traded, BatchesTyped, RowHolds
  <2>2. e.by \in Batches /\ e.by \in Opened /\ (e = InRow(e.by) \/ e = OutRow(e.by))
    BY <2>1 DEF RowHolds
  <2>3. e.lot = e.by /\ (e.type = "PURCHASE_IN" => e = InRow(e.by))
    BY <2>2 DEF InRow, OutRow, Entry
  <2>4. lot[e.lot].cost \in Int /\ Signed(e) \in Int
    BY <2>1, <2>2, <2>3, SignedInt DEF BatchesTyped, LotRow
  <2>5. \A m, n \in Int : m * n \in Int
    OBVIOUS
  <2> QED BY <2>2, <2>3, <2>4, <2>5
<1>2. IsFiniteSet(log) /\ Cardinality(log) \in Nat
  BY FS_CardinalityType DEF BatchesTyped
<1> QED BY <1>1, <1>2

LEMMA LiveTyped ==
  ASSUME BatchesTyped
  PROVE  /\ Staying \in SUBSET Opened /\ IsFiniteSet(Staying)
         /\ \A b \in Opened : lot[b].initial \in Nat \ {0} /\ lot[b].cost * lot[b].initial \in Int
<1>1. Staying \in SUBSET Opened /\ IsFiniteSet(Opened)
  BY FS_Subset, StockBatchesAssumption DEF Staying, Opened
<1>2. \A b \in Opened : lot[b].initial \in Nat \ {0} /\ lot[b].cost \in Int
  BY DEF BatchesTyped, LotRow, Opened
<1>3. \A m \in Int, n \in Nat \ {0} : m * n \in Int
  OBVIOUS
<1> QED BY <1>1, <1>2, <1>3, FS_Subset

(* A step that trades nothing.                                             *)
LEMMA TradingStays ==
  ASSUME BatchesTyped, TradingHolds, Kept, log' = log, shelf' = shelf, avg' = avg
  PROVE  TradingHolds'
<1> SUFFICES ASSUME Traded'
             PROVE  (/\ shelf <= Arrived /\ Arrived \in Nat
                     /\ shelf = LiveSize /\ Value(log) = LiveWorth
                     /\ - Slack <= 2 * Drift /\ 2 * Drift <= Slack)'
  BY DEF TradingHolds
<1>1. Traded
  BY DEF Traded
<1>2. \A b \in Opened : b \in Opened' /\ InRow(b)' = InRow(b) /\ lot'[b].cost = lot[b].cost
                        /\ lot'[b].initial = lot[b].initial
  BY DEF Kept, InRow
<1>3. Staying' = Staying
  <2>1. \A b \in Opened' : InRow(b)' \in log => b \in Opened
    <3> SUFFICES ASSUME NEW b \in Opened', InRow(b)' \in log PROVE b \in Opened
      OBVIOUS
    <3>1. InRow(b)'.by = b /\ b \in Batches
      BY DEF InRow, Entry, Opened
    <3> QED BY <3>1 DEF BatchesTyped, RowHolds
  <2> QED BY <1>2, <2>1 DEF Staying
<1>4. LiveSize' = LiveSize /\ LiveWorth' = LiveWorth
  <2>1. /\ [b \in Staying |-> lot[b].initial]' = [b \in Staying |-> lot[b].initial]
        /\ [b \in Staying |-> lot[b].cost * lot[b].initial]' = [b \in Staying |-> lot[b].cost * lot[b].initial]
    BY <1>2, <1>3, LiveTyped
  <2> QED BY <1>3, <2>1 DEF LiveSize, LiveWorth
<1>5. Value(log)' = Value(log)
  <2>1. [e \in log |-> lot[e.lot].cost * Signed(e)]' = [e \in log |-> lot[e.lot].cost * Signed(e)]
    BY <1>1, <1>2, TradedRows
  <2> QED BY <2>1 DEF Value
<1>6. Arrived' = Arrived
  BY DEF Arrived
<1> QED BY <1>1, <1>4, <1>5, <1>6 DEF TradingHolds, Drift, Slack

LEMMA Within ==
  ASSUME NEW made \in Int, NEW v \in Int, NEW n \in Nat, NEW d \in Nat, n <= d,
         2 * (made - v) <= n, 2 * (v - made) <= n
  PROVE  made - v \in Int /\ - d <= 2 * (made - v) /\ 2 * (made - v) <= d
OBVIOUS

(* The value of the rows, with one more.                                   *)
LEMMA ValueMoves ==
  ASSUME IsFiniteSet(log), NEW e, e \notin log, log' = log \cup {e},
         \A x \in log : lot[x.lot].cost * Signed(x) \in Int /\ lot'[x.lot].cost = lot[x.lot].cost,
         lot'[e.lot].cost * Signed(e) \in Int
  PROVE  Value(log)' = Value(log) + lot'[e.lot].cost * Signed(e) /\ Value(log) \in Int
<1> DEFINE f == [x \in log |-> lot[x.lot].cost * Signed(x)]
           g == [x \in log \cup {e} |-> lot'[x.lot].cost * Signed(x)]
<1>1. (\A x \in log : f[x] \in Int /\ g[x] = f[x]) /\ g[e] \in Int
  OBVIOUS
<1>2. g[e] = lot'[e.lot].cost * Signed(e)
  OBVIOUS
<1>3. Value(log) = SumFunctionOnSet(f, log) /\ Value(log)' = SumFunctionOnSet(g, log \cup {e})
  BY DEF Value
<1> HIDE DEF f, g
<1>4. SumFunctionOnSet(g, log \cup {e}) = SumFunctionOnSet(f, log) + g[e]
      /\ SumFunctionOnSet(f, log) \in Int
  BY <1>1, SumJoined
<1> QED BY Zenon, <1>2, <1>3, <1>4

(* Goods come.                                                             *)
LEMMA TradingReceives ==
  ASSUME BatchesTyped, TradingHolds, NEW b \in Batches, NEW qty \in Sizes, NEW price \in Prices,
         ReceiveLot(b, qty, price)
  PROVE  TradingHolds'
<1> DEFINE e == Entry(b, "PURCHASE_IN", qty, b, "none")
<1> SUFFICES ASSUME Traded'
             PROVE  (/\ shelf <= Arrived /\ Arrived \in Nat
                     /\ shelf = LiveSize /\ Value(log) = LiveWorth
                     /\ - Slack <= 2 * Drift /\ 2 * Drift <= Slack)'
  BY DEF TradingHolds
<1>1. /\ e.qty = qty /\ e.lot = b /\ e.by = b /\ e.of = "none" /\ e.type = "PURCHASE_IN" /\ Signed(e) = qty
      /\ log' = log \cup {e} /\ shelf' = shelf + qty /\ avg' = UpdatedCost(qty, price)
  BY DEF ReceiveLot, Entry, Signed, Outgoing
<1>2. b \notin Opened /\ price \in Nat /\ price \in Int /\ lot' = [lot EXCEPT ![b] = NewLot(qty, price)]
  BY StockBatchesAssumption DEF ReceiveLot, Opened
<1>3. /\ lot'[b].initial = qty /\ lot'[b].cost = price /\ qty \in Nat \ {0}
      /\ Opened' = Opened \cup {b} /\ \A x \in Opened : lot'[x] = lot[x]
  BY <1>2, NewLotIs
<1>4. e = InRow(b)'
  BY <1>3 DEF InRow
<1> HIDE DEF e
<1>5. Traded
  BY <1>1 DEF Traded
<1>6. /\ \A x \in log : /\ x.lot \in Opened /\ x.by = x.lot /\ x.by \in Opened
                        /\ Signed(x) \in Int /\ lot[x.lot].cost * Signed(x) \in Int
      /\ IsFiniteSet(log) /\ Cardinality(log) \in Nat
  BY <1>5, TradedRows
<1>7. /\ shelf <= Arrived /\ Arrived \in Nat /\ shelf \in Nat /\ avg \in Int
      /\ shelf = LiveSize /\ Value(log) = LiveWorth
      /\ - Slack <= 2 * Drift /\ 2 * Drift <= Slack
  BY <1>5 DEF TradingHolds, BatchesTyped
<1>8. e \notin log
  BY <1>1, <1>2, <1>6
<1>9. Value(log)' = Value(log) + price * qty /\ Value(log) \in Int
  <2>1. lot'[e.lot].cost = price /\ Signed(e) = qty /\ price * qty \in Int
    BY <1>1, <1>2, <1>3
  <2>2. \A x \in log : lot[x.lot].cost * Signed(x) \in Int /\ lot'[x.lot].cost = lot[x.lot].cost
    BY <1>3, <1>6
  <2> QED BY <1>1, <1>6, <1>8, <2>1, <2>2, ValueMoves
<1>10. Staying' = Staying \cup {b} /\ b \notin Staying
  <2>1. \A x \in Opened : InRow(x)' = InRow(x) /\ InRow(x) # e /\ x # "none" /\ e.of # x
    BY <1>1, <1>2, <1>3, StockBatchesAssumption DEF InRow, Entry, Opened
  <2>2. \A x \in Opened : x \in Staying' <=> x \in Staying
    BY <1>1, <1>3, <2>1 DEF Staying
  <2>3. \A x \in log' : x.of # b
    <3>1. \A x \in log : x.of # b
      <4> SUFFICES ASSUME NEW x \in log PROVE x.of # b
        OBVIOUS
      <4>1. x.by \in Batches /\ x.by \in Opened /\ (x = InRow(x.by) \/ x = OutRow(x.by))
        BY <1>6 DEF BatchesTyped, RowHolds, Opened
      <4>2. x.of \in {"none", x.by}
        BY <4>1 DEF InRow, OutRow, Entry
      <4> QED BY <1>2, <4>1, <4>2, StockBatchesAssumption
    <3>2. e.of # b
      BY <1>1, StockBatchesAssumption
    <3> QED BY <1>1, <3>1, <3>2
  <2>4. b \in Staying'
    BY <1>1, <1>3, <1>4, <2>3 DEF Staying
  <2>5. Staying \in SUBSET Opened /\ Staying' \in SUBSET (Opened \cup {b})
    BY <1>3 DEF Staying
  <2> QED BY <1>2, <2>2, <2>4, <2>5
<1>11. /\ Staying \in SUBSET Opened /\ IsFiniteSet(Staying)
       /\ \A x \in Opened : lot[x].initial \in Nat \ {0} /\ lot[x].cost * lot[x].initial \in Int
  BY LiveTyped
<1>12. LiveSize' = LiveSize + qty
  <2> DEFINE f == [x \in Staying |-> lot[x].initial]  g == [x \in Staying \cup {b} |-> lot'[x].initial]
  <2>1. (\A x \in Staying : f[x] \in Int /\ g[x] = f[x]) /\ g[b] = qty /\ g[b] \in Int
    BY <1>3, <1>11
  <2>2. LiveSize = SumFunctionOnSet(f, Staying) /\ LiveSize' = SumFunctionOnSet(g, Staying \cup {b})
    BY <1>10 DEF LiveSize
  <2> HIDE DEF f, g
  <2>3. SumFunctionOnSet(g, Staying \cup {b}) = SumFunctionOnSet(f, Staying) + g[b]
    <3>1. IsFiniteSet(Staying) /\ b \notin Staying /\ g[b] \in Int /\ \A x \in Staying : f[x] \in Int /\ g[x] = f[x]
      BY <1>10, <1>11, <2>1
    <3> QED BY <3>1, SumJoined
  <2> QED BY Zenon, <2>1, <2>2, <2>3
<1>13. LiveWorth' = LiveWorth + price * qty
  <2> DEFINE f == [x \in Staying |-> lot[x].cost * lot[x].initial]
             g == [x \in Staying \cup {b} |-> lot'[x].cost * lot'[x].initial]
  <2>1. (\A x \in Staying : f[x] \in Int /\ g[x] = f[x]) /\ g[b] = price * qty /\ g[b] \in Int
    BY <1>2, <1>3, <1>11
  <2>2. LiveWorth = SumFunctionOnSet(f, Staying) /\ LiveWorth' = SumFunctionOnSet(g, Staying \cup {b})
    BY <1>10 DEF LiveWorth
  <2> HIDE DEF f, g
  <2>3. SumFunctionOnSet(g, Staying \cup {b}) = SumFunctionOnSet(f, Staying) + g[b]
    <3>1. IsFiniteSet(Staying) /\ b \notin Staying /\ g[b] \in Int /\ \A x \in Staying : f[x] \in Int /\ g[x] = f[x]
      BY <1>10, <1>11, <2>1
    <3> QED BY <3>1, SumJoined
  <2> QED BY Zenon, <2>1, <2>2, <2>3
<1>14. Arrived' = Arrived + qty
  <2> DEFINE in == {x \in log : x.type = "PURCHASE_IN"}
  <2>1. {x \in log' : x.type = "PURCHASE_IN"} = in \cup {e} /\ {e} \cap in = {}
    BY <1>1, <1>8
  <2>2. Sized(in) /\ Sized({e})
    <3>1. IsFiniteSet(in) /\ IsFiniteSet({e})
      BY <1>6, FS_Subset, FS_Singleton
    <3>2. (\A x \in in : x.qty \in Int) /\ e.qty \in Int
      BY <1>1, <1>3 DEF BatchesTyped, RowHolds
    <3> QED BY <3>1, <3>2 DEF Sized
  <2>3. Arrived = Net(in) /\ Arrived' = Net(in \cup {e})
    BY <2>1 DEF Arrived
  <2>4. Net({e}) = qty
    BY <1>1, <2>2, NetOfOne DEF Sized
  <2> HIDE DEF in
  <2> QED BY <2>1, <2>2, <2>3, <2>4, NetGrows
<1>15. Cardinality(log') = Cardinality(log) + 1
  BY <1>1, <1>6, <1>8, FS_AddElement
<1>16. shelf' <= Arrived' /\ Arrived' \in Nat /\ Arrived <= Arrived'
  BY <1>1, <1>3, <1>7, <1>14
<1>17. PICK err \in Int : Drift' = Drift + err /\ - Arrived' <= 2 * err /\ 2 * err <= Arrived'
  <2> DEFINE v == shelf * avg + qty * price  n == shelf + qty  made == n * UpdatedCost(qty, price)
  <2>1. v \in Int /\ n \in Nat /\ n > 0 /\ shelf * avg \in Int /\ price * qty = qty * price /\ qty * price \in Int
    BY <1>2, <1>3, <1>7
  <2>2. UpdatedCost(qty, price) \in Int
    BY <1>2, <1>3, UpdatedInt
  <2>3. made \in Int /\ 2 * (made - v) <= n /\ 2 * (v - made) <= n
    <3>1. CASE shelf > 0
      <4>1. UpdatedCost(qty, price) = Rounded(v, n)
        BY <3>1 DEF UpdatedCost
      <4> HIDE DEF v, n
      <4>2. n * Rounded(v, n) \in Int
        BY <2>1, <2>2, <4>1
      <4> QED BY <2>1, <4>1, <4>2, RoundedInt
    <3>2. CASE ~ (shelf > 0)
      <4>1. UpdatedCost(qty, price) = price /\ shelf = 0
        BY <1>7, <3>2 DEF UpdatedCost
      <4>2. 0 * avg = 0
        BY <1>7
      <4>3. made = qty * price /\ v = qty * price
        BY <1>2, <1>3, <2>1, <4>1, <4>2
      <4> HIDE DEF v, made
      <4> QED BY <1>3, <2>1, <4>1, <4>3
    <3> QED BY <3>1, <3>2
  <2>4. Drift' = made - (Value(log) + qty * price) /\ Drift = shelf * avg - Value(log)
    BY <1>1, <1>9, <2>1 DEF Drift
  <2>5. n <= Arrived'
    BY <1>1, <1>16
  <2>6. Drift' = Drift + (made - v)
    <3> DEFINE all == shelf * avg  add == qty * price  old == Value(log)
    <3>1. all \in Int /\ add \in Int /\ old \in Int /\ v = all + add /\ Drift = all - old /\ Drift' = made - (old + add)
      BY <1>9, <2>1, <2>4
    <3> HIDE DEF all, add, old, v, made
    <3> QED BY <2>3, <3>1
  <2> HIDE DEF made, v, n
  <2> DEFINE step == made - v
  <2>7. step \in Int /\ - Arrived' <= 2 * step /\ 2 * step <= Arrived'
    BY <1>16, <2>1, <2>3, <2>5, Within
  <2> HIDE DEF step
  <2> QED BY <2>6, <2>7 DEF step
<1>18. Drift \in Int
  <2>1. shelf * avg \in Int
    BY <1>7
  <2> QED BY <1>9, <2>1 DEF Drift
<1>19. - (Arrived' * (Cardinality(log) + 1)) <= 2 * (Drift + err)
       /\ 2 * (Drift + err) <= Arrived' * (Cardinality(log) + 1)
  BY <1>6, <1>7, <1>16, <1>17, <1>18, SlackGrows DEF Slack
<1>20. Slack' = Arrived' * (Cardinality(log) + 1)
  BY <1>15 DEF Slack
<1>21. Value(log)' = LiveWorth' /\ shelf' = LiveSize'
  BY <1>1, <1>7, <1>9, <1>12, <1>13
<1> QED BY <1>16, <1>17, <1>19, <1>20, <1>21

(* Goods go back.                                                          *)
LEMMA NoneLive ==
  ASSUME BatchesTyped, LiveSize = 0
  PROVE  Staying = {} /\ LiveWorth = 0
<1> DEFINE f == [b \in Staying |-> lot[b].initial]
<1>1. /\ Staying \in SUBSET Opened /\ IsFiniteSet(Staying)
      /\ \A b \in Opened : lot[b].initial \in Nat \ {0}
  BY LiveTyped
<1>2. (\A b \in Staying : f[b] \in Nat \ {0}) /\ LiveSize = SumFunctionOnSet(f, Staying)
  BY <1>1 DEF LiveSize
<1> HIDE DEF f
<1>3. Staying = {}
  <2> SUFFICES ASSUME NEW b \in Staying PROVE FALSE
    OBVIOUS
  <2>1. IsFiniteSet(Staying \ {b}) /\ \A x \in Staying \ {b} : f[x] \in Nat
    BY <1>1, <1>2, FS_Subset
  <2>2. SumFunctionOnSet(f, Staying \ {b}) \in Nat
    BY <2>1, SumNat
  <2>3. \A x \in Staying : f[x] \in Int
    BY <1>2
  <2>4. SumFunctionOnSet(f, Staying) = f[b] + SumFunctionOnSet(f, Staying \ {b})
    BY <1>1, <2>3, SumSplits
  <2> QED BY <1>2, <2>2, <2>4
<1> QED BY <1>3, SumEmpty DEF LiveWorth

LEMMA TradingCorrects ==
  ASSUME BatchesTyped, TradingHolds, NEW b \in Batches, CorrectReceiving(b)
  PROVE  TradingHolds'
<1> SUFFICES ASSUME Traded'
             PROVE  (/\ shelf <= Arrived /\ Arrived \in Nat
                     /\ shelf = LiveSize /\ Value(log) = LiveWorth
                     /\ - Slack <= 2 * Drift /\ 2 * Drift <= Slack)'
  BY DEF TradingHolds
<1> PICK e : e = OutRow(b)
  OBVIOUS
<1> DEFINE qty == lot[b].initial  cost == lot[b].cost
<1>1. b \in Opened /\ InRow(b) \in log
  BY CameAsSaid DEF CorrectReceiving
<1>2. qty \in Nat \ {0} /\ cost \in Int
  BY <1>1 DEF BatchesTyped, LotRow, Opened
<1>3. /\ e.qty = qty /\ e.lot = b /\ e.by = b /\ e.of = b /\ e.type = "RETURN_TO_SUPPLIER" /\ Signed(e) = - qty
      /\ log' = log \cup {e} /\ shelf' = shelf - qty /\ avg' = ReversedCost(qty, cost) /\ shelf >= qty
      /\ \A x \in log : x.of # b
  BY DEF CorrectReceiving, OutRow, Entry, Signed, Outgoing
<1>4. Entered({e}) /\ BatchesTyped'
  BY CorrectBooked, CorrectTyped
<1>5. Traded
  BY <1>3 DEF Traded
<1>6. /\ \A x \in log : /\ x.lot \in Opened /\ x.by \in Opened
                        /\ Signed(x) \in Int /\ lot[x.lot].cost * Signed(x) \in Int
      /\ IsFiniteSet(log) /\ Cardinality(log) \in Nat
  BY <1>5, TradedRows
<1>7. /\ shelf <= Arrived /\ Arrived \in Nat /\ shelf \in Nat /\ avg \in Int
      /\ shelf = LiveSize /\ Value(log) = LiveWorth
      /\ - Slack <= 2 * Drift /\ 2 * Drift <= Slack
  BY <1>5 DEF TradingHolds, BatchesTyped
<1>8. e \notin log /\ \A x \in Opened : x \in Opened' /\ lot'[x].initial = lot[x].initial /\ lot'[x].cost = lot[x].cost
  BY <1>3, <1>4 DEF Entered, Kept
<1>9. Opened' = Opened
  <2>1. lot' = [lot EXCEPT ![b].current = @ - lot[b].initial]
    BY DEF CorrectReceiving
  <2>2. \A x \in Batches : lot'[x].st = lot[x].st
    BY <2>1 DEF BatchesTyped, LotRow
  <2> QED BY <2>2 DEF Opened
<1> HIDE DEF qty, cost
<1>10. cost * qty \in Int /\ cost * (- qty) = - (cost * qty) /\ cost * (- qty) \in Int /\ qty * cost = cost * qty
  BY <1>2
<1>11. Value(log)' = Value(log) - cost * qty /\ Value(log) \in Int
  <2>1. lot'[e.lot].cost = cost /\ Signed(e) = - qty
    BY <1>1, <1>3, <1>8 DEF cost
  <2>2. \A x \in log : lot[x.lot].cost * Signed(x) \in Int /\ lot'[x.lot].cost = lot[x.lot].cost
    BY <1>6, <1>8
  <2>3. Value(log)' = Value(log) + cost * (- qty) /\ Value(log) \in Int
    BY <1>3, <1>6, <1>8, <1>10, <2>1, <2>2, ValueMoves
  <2> QED BY <1>10, <2>3
<1>12. Staying' = Staying \ {b} /\ b \in Staying
  <2>1. \A x \in Opened : InRow(x)' = InRow(x) /\ InRow(x) # e
    BY <1>3, <1>8 DEF InRow, Entry
  <2>2. \A x \in Opened : InRow(x)' \in log' <=> InRow(x) \in log
    BY <1>3, <2>1
  <2>3. \A x \in Opened : (\A y \in log' : y.of # x) <=> ((\A y \in log : y.of # x) /\ x # b)
    BY <1>3
  <2> QED BY <1>1, <1>3, <1>9, <2>2, <2>3 DEF Staying
<1>13. /\ Staying \in SUBSET Opened /\ IsFiniteSet(Staying)
       /\ \A x \in Opened : lot[x].initial \in Nat \ {0} /\ lot[x].cost * lot[x].initial \in Int
  BY LiveTyped
<1>14. LiveSize' = LiveSize - qty
  <2> DEFINE f == [x \in Staying |-> lot[x].initial]  g == [x \in Staying \ {b} |-> lot'[x].initial]
  <2>1. (\A x \in Staying : f[x] \in Int) /\ (\A x \in Staying \ {b} : g[x] = f[x]) /\ f[b] = qty
    BY <1>8, <1>12, <1>13 DEF qty
  <2>2. LiveSize = SumFunctionOnSet(f, Staying) /\ LiveSize' = SumFunctionOnSet(g, Staying \ {b})
    BY <1>12 DEF LiveSize
  <2> HIDE DEF f, g
  <2>3. SumFunctionOnSet(g, Staying \ {b}) = SumFunctionOnSet(f, Staying) - f[b]
    BY <1>12, <1>13, <2>1, SumLeft
  <2> QED BY Zenon, <2>1, <2>2, <2>3
<1>15. LiveWorth' = LiveWorth - cost * qty
  <2> DEFINE f == [x \in Staying |-> lot[x].cost * lot[x].initial]
             g == [x \in Staying \ {b} |-> lot'[x].cost * lot'[x].initial]
  <2>1. (\A x \in Staying : f[x] \in Int) /\ (\A x \in Staying \ {b} : g[x] = f[x]) /\ f[b] = cost * qty
    BY <1>8, <1>12, <1>13 DEF qty, cost
  <2>2. LiveWorth = SumFunctionOnSet(f, Staying) /\ LiveWorth' = SumFunctionOnSet(g, Staying \ {b})
    BY <1>12 DEF LiveWorth
  <2> HIDE DEF f, g
  <2>3. SumFunctionOnSet(g, Staying \ {b}) = SumFunctionOnSet(f, Staying) - f[b]
    <3>1. IsFiniteSet(Staying) /\ b \in Staying /\ (\A x \in Staying : f[x] \in Int) /\ \A x \in Staying \ {b} : g[x] = f[x]
      BY <1>12, <1>13, <2>1
    <3> QED BY <3>1, SumLeft
  <2> QED BY Zenon, <2>1, <2>2, <2>3
<1>16. Arrived' = Arrived
  <2>1. {x \in log' : x.type = "PURCHASE_IN"} = {x \in log : x.type = "PURCHASE_IN"}
    BY <1>3
  <2> QED BY <2>1 DEF Arrived
<1>17. Cardinality(log') = Cardinality(log) + 1 /\ Slack' = Arrived * (Cardinality(log) + 1)
  <2>1. Cardinality(log') = Cardinality(log) + 1
    BY <1>3, <1>6, <1>8, FS_AddElement
  <2> QED BY <1>16, <2>1 DEF Slack
<1>18. Value(log)' = LiveWorth' /\ shelf' = LiveSize' /\ shelf' \in Nat
  BY <1>2, <1>3, <1>7, <1>11, <1>14, <1>15
<1>19. - Slack' <= 2 * Drift' /\ 2 * Drift' <= Slack'
  <2>1. CASE shelf > qty
    <3> DEFINE v == LeftValue(qty, cost)  n == shelf - qty  made == n * ReversedCost(qty, cost)
    <3>1. v = shelf * avg - qty * cost /\ v \in Int /\ n \in Nat /\ n > 0 /\ shelf * avg \in Int
      BY <1>2, <1>7, <2>1 DEF LeftValue
    <3>2. ReversedCost(qty, cost) \in Int /\ ReversedCost(qty, cost) = Rounded(v, n)
      BY <1>2, <2>1, ReversedInt DEF ReversedCost
    <3>3. made \in Int /\ 2 * (made - v) <= n /\ 2 * (v - made) <= n
      <4> HIDE DEF v, n
      <4>1. n * Rounded(v, n) \in Int
        BY <3>1, <3>2
      <4> QED BY <3>1, <3>2, <4>1, RoundedInt
    <3>4. Drift' = made - (Value(log) - cost * qty) /\ Drift = shelf * avg - Value(log)
      BY <1>3, <1>11 DEF Drift
    <3>5. n <= Arrived
      BY <1>2, <1>7
    <3>6. Drift' = Drift + (made - v) /\ Drift \in Int
      <4> DEFINE all == shelf * avg  back == cost * qty  old == Value(log)
      <4>1. all \in Int /\ back \in Int /\ old \in Int /\ v = all - back
            /\ Drift = all - old /\ Drift' = made - (old - back)
        BY <1>10, <1>11, <3>1, <3>4
      <4> HIDE DEF all, back, old, v, made
      <4> QED BY <3>3, <4>1
    <3> HIDE DEF made, v, n
    <3> DEFINE err == made - v
    <3>7. err \in Int /\ - Arrived <= 2 * err /\ 2 * err <= Arrived
      BY <1>7, <3>1, <3>3, <3>5, Within
    <3> HIDE DEF err
    <3>8. Drift' = Drift + err
      BY <3>6 DEF err
    <3> QED BY <1>6, <1>7, <1>17, <3>6, <3>7, <3>8, SlackGrows DEF Slack
  <2>2. CASE ~ (shelf > qty)
    <3>1. shelf' = 0 /\ avg' = 0
      BY <1>2, <1>3, <1>7, <2>2 DEF ReversedCost
    <3>2. LiveWorth' = 0
      <4>1. LiveSize' = 0 => Staying' = {} /\ LiveWorth' = 0
        <5>1. BatchesTyped /\ LiveSize = 0 => Staying = {} /\ LiveWorth = 0
          BY NoneLive
        <5>2. (BatchesTyped /\ LiveSize = 0 => Staying = {} /\ LiveWorth = 0)'
          BY NoneLive, PTL
        <5> QED BY <1>4, <5>2
      <4> QED BY <1>18, <3>1, <4>1
    <3>3. Drift' = 0
      BY <1>18, <3>1, <3>2 DEF Drift
    <3>4. Slack' \in Nat
      BY <1>6, <1>7, <1>17
    <3>5. \A s \in Nat : - s <= 2 * 0 /\ 2 * 0 <= s
      OBVIOUS
    <3> QED BY Zenon, <3>3, <3>4, <3>5
  <2> QED BY <2>1, <2>2
<1> QED BY <1>2, <1>3, <1>7, <1>16, <1>18, <1>19

-----------------------------------------------------------------------------
(* The invariant, step by step.                                            *)

BatchInv ==
  /\ BatchesTyped /\ Numbered
  /\ LotsAccounted /\ ShelfAccounted /\ UndoneOnce /\ Answered /\ TradingHolds

LEMMA BatchesStart == BatchesInit => BatchInv
<1> SUFFICES ASSUME BatchesInit PROVE BatchInv
  OBVIOUS
<1>1. Opened = {} /\ shelf = 0 /\ avg = 0 /\ log = {}
  BY DEF BatchesInit, Opened, NoLot
<1>2. Staying = {} /\ LiveSize = 0 /\ LiveWorth = 0 /\ Value(log) = 0
  BY <1>1, SumEmpty DEF Staying, LiveSize, LiveWorth, Value
<1>3. {e \in log : e.type = "PURCHASE_IN"} = {} /\ IsFiniteSet(log) /\ Cardinality(log) = 0
  BY <1>1, FS_EmptySet
<1>4. Arrived = 0
  BY <1>3, NetOfNone DEF Arrived
<1>5. PetitionsTyped /\ BatchesTyped
  BY <1>1, <1>3 DEF BatchesInit, PetitionsTyped, NoPetition, BatchesTyped, NoLot, LotRow
<1>6. Numbered /\ LotsAccounted /\ UndoneOnce
  BY <1>1 DEF Numbered, LotsAccounted, UndoneOnce
<1>7. ShelfAccounted
  BY <1>1, NetOfNone DEF ShelfAccounted
<1>8. Answered
  BY <1>1 DEF Answered, BatchesInit, NoPetition
<1>9. Drift = 0 /\ Slack = 0
  BY <1>1, <1>2, <1>3, <1>4 DEF Drift, Slack
<1>10. TradingHolds
  BY <1>1, <1>2, <1>4, <1>9 DEF TradingHolds
<1> QED BY <1>5, <1>6, <1>7, <1>8, <1>10 DEF BatchInv

(* A step that books its rows keeps what is left when these are kept.      *)
LEMMA BookedKeeps ==
  ASSUME BatchInv, NEW rows, Entered(rows), BatchesTyped', UndoneOnce', Answered', TradingHolds'
  PROVE  BatchInv'
<1>1. lot' \in [Batches -> LotRow]
  BY DEF BatchesTyped
<1>2. LotsAccounted' /\ ShelfAccounted'
  BY <1>1, AccountsStep DEF BatchInv
<1>3. Numbered'
  BY NumberedStep DEF BatchInv
<1> QED BY <1>2, <1>3 DEF BatchInv

(* A row of another kind ends the trading.                                 *)
LEMMA TradingEnds ==
  ASSUME NEW rows, log' = log \cup rows, NEW e \in rows, e.type \notin Trades
  PROVE  TradingHolds'
BY DEF TradingHolds, Traded

LEMMA NoRowsUndone ==
  ASSUME UndoneOnce, log' = log
  PROVE  UndoneOnce'
BY DEF UndoneOnce

LEMMA StillAnswered ==
  ASSUME Answered, log' = log, petition' = petition
  PROVE  Answered'
BY DEF Answered

(* Commands, batches and consumers are not requests.                       *)
LEMMA OneAnswered ==
  ASSUME Answered, NEW e, log' = log \cup {e}, e.by \notin Requests, petition' = petition
  PROVE  Answered'
BY DEF Answered

LEMMA CreateKeeps ==
  ASSUME BatchInv, NEW b \in Batches, NEW qty \in Sizes, CreateLot(b, qty)
  PROVE  BatchInv'
<1>1. Entered({}) /\ BatchesTyped'
  BY CreateBooked, CreateTyped DEF BatchInv
<1>2. log' = log /\ shelf' = shelf /\ avg' = avg /\ petition' = petition
  BY DEF CreateLot
<1>3. UndoneOnce' /\ Answered'
  BY <1>2, NoRowsUndone, StillAnswered DEF BatchInv
<1>4. TradingHolds'
  BY <1>1, <1>2, TradingStays DEF Entered, BatchInv
<1> QED BY <1>1, <1>3, <1>4, BookedKeeps

LEMMA StatusKeeps ==
  ASSUME BatchInv, NEW b \in Batches, NEW st \in Marks, SetLotStatus(b, st)
  PROVE  BatchInv'
<1>1. Entered({}) /\ BatchesTyped'
  BY StatusBooked, StatusTyped DEF BatchInv
<1>2. log' = log /\ shelf' = shelf /\ avg' = avg /\ petition' = petition
  BY DEF SetLotStatus
<1>3. UndoneOnce' /\ Answered'
  BY <1>2, NoRowsUndone, StillAnswered DEF BatchInv
<1>4. TradingHolds'
  BY <1>1, <1>2, TradingStays DEF Entered, BatchInv
<1> QED BY <1>1, <1>3, <1>4, BookedKeeps

LEMMA ReceiveKeeps ==
  ASSUME BatchInv, NEW b \in Batches, NEW qty \in Sizes, NEW price \in Prices, ReceiveLot(b, qty, price)
  PROVE  BatchInv'
<1> DEFINE e == Entry(b, "PURCHASE_IN", qty, b, "none")
<1>1. Entered({e}) /\ BatchesTyped'
  BY ReceiveBooked, ReceiveTyped DEF BatchInv
<1>2. e.of = "none" /\ e.by \notin Requests /\ log' = log \cup {e} /\ petition' = petition
  BY StockBatchesAssumption DEF Entry, ReceiveLot
<1> HIDE DEF e
<1>3. UndoneOnce'
  BY <1>2, UndoneStep DEF BatchInv
<1>4. Answered'
  BY <1>2, OneAnswered DEF BatchInv
<1>5. TradingHolds'
  BY TradingReceives DEF BatchInv
<1> QED BY <1>1, <1>3, <1>4, <1>5, BookedKeeps

LEMMA CorrectKeeps ==
  ASSUME BatchInv, NEW b \in Batches, CorrectReceiving(b)
  PROVE  BatchInv'
<1> PICK e : e = OutRow(b)
  OBVIOUS
<1>1. Entered({e}) /\ BatchesTyped'
  BY CorrectBooked, CorrectTyped DEF BatchInv
<1>2. e.of = b /\ e.by \notin Requests /\ log' = log \cup {e} /\ petition' = petition
      /\ \A x \in log : x.of # b
  BY StockBatchesAssumption DEF OutRow, Entry, CorrectReceiving
<1>3. UndoneOnce'
  BY <1>2, UndoneStep DEF BatchInv
<1>4. Answered'
  BY <1>2, OneAnswered DEF BatchInv
<1>5. TradingHolds'
  BY TradingCorrects DEF BatchInv
<1> QED BY <1>1, <1>3, <1>4, <1>5, BookedKeeps

LEMMA AdjustKeeps ==
  ASSUME BatchInv, NEW a \in Commands, NEW b \in Opened, NEW qty \in Nat \ {0}, NEW of,
         of = "none" \/ (of \in Commands /\ \A r \in log : r.of # of),
         NEW type \in {"ADJUSTMENT_PLUS", "ADJUSTMENT_MINUS", "WASTE"},
         Adjust(a, b, type, qty, of)
  PROVE  BatchInv'
<1> DEFINE e == Entry(a, type, qty, b, of)
<1>1. of \notin Batches
  BY StockBatchesAssumption
<1>2. Entered({e}) /\ BatchesTyped'
  BY <1>1, AdjustBooked, AdjustTyped DEF BatchInv
<1>3. e.of = of /\ e.by \notin Requests /\ e.type = type /\ log' = log \cup {e} /\ petition' = petition
  BY StockBatchesAssumption DEF Entry, Adjust
<1> HIDE DEF e
<1>4. UndoneOnce'
  BY <1>3, UndoneStep DEF BatchInv
<1>5. Answered'
  BY <1>3, OneAnswered DEF BatchInv
<1>6. TradingHolds'
  BY <1>3, TradingEnds DEF Trades
<1> QED BY <1>2, <1>4, <1>5, <1>6, BookedKeeps

LEMMA RequestKeeps ==
  ASSUME BatchInv, NEW q \in Requests,
         \/ \E change \in Changes : AskAdjustment(q, change)
         \/ RejectAdjustment(q)
         \/ ApproveAdjustment(q)
  PROVE  BatchInv'
<1>1. CASE (\E change \in Changes : AskAdjustment(q, change)) \/ RejectAdjustment(q)
  <2>1. Entered({}) /\ shelf' = shelf /\ avg' = avg /\ log' = log /\ BatchesTyped' /\ Answered'
    BY <1>1, RequestBooked, RequestTyped, AskedNotAnswered DEF BatchInv
  <2>2. UndoneOnce' /\ TradingHolds'
    BY <2>1, NoRowsUndone, TradingStays DEF Entered, BatchInv
  <2> QED BY <2>1, <2>2, BookedKeeps
<1>2. CASE ApproveAdjustment(q)
  <2> PICK e : e = ApprovalRow(q)
    OBVIOUS
  <2>1. Entered({e}) /\ e.of = "none" /\ e.type \in {"ADJUSTMENT_PLUS", "ADJUSTMENT_MINUS"}
    BY <1>2, ApproveBooked DEF BatchInv
  <2>2. BatchesTyped' /\ Answered'
    BY <1>2, ApproveTyped, ApprovedIsAnswered DEF BatchInv
  <2>3. log' = log \cup {e}
    BY <2>1 DEF Entered
  <2>4. UndoneOnce' /\ TradingHolds'
    BY <2>1, <2>3, UndoneStep, TradingEnds DEF BatchInv, Trades
  <2> QED BY <2>1, <2>2, <2>4, BookedKeeps
<1> QED BY <1>1, <1>2

LEMMA ConsumeKeeps ==
  ASSUME BatchInv, NEW p \in Consumers, NEW qty \in Sizes, NEW today, Consume(p, qty, today)
  PROVE  BatchInv'
<1> PICK rows : rows = TakenRows(p, qty, today)
  OBVIOUS
<1>1. Entered(rows) /\ BatchesTyped' /\ TakenFrom(qty, today) # {}
  BY ConsumeBooked, ConsumeTyped DEF BatchInv
<1>2. log' = log \cup rows /\ petition' = petition
  BY <1>1 DEF Entered, Consume
<1>3. \A e \in rows : e.of = "none" /\ e.by \notin Requests /\ e.type = "PRODUCTION_OUT"
  BY StockBatchesAssumption DEF TakenRows, Entry
<1>4. PICK e \in rows : e.type \notin Trades
  BY <1>1, <1>3 DEF TakenRows, Trades
<1>5. UndoneOnce'
  BY <1>2, <1>3, UndoneStep DEF BatchInv
<1>6. Answered'
  BY <1>2, <1>3, AnsweredStep DEF BatchInv
<1>7. TradingHolds'
  BY <1>2, <1>4, TradingEnds
<1> QED BY <1>1, <1>5, <1>6, <1>7, BookedKeeps

LEMMA BatchInvStep == BatchInv /\ [BatchesNext]_batches => BatchInv'
<1> SUFFICES ASSUME BatchInv, [BatchesNext]_batches PROVE BatchInv'
  OBVIOUS
<1>1. CASE LotStep
  <2>1. PICK b \in Batches :
          \/ \E qty \in Sizes : CreateLot(b, qty) \/ \E price \in Prices : ReceiveLot(b, qty, price)
          \/ CorrectReceiving(b)
          \/ \E st \in Marks : SetLotStatus(b, st)
    BY <1>1 DEF LotStep
  <2> QED BY <2>1, CreateKeeps, ReceiveKeeps, CorrectKeeps, StatusKeeps
<1>2. CASE AdjustStep
  <2>1. CASE \E a \in Commands, b \in Batches, qty \in Losses, type \in {"ADJUSTMENT_PLUS", "WASTE"} :
               AdjustByHand(a, b, type, qty)
    <3>1. PICK a \in Commands, b \in Batches, qty \in Losses, type \in {"ADJUSTMENT_PLUS", "WASTE"} :
            AdjustByHand(a, b, type, qty)
      BY <2>1
    <3>2. b \in Opened /\ qty \in Nat \ {0}
      BY <3>1, ByHandBooked DEF BatchInv
    <3>3. Adjust(a, b, type, qty, "none")
      BY <3>1 DEF AdjustByHand
    <3> QED BY <3>2, <3>3, AdjustKeeps
  <2>2. CASE \E a \in Commands, e \in log : Reverse(a, e)
    <3>1. PICK a \in Commands, e \in log : Reverse(a, e)
      BY <2>2
    <3>2. /\ e.lot \in Opened /\ e.qty \in Nat \ {0} /\ e.by \in Commands
          /\ Opposite(e.type) \in {"ADJUSTMENT_PLUS", "ADJUSTMENT_MINUS"}
      BY <3>1, ReverseBooked DEF BatchInv
    <3>3. Adjust(a, e.lot, Opposite(e.type), e.qty, e.by) /\ \A r \in log : r.of # e.by
      BY <3>1 DEF Reverse
    <3> QED BY <3>2, <3>3, AdjustKeeps
  <2>3. CASE \E q \in Requests : \/ \E change \in Changes : AskAdjustment(q, change)
                                 \/ RejectAdjustment(q) \/ ApproveAdjustment(q)
    BY <2>3, RequestKeeps
  <2> QED BY <1>2, <2>1, <2>2, <2>3 DEF AdjustStep
<1>3. CASE \E p \in Consumers, qty \in Sizes, today \in 1..2 : Consume(p, qty, today)
  BY <1>3, ConsumeKeeps
<1>4. CASE UNCHANGED batches
  <2>1. lot' = lot /\ shelf' = shelf /\ avg' = avg /\ log' = log /\ petition' = petition
    BY <1>4 DEF batches
  <2>2. Opened' = Opened /\ Kept /\ Seated /\ Staying' = Staying
    BY <2>1 DEF Opened, Kept, Seated, Staying, InRow
  <2>3. Entered({})
    BY <2>1, <2>2, NothingBooked DEF BatchInv
  <2>4. UndoneOnce' /\ Answered' /\ TradingHolds'
    BY <2>1, <2>2, NoRowsUndone, StillAnswered, TradingStays DEF BatchInv
  <2>5. BatchesTyped'
    <3>1. BatchesTyped /\ PetitionsTyped /\ PetitionsTyped'
      BY <2>1 DEF BatchInv, BatchesTyped, PetitionsTyped
    <3>2. lot' \in [Batches -> LotRow] /\ shelf' \in Nat /\ avg' \in Int
      BY <2>1, <3>1 DEF BatchesTyped
    <3> QED BY <2>2, <2>3, <3>1, <3>2, StillTyped
  <2> QED BY <2>3, <2>4, <2>5, BookedKeeps
<1> QED BY <1>1, <1>2, <1>3, <1>4 DEF BatchesNext

LEMMA InvAccounts == BatchInv => BatchAccounts
<1> SUFFICES ASSUME BatchInv PROVE BatchAccounts
  OBVIOUS
<1>1. \A b \in Opened :
        lot[b].current = lot[b].initial + Net({e \in log : e.lot = b /\ e.type # "PURCHASE_IN"})
  BY DEF BatchInv, LotsAccounted, OnLot
<1>2. /\ shelf = Net(log)
      /\ \A e, f \in log : e.of # "none" /\ e.of = f.of => e = f
      /\ \A q \in Requests : petition[q].st = "APPROVED" <=> \E e \in log : e.by = q
  BY DEF BatchInv, ShelfAccounted, UndoneOnce, Answered
<1>3. (\A e \in log : e.type \in {"PURCHASE_IN", "RETURN_TO_SUPPLIER"})
      => - Slack <= 2 * Drift /\ 2 * Drift <= Slack
  BY DEF BatchInv, TradingHolds, Traded, Trades
<1> QED BY <1>1, <1>2, <1>3 DEF BatchAccounts, Drift, Slack, Arrived

(* A batch holds what came in it less what took from it, the level is the  *)
(* sum of its rows, nothing is undone twice, a request is approved with    *)
(* its row, and the average values the level at what the goods cost up to  *)
(* a rounding at each step, for any batches, quantities, prices, dates,    *)
(* requests and costing method.                                            *)
THEOREM BatchesAccounted == BatchesSpec => []BatchAccounts
<1>1. BatchInv /\ [BatchesNext]_batches => BatchInv'
  BY BatchInvStep
<1>2. BatchInv => BatchAccounts
  BY InvAccounts
<1> QED BY <1>1, <1>2, BatchesStart, PTL DEF BatchesSpec
=============================================================================
