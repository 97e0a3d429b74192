---------------------------- MODULE BranchProofs ----------------------------
(* What a branch keeps for itself, for any number of shifts, tenders,      *)
(* pulls, requests, heartbeats and any bounds: its settlements and money   *)
(* book, the position in the hub's feed, and its licence.                  *)
EXTENDS ShiftSettlement, Licensing, PullReplay, SumProofs

-----------------------------------------------------------------------------
(* The book and the balances: Treasury.                                    *)

BookInv ==
  /\ IsFiniteSet(DOMAIN book)
  /\ book = [r \in DOMAIN book |-> 1]
  /\ \A r \in DOMAIN book : r.delta \in Int
  /\ balance \in [Kinds -> Int]
  /\ CreditedOnce

LEMMA MovesInt ==
  ASSUME NEW S, IsFiniteSet(S), \A r \in S : r.delta \in Int
  PROVE  Deltas(S) \in Int
<1> DEFINE f == [r \in S |-> r.delta]
<1>1. \A r \in S : f[r] \in Int
  OBVIOUS
<1> HIDE DEF f
<1>2. SumFunctionOnSet(f, S) \in Int
  BY <1>1, SumInt
<1> QED BY <1>2 DEF Deltas, f

LEMMA MovesUnion ==
  ASSUME NEW S, IsFiniteSet(S), NEW T, IsFiniteSet(T), S \cap T = {},
         \A r \in S \cup T : r.delta \in Int
  PROVE  Deltas(S \cup T) = Deltas(S) + Deltas(T)
<1> DEFINE f == [r \in S \cup T |-> r.delta]  g == [r \in S |-> r.delta]  h == [r \in T |-> r.delta]
<1>1. /\ \A r \in S \cup T : f[r] \in Int
      /\ \A r \in S : f[r] = g[r]
      /\ \A r \in T : f[r] = h[r]
  OBVIOUS
<1> HIDE DEF f, g, h
<1>2. SumFunctionOnSet(f, S \cup T) = SumFunctionOnSet(f, S) + SumFunctionOnSet(f, T)
  BY <1>1, SumUnion
<1>3. SumFunctionOnSet(f, S) = SumFunctionOnSet(g, S) /\ SumFunctionOnSet(f, T) = SumFunctionOnSet(h, T)
  BY <1>1, SumSame
<1> QED BY <1>2, <1>3 DEF Deltas, f, g, h

LEMMA MovesNothing == Deltas({}) = 0
  BY SumEmpty DEF Deltas

LEMMA MovesOne ==
  ASSUME NEW r, r.delta \in Int
  PROVE  Deltas({r}) = r.delta
<1> DEFINE f == [x \in {r} |-> x.delta]
<1>1. \A x \in {} \cup {r} : f[x] \in Int
  OBVIOUS
<1>2. f[r] = r.delta
  OBVIOUS
<1> HIDE DEF f
<1>3. SumFunctionOnSet(f, {} \cup {r}) = f[r] + SumFunctionOnSet(f, {})
  BY <1>1, FS_EmptySet, SumAdds
<1>4. SumFunctionOnSet(f, {}) = 0 /\ {} \cup {r} = {r}
  BY SumEmpty
<1>5. SumFunctionOnSet(f, {r}) = r.delta
  BY <1>2, <1>3, <1>4
<1> QED BY <1>5 DEF Deltas, f

(* New rows are written beside the old, and the balances move with them.   *)
LEMMA Applied ==
  ASSUME BookInv, NEW new, IsFiniteSet(new), new \cap DOMAIN book = {},
         \A r \in new : r.delta \in Int, Apply(new)
  PROVE  BookInv' /\ DOMAIN book' = DOMAIN book \cup new
<1>1. book' = [r \in DOMAIN book \cup new |-> 1]
  <2> DEFINE bag == [e \in new |-> 1]
  <2>0. book' = book (+) SetToBag(new)
    BY DEF Apply
  <2>1. book' = [e \in (DOMAIN book) \cup (DOMAIN bag) |->
            (IF e \in DOMAIN book THEN book[e] ELSE 0) + (IF e \in DOMAIN bag THEN bag[e] ELSE 0)]
    BY <2>0 DEF SetToBag, (+)
  <2>2. DOMAIN bag = new /\ \A e \in new : bag[e] = 1
    OBVIOUS
  <2>3. \A e \in DOMAIN book : book[e] = 1
    BY DEF BookInv
  <2> HIDE DEF bag
  <2>4. \A e \in DOMAIN book \cup new :
          (IF e \in DOMAIN book THEN book[e] ELSE 0) + (IF e \in DOMAIN bag THEN bag[e] ELSE 0) = 1
    BY <2>2, <2>3
  <2> QED BY <2>1, <2>2, <2>4
<1>2. DOMAIN book' = DOMAIN book \cup new /\ book' = [r \in DOMAIN book' |-> 1]
  BY <1>1
<1>3. IsFiniteSet(DOMAIN book') /\ \A r \in DOMAIN book' : r.delta \in Int
  <2>1. IsFiniteSet(DOMAIN book \cup new)
    BY FS_Union DEF BookInv
  <2> QED BY <1>2, <2>1 DEF BookInv
<1>4. ASSUME NEW k \in Kinds
      PROVE  balance'[k] = Moved(DOMAIN book', k) /\ balance'[k] \in Int
  <2> DEFINE old == {r \in DOMAIN book : r.account = k}  came == {r \in new : r.account = k}
  <2>1. {r \in DOMAIN book' : r.account = k} = old \cup came /\ old \cap came = {}
    BY <1>2
  <2>2. IsFiniteSet(old) /\ IsFiniteSet(came)
    BY FS_Subset DEF BookInv
  <2>3. (\A r \in old : r.delta \in Int) /\ (\A r \in came : r.delta \in Int)
    BY DEF BookInv
  <2>4. balance[k] = Deltas(old)
    BY DEF BookInv, CreditedOnce, Rows, BagToSet, Moved
  <2>5. balance'[k] = balance[k] + Deltas(came)
    BY DEF Apply, Moved
  <2>6. Moved(DOMAIN book', k) = Deltas(old \cup came)
    BY <2>1 DEF Moved
  <2> HIDE DEF old, came
  <2> QED BY <2>1, <2>2, <2>3, <2>4, <2>5, <2>6, MovesUnion, MovesInt
<1>5. balance' \in [Kinds -> Int]
  <2>1. balance' = [k \in Kinds |-> balance[k] + Moved(new, k)]
    BY DEF Apply
  <2> QED BY <1>4, <2>1
<1>6. \A r \in DOMAIN book' : book'[r] = 1
  BY <1>2
<1>7. CreditedOnce'
  BY <1>4, <1>6 DEF CreditedOnce, Rows, BagToSet
<1> QED BY <1>2, <1>3, <1>5, <1>7 DEF BookInv

(* What a shift has left in the book under amounts: one row for each       *)
(* tender that moved.                                                      *)
Booked(s, amounts) == {Deposit(s, m, amounts[m]) : m \in {t \in Methods : amounts[t] # 0}}

(* A settlement adds the rows that are missing, and no others.             *)
LEMMA Settles ==
  ASSUME BookInv, NEW s, NEW amounts \in [Methods -> Int], PostSettlement(s, amounts),
         Deposits(s) \subseteq Booked(s, amounts)
  PROVE  /\ BookInv'
         /\ Deposits(s)' = Booked(s, amounts)
         /\ \A t : t # s => Deposits(t)' = Deposits(t)
<1> DEFINE new == Booked(s, amounts) \ Deposits(s)
<1>1. Apply(new)
  BY DEF PostSettlement, Booked
<1>2. \A r \in Booked(s, amounts) : r.delta \in Int /\ r.type = "SHIFT_DEPOSIT" /\ r.ref = s
  BY DEF Booked, Deposit, Row
<1>3. IsFiniteSet(new)
  <2> DEFINE moved == {t \in Methods : amounts[t] # 0}  f == [m \in moved |-> Deposit(s, m, amounts[m])]
  <2>1. IsFiniteSet(Methods)
    <3>1. IsFiniteSet({"CASH"})
      BY FS_Singleton
    <3>2. IsFiniteSet({"CASH"} \cup {"CARD"})
      BY <3>1, FS_AddElement
    <3> QED BY <3>2 DEF Methods
  <2>2. IsFiniteSet(moved)
    BY <2>1, FS_Subset
  <2>3. f \in Surjection(moved, Booked(s, amounts))
    BY DEF Surjection, Booked
  <2> HIDE DEF moved, f
  <2>4. IsFiniteSet(Booked(s, amounts))
    BY <2>2, <2>3, FS_Surjection
  <2> QED BY <2>4, FS_Subset
<1>4. new \cap DOMAIN book = {}
  BY <1>2 DEF Deposits, Rows, BagToSet
<1>5. BookInv' /\ DOMAIN book' = DOMAIN book \cup new
  <2> HIDE DEF new
  <2>1. \A r \in new : r.delta \in Int
    BY <1>2 DEF new
  <2> QED BY <1>1, <1>3, <1>4, <2>1, Applied
<1>6. \A t : Deposits(t)' = Deposits(t) \cup {r \in new : r.type = "SHIFT_DEPOSIT" /\ r.ref = t}
  BY <1>5 DEF Deposits, Rows, BagToSet
<1>7. Deposits(s)' = Booked(s, amounts)
  BY <1>2, <1>6
<1>8. ASSUME NEW t, t # s PROVE Deposits(t)' = Deposits(t)
  BY <1>2, <1>6, <1>8
<1> QED BY <1>5, <1>7, <1>8

(* The rows of one tender are worth its amount.                            *)
LEMMA BookedWorth ==
  ASSUME NEW s, NEW amounts \in [Methods -> Int], NEW m \in Methods
  PROVE  Deltas({r \in Booked(s, amounts) : r.item = m}) = amounts[m]
<1> DEFINE entry == Deposit(s, m, amounts[m])
<1>1. entry.delta = amounts[m] /\ amounts[m] \in Int
  BY DEF Deposit, Row
<1>2. CASE amounts[m] = 0
  <2>1. {r \in Booked(s, amounts) : r.item = m} = {}
    BY <1>2 DEF Booked, Deposit, Row
  <2> QED BY <1>2, <2>1, MovesNothing
<1>3. CASE amounts[m] # 0
  <2>1. {r \in Booked(s, amounts) : r.item = m} = {entry}
    BY <1>3 DEF Booked, Deposit, Row
  <2> HIDE DEF entry
  <2> QED BY <1>1, <2>1, MovesOne
<1> QED BY <1>2, <1>3

-----------------------------------------------------------------------------
(* The rows of a shift.                                                    *)

LEMMA RecordFields ==
  ASSUME NEW kind, NEW of, NEW in, NEW by
  PROVE  /\ Record(kind, of, in, by).kind = kind /\ Record(kind, of, in, by).of = of
         /\ Record(kind, of, in, by).in = in /\ Record(kind, of, in, by).by = by
BY DEF Record

LEMMA RecordTyped ==
  ASSUME NEW in \in Shifts, NEW by \in {"till", "hub"}
  PROVE  /\ \A kind \in OrderKinds \cup {"payment", "refund"}, o \in Orders :
              Record(kind, o, in, by) \in Record_
         /\ \A kind \in {"expense", "void"}, x \in Expenses : Record(kind, x, in, by) \in Record_
         /\ Header(in) \in Record_ /\ Tenders(in) \in Record_
BY DEF Record, Record_, Header, Tenders

LEMMA FieldsTyped ==
  ASSUME NEW r \in Record_
  PROVE  /\ r.in \in Shifts /\ r.by \in {"till", "hub"}
         /\ r.kind \in OrderKinds \cup {"payment", "refund", "expense", "void", "tenders", "header"}
         /\ r.kind \in OrderKinds \cup {"payment", "refund"} => r.of \in Orders
         /\ r.kind \in {"expense", "void"} => r.of \in Expenses
BY DEF Record_, OrderKinds

LEMMA InEvidence ==
  ASSUME NEW rows, NEW s, NEW r
  PROVE  r \in Evidence(rows, s, {s}) <=>
           /\ r \in rows
           /\ \/ r.kind = "sale" /\ r.in = s
              \/ r.kind = "payment" /\ \E q \in rows : q.kind = "sale" /\ q.in = s /\ q.of = r.of
              \/ r.kind \in {"refund", "expense", "void"} /\ r.in = s
BY DEF Evidence, Sales

(* What the manager's sums are compared with is a number.                  *)
LEMMA ExpectedInt ==
  ASSUME NEW rows, IsFiniteSet(rows), rows \subseteq Record_, NEW m
  PROVE  Expected(rows, m) \in Int
<1>1. ASSUME NEW S, S \subseteq rows, \A r \in S : r.kind \in {"sale", "refund", "expense", "void"}
      PROVE  Sum(S) \in Int
  <2> DEFINE f == [r \in S |-> Amount[r.of]]
  <2>1. IsFiniteSet(S)
    BY <1>1, FS_Subset
  <2>2. ASSUME NEW r \in S PROVE f[r] \in Int
    <3>1. r.of \in Orders \cup Expenses
      BY <1>1, FieldsTyped DEF OrderKinds
    <3> QED BY <3>1, ShiftSettlementAssumption
  <2> HIDE DEF f
  <2>3. SumFunctionOnSet(f, S) \in Int
    BY <2>1, <2>2, SumInt
  <2> QED BY <2>3 DEF Sum, f
<1> DEFINE by(kind) == {r \in rows : r.kind = kind}
           tender(kind) == {r \in by(kind) : Method[r.of] = m}
<1>2. Sum(by("expense")) \in Int /\ Sum(by("void")) \in Int
      /\ Sum(tender("sale")) \in Int /\ Sum(tender("refund")) \in Int
  <2>1. \A k \in {"sale", "refund", "expense", "void"} :
          /\ by(k) \subseteq rows /\ \A r \in by(k) : r.kind \in {"sale", "refund", "expense", "void"}
          /\ tender(k) \subseteq rows /\ \A r \in tender(k) : r.kind \in {"sale", "refund", "expense", "void"}
    OBVIOUS
  <2> HIDE DEF by, tender
  <2> QED BY <1>1, <2>1
<1>3. Expected(rows, m) = Sum(tender("sale")) - Sum(tender("refund"))
         - (IF m = "CASH" THEN Sum(by("expense")) - Sum(by("void")) ELSE 0)
  BY DEF Expected
<1> HIDE DEF by, tender
<1> QED BY <1>2, <1>3

(* The order of a payment is one row, at either side, and neither changes  *)
(* its shift; the hub has of paid and canceled orders what the terminal    *)
(* has.                                                                    *)
RowsInv ==
  /\ IsFiniteSet(local)
  /\ \A r \in local \cup cloud : r.kind \in OrderKinds \cup {"payment"} => r.by = "till"
  /\ \A p, q \in local : p.kind \in OrderKinds /\ q.kind \in OrderKinds /\ p.of = q.of => p = q
  /\ \A p, q \in cloud : p.kind \in OrderKinds /\ q.kind \in OrderKinds /\ p.of = q.of => p = q
  /\ \A p \in local : p.kind = "payment" => \E q \in local : q.kind = "sale" /\ q.of = p.of /\ q.in = p.in
  /\ \A r \in cloud : r.kind \in {"sale", "canceled", "payment"} => r \in local

HubInv ==
  \A s \in Shifts : /\ hub[s] \in {"ended", "completed"} => till[s] = "ended"
                    /\ hub[s] = "completed" <=> recon[s] # NotYet

PostedInv ==
  /\ BookInv
  /\ \A s \in Shifts :
       /\ IsFiniteSet(manifest[s])
       /\ Deposits(s) = IF recon[s] = NotYet THEN {} ELSE Booked(s, Posted(s, recon[s]))

(* The evidence of a confirmed shift, less the reversals of the hub.       *)
Kept(s, rows) ==
  {r \in Evidence(rows, s, {s}) : r.kind # "void" \/ r.by = "till" \/ r \in manifest[s]}

KeptInv == \A s \in Shifts : recon[s] # NotYet => Kept(s, cloud) = manifest[s]

SettleInv == TypeOK /\ RowsInv /\ HubInv /\ PostedInv /\ KeptInv

LEMMA PostedTyped ==
  ASSUME TypeOK, NEW s \in Shifts, IsFiniteSet(manifest[s]), NEW c \in [Methods -> Counts]
  PROVE  Posted(s, c) \in [Methods -> Int]
<1>1. ASSUME NEW m \in Methods PROVE Expected(manifest[s], m) \in Int /\ c[m] \in Int
  <2>1. manifest[s] \subseteq Record_
    BY DEF TypeOK
  <2>2. Expected(manifest[s], m) \in Int
    BY <2>1, ExpectedInt
  <2>3. Counts \subseteq Nat
    BY ShiftSettlementAssumption
  <2>4. c[m] \in Nat
    BY <2>3
  <2>5. c[m] \in Int
    BY <2>4
  <2> QED BY <2>2, <2>5
<1> QED BY <1>1 DEF Posted

LEMMA NotYetIsNoCount == NotYet \notin [Methods -> Counts]
<1>1. NotYet["CASH"] = -1 /\ "CASH" \in Methods /\ -1 \notin Counts
  BY ShiftSettlementAssumption DEF NotYet, Methods
<1> QED BY <1>1

LEMMA SettledMeans == SettleInv => SettledIsEvidence /\ CreditedOnce
<1> SUFFICES ASSUME SettleInv PROVE SettledIsEvidence /\ CreditedOnce
  OBVIOUS
<1>1. ASSUME NEW s \in Shifts, recon[s] # NotYet, NEW m \in Methods
      PROVE  Deltas({r \in Deposits(s) : r.item = m}) = Posted(s, recon[s])[m]
  <2>1. recon[s] \in [Methods -> Counts]
    BY <1>1 DEF SettleInv, TypeOK
  <2>2. Posted(s, recon[s]) \in [Methods -> Int]
    BY <2>1, PostedTyped DEF SettleInv, PostedInv
  <2>3. Deposits(s) = Booked(s, Posted(s, recon[s]))
    BY <1>1 DEF SettleInv, PostedInv
  <2> QED BY <2>2, <2>3, BookedWorth
<1>2. SettledIsEvidence
  BY <1>1 DEF SettledIsEvidence, SettleInv, KeptInv, Kept
<1> QED BY <1>2 DEF SettleInv, PostedInv, BookInv

-----------------------------------------------------------------------------
(* Types.                                                                  *)

(* A step that writes rows alone.                                          *)
LEMMA RowsWritten ==
  ASSUME TypeOK, UNCHANGED <<till, hub, manifest, recon, acked>>,
         local' \subseteq Record_, cloud' \subseteq Record_, queue' \subseteq Record_
  PROVE  TypeOK'
BY DEF TypeOK

LEMMA TypesStep == TypeOK /\ [Next]_vars => TypeOK'
<1> SUFFICES ASSUME TypeOK, [Next]_vars PROVE TypeOK'
  OBVIOUS
<1>0. local \subseteq Record_ /\ cloud \subseteq Record_ /\ queue \subseteq Record_
  BY DEF TypeOK
<1>t. "till" \in {"till", "hub"} /\ "hub" \in {"till", "hub"}
  OBVIOUS
<1>k. {"open", "canceled", "sale", "payment", "refund"} \subseteq OrderKinds \cup {"payment", "refund"}
  BY DEF OrderKinds
<1>s. Shifts \subseteq Int
  BY DEF Shifts
<1>1. ASSUME NEW s \in Shifts, StartShift(s) PROVE TypeOK'
  <2>1. till' = [till EXCEPT ![s] = "active"] /\ queue' = queue \cup {Header(s)}
        /\ UNCHANGED <<hub, local, cloud, manifest, recon, acked>>
        /\ till[s] = "none" /\ \A t \in Shifts : t < s => till[t] = "ended"
    BY <1>1 DEF StartShift
  <2>2. queue' \subseteq Record_
    BY <1>0, <1>t, <2>1, RecordTyped
  <2>3. till' \in [Shifts -> {"none", "active", "ended"}]
    BY <2>1 DEF TypeOK
  <2>4. acked' \subseteq {t \in Shifts : till'[t] = "ended"}
    BY <2>1 DEF TypeOK
  <2>5. ASSUME NEW t \in Shifts, NEW u \in Shifts, t < u, till'[u] # "none" PROVE till'[t] = "ended"
    BY <1>s, <2>1, <2>5 DEF TypeOK
  <2> QED BY <2>1, <2>2, <2>3, <2>4, <2>5 DEF TypeOK
<1>2. ASSUME NEW s \in Shifts, EndShift(s) PROVE TypeOK'
  <2>1. till' = [till EXCEPT ![s] = "ended"] /\ till[s] = "active"
        /\ manifest' = [manifest EXCEPT ![s] = Evidence(local, s, {s})]
        /\ local' = local \cup {Header(s), Tenders(s)} /\ queue' = queue \cup {Header(s), Tenders(s)}
        /\ UNCHANGED <<hub, cloud, recon, acked>>
    BY <1>2 DEF EndShift, Write
  <2>2. local' \subseteq Record_ /\ queue' \subseteq Record_
    BY <1>0, <1>t, <2>1, RecordTyped
  <2>3. Evidence(local, s, {s}) \subseteq Record_
    BY <1>0, InEvidence
  <2>4. manifest' \in [Shifts -> SUBSET Record_]
    BY <2>1, <2>3 DEF TypeOK
  <2>5. till' \in [Shifts -> {"none", "active", "ended"}] /\ acked' \subseteq {t \in Shifts : till'[t] = "ended"}
    BY <2>1 DEF TypeOK
  <2>6. ASSUME NEW t \in Shifts, NEW u \in Shifts, t < u, till'[u] # "none" PROVE till'[t] = "ended"
    BY <2>1, <2>6 DEF TypeOK
  <2> QED BY <2>1, <2>2, <2>4, <2>5, <2>6 DEF TypeOK
<1>3. ASSUME NEW s \in Shifts, ReceiveHeader(s) PROVE TypeOK'
  <2>1. hub' \in [Shifts -> {"none", "active", "ended", "completed"}] /\ queue' \subseteq Record_
    BY <1>0, <1>3 DEF TypeOK, ReceiveHeader
  <2> QED BY <1>3, <2>1 DEF TypeOK, ReceiveHeader
<1>4. ASSUME NEW s \in Shifts, Acknowledge(s) PROVE TypeOK'
  BY <1>4 DEF TypeOK, Acknowledge
<1>5. ASSUME NEW s \in Shifts, ReconcileAgain(s) PROVE TypeOK'
  BY <1>5 DEF TypeOK, ReconcileAgain, shifts
<1>6. ASSUME NEW s \in Shifts, NEW c \in [Methods -> Counts], Reconcile(s, c) PROVE TypeOK'
  <2>1. recon' \in [Shifts -> {NotYet} \cup [Methods -> Counts]]
        /\ hub' \in [Shifts -> {"none", "active", "ended", "completed"}]
    BY <1>6 DEF TypeOK, Reconcile
  <2> QED BY <1>6, <2>1 DEF TypeOK, Reconcile
<1>7. ASSUME NEW s \in Shifts, NEW o \in Orders, TakeOrder(s, o) PROVE TypeOK'
  <2>1. local' \subseteq Record_ /\ queue' \subseteq Record_ /\ cloud' = cloud
    BY <1>0, <1>t, <1>k, <1>7, RecordTyped DEF TakeOrder, Write
  <2> QED BY <1>0, <1>7, <2>1, RowsWritten DEF TakeOrder
<1>8. ASSUME NEW s \in Shifts, NEW o \in Orders, CancelOrder(s, o) PROVE TypeOK'
  <2>1. local' \subseteq Record_ /\ queue' \subseteq Record_ /\ cloud' = cloud
    BY <1>0, <1>t, <1>k, <1>8, RecordTyped DEF CancelOrder, Write
  <2> QED BY <1>0, <1>8, <2>1, RowsWritten DEF CancelOrder
<1>9. ASSUME NEW s \in Shifts, NEW o \in Orders, Pay(s, o) PROVE TypeOK'
  <2>1. local' \subseteq Record_ /\ queue' \subseteq Record_ /\ cloud' = cloud
    BY <1>0, <1>t, <1>k, <1>9, RecordTyped DEF Pay, Write
  <2> QED BY <1>0, <1>9, <2>1, RowsWritten DEF Pay
<1>10. ASSUME NEW s \in Shifts, NEW o \in Orders, Refund(s, o) PROVE TypeOK'
  <2>1. local' \subseteq Record_ /\ queue' \subseteq Record_ /\ cloud' = cloud
    BY <1>0, <1>t, <1>k, <1>10, RecordTyped DEF Refund, Write
  <2> QED BY <1>0, <1>10, <2>1, RowsWritten DEF Refund
<1>11. ASSUME NEW s \in Shifts, NEW o \in Orders, RefundAtHub(s, o) PROVE TypeOK'
  <2>1. cloud' \subseteq Record_ /\ local' = local /\ queue' = queue
    BY <1>0, <1>t, <1>k, <1>11, RecordTyped DEF RefundAtHub
  <2> QED BY <1>0, <1>11, <2>1, RowsWritten DEF RefundAtHub
<1>12. ASSUME NEW s \in Shifts, NEW x \in Expenses, PayExpense(s, x) PROVE TypeOK'
  <2>1. local' \subseteq Record_ /\ queue' \subseteq Record_ /\ cloud' = cloud
    BY <1>0, <1>t, <1>12, RecordTyped DEF PayExpense, Write
  <2> QED BY <1>0, <1>12, <2>1, RowsWritten DEF PayExpense
<1>13. ASSUME NEW s \in Shifts, NEW x \in Expenses, PayExpenseAtHub(s, x) PROVE TypeOK'
  <2>1. cloud' \subseteq Record_ /\ local' = local /\ queue' = queue
    BY <1>0, <1>t, <1>13, RecordTyped DEF PayExpenseAtHub
  <2> QED BY <1>0, <1>13, <2>1, RowsWritten DEF PayExpenseAtHub
<1>14. ASSUME NEW x \in Expenses, VoidExpense(x) PROVE TypeOK'
  <2>1. PICK r \in local : Write({}, {Record("void", x, r.in, "till")})
    BY <1>14 DEF VoidExpense
  <2>2. r.in \in Shifts
    BY <1>0, FieldsTyped
  <2>3. local' \subseteq Record_ /\ queue' \subseteq Record_ /\ cloud' = cloud
    BY <1>0, <1>t, <1>14, <2>1, <2>2, RecordTyped DEF VoidExpense, Write
  <2> QED BY <1>0, <1>14, <2>3, RowsWritten DEF VoidExpense
<1>15. ASSUME NEW x \in Expenses, VoidAtHub(x) PROVE TypeOK'
  <2>1. PICK r \in cloud : cloud' = cloud \cup {Record("void", x, r.in, "hub")}
    BY <1>15 DEF VoidAtHub
  <2>2. r.in \in Shifts
    BY <1>0, FieldsTyped
  <2>3. cloud' \subseteq Record_ /\ local' = local /\ queue' = queue
    BY <1>0, <1>t, <1>15, <2>1, <2>2, RecordTyped DEF VoidAtHub
  <2> QED BY <1>0, <1>15, <2>3, RowsWritten DEF VoidAtHub
<1>16. ASSUME NEW r \in cloud, PullRow(r) PROVE TypeOK'
  <2>1. local' \subseteq Record_ /\ queue' \subseteq Record_ /\ cloud' = cloud
    BY <1>0, <1>16 DEF PullRow
  <2> QED BY <1>0, <1>16, <2>1, RowsWritten DEF PullRow
<1>17. ASSUME NEW r \in local, Receive(r) PROVE TypeOK'
  <2>1. cloud' \subseteq Record_ /\ local' = local /\ queue' \subseteq Record_
    BY <1>0, <1>17 DEF Receive
  <2> QED BY <1>0, <1>17, <2>1, RowsWritten DEF Receive
<1>18. CASE UNCHANGED vars
  BY <1>18 DEF TypeOK, vars, shifts
<1> QED BY <1>1, <1>2, <1>3, <1>4, <1>5, <1>6, <1>7, <1>8, <1>9, <1>10, <1>11, <1>12, <1>13, <1>14,
           <1>15, <1>16, <1>17, <1>18 DEF Next

-----------------------------------------------------------------------------
(* Rows.                                                                   *)

Plain == {"refund", "expense", "void", "tenders", "header"}

LEMMA PlainIsNoOrder == \A k \in Plain : k \notin OrderKinds \cup {"payment"}
BY DEF Plain, OrderKinds

(* Money that is no payment comes and goes without touching the orders.    *)
LEMMA PlainRowsMove ==
  ASSUME RowsInv, IsFiniteSet(local'),
         \A r \in local' \cup cloud' : r \in local \cup cloud \/ r.kind \in Plain,
         \A r : r.kind \in OrderKinds \cup {"payment"} =>
                  /\ r \in local' <=> r \in local
                  /\ r \in cloud' <=> r \in cloud
  PROVE  RowsInv'
<1>1. "sale" \in OrderKinds /\ "canceled" \in OrderKinds
  BY DEF OrderKinds
<1> QED BY <1>1, PlainIsNoOrder DEF RowsInv

LEMMA LocalPlainGrows ==
  ASSUME RowsInv, NEW new, IsFiniteSet(new), \A r \in new : r.kind \in Plain,
         local' = local \cup new, cloud' = cloud
  PROVE  RowsInv'
<1>1. IsFiniteSet(local')
  BY FS_Union DEF RowsInv
<1> QED BY <1>1, PlainRowsMove, PlainIsNoOrder

LEMMA LocalPlainAdds ==
  ASSUME RowsInv, NEW r, r.kind \in Plain, local' = local \cup {r}, cloud' = cloud
  PROVE  RowsInv'
<1>1. IsFiniteSet({r}) /\ \A q \in {r} : q.kind \in Plain
  BY FS_Singleton
<1> QED BY <1>1, LocalPlainGrows

LEMMA CloudPlainGrows ==
  ASSUME RowsInv, NEW r, r.kind \in Plain, local' = local, cloud' = cloud \cup {r}
  PROVE  RowsInv'
<1>1. IsFiniteSet(local')
  BY DEF RowsInv
<1> QED BY <1>1, PlainRowsMove, PlainIsNoOrder

(* A row of the terminal that the hub takes: of an order it has, the hub   *)
(* has only an earlier, unpaid version.                                    *)
LEMMA ReceiveReplaces ==
  ASSUME TypeOK, RowsInv, NEW r \in local, Receive(r)
  PROVE  /\ r \in cloud => cloud' = cloud
         /\ r \in cloud' /\ cloud' \subseteq cloud \cup {r}
         /\ \A q \in cloud : q \notin cloud' =>
              r.kind \in OrderKinds /\ q.kind = "open" /\ q.of = r.of /\ r \notin cloud
<1>1. cloud' = (IF r.kind \in OrderKinds THEN cloud \ OrderRow(cloud, r.of) ELSE cloud) \cup {r}
  BY DEF Receive
<1>2. \A q \in OrderRow(cloud, r.of) : q \in cloud /\ q.kind \in OrderKinds /\ q.of = r.of
  BY DEF OrderRow
<1>3. CASE r \in cloud
  <2>1. r.kind \in OrderKinds => \A q \in OrderRow(cloud, r.of) : q = r
    BY <1>2, <1>3 DEF RowsInv
  <2> QED BY <1>1, <1>3, <2>1
<1>4. CASE r \notin cloud
  <2>1. ASSUME NEW q \in cloud, q \notin cloud' PROVE r.kind \in OrderKinds /\ q.kind = "open" /\ q.of = r.of
    <3>1. r.kind \in OrderKinds /\ q \in OrderRow(cloud, r.of)
      BY <1>1, <2>1
    <3>2. q \notin local
      BY <1>2, <1>4, <3>1 DEF RowsInv
    <3>3. q.kind \in {"open", "canceled", "sale"}
      BY <1>2, <3>1 DEF OrderKinds
    <3> QED BY <1>2, <3>1, <3>2, <3>3 DEF RowsInv
  <2> QED BY <1>1, <1>4, <2>1
<1> QED BY <1>3, <1>4

LEMMA RowsStep == TypeOK /\ RowsInv /\ [Next]_vars => RowsInv'
<1> SUFFICES ASSUME TypeOK, RowsInv, [Next]_vars PROVE RowsInv'
  OBVIOUS
<1>k. "open" \in OrderKinds /\ "sale" \in OrderKinds /\ "canceled" \in OrderKinds /\ "payment" \notin OrderKinds
  BY DEF OrderKinds
<1>p. {"refund", "expense", "void", "tenders", "header"} \subseteq Plain
  BY DEF Plain
<1>f. \A x : IsFiniteSet({x})
  BY FS_Singleton
<1>1. ASSUME UNCHANGED <<local, cloud>> PROVE RowsInv'
  BY <1>1 DEF RowsInv
<1>2. ASSUME NEW s \in Shifts, EndShift(s) PROVE RowsInv'
  <2>1. IsFiniteSet({Header(s), Tenders(s)})
    <3>1. IsFiniteSet({Header(s)} \cup {Tenders(s)})
      BY <1>f, FS_AddElement
    <3>2. {Header(s)} \cup {Tenders(s)} = {Header(s), Tenders(s)}
      OBVIOUS
    <3> QED BY <3>1, <3>2
  <2>2. local' = local \cup {Header(s), Tenders(s)} /\ cloud' = cloud
    BY <1>2 DEF EndShift, Write
  <2>3. \A r \in {Header(s), Tenders(s)} : r.kind \in Plain
    BY <1>p, RecordFields DEF Header, Tenders
  <2> QED BY <2>1, <2>2, <2>3, LocalPlainGrows
<1>3. ASSUME NEW s \in Shifts, NEW o \in Orders, TakeOrder(s, o) PROVE RowsInv'
  <2> DEFINE new == Record("open", o, s, "till")
  <2>1. local' = local \cup {new} /\ cloud' = cloud /\ \A q \in local : ~(q.kind \in OrderKinds /\ q.of = o)
    BY <1>3 DEF TakeOrder, Write, OrderRow
  <2>2. new.kind = "open" /\ new.of = o /\ new.by = "till"
    BY RecordFields
  <2>3. IsFiniteSet(local')
    BY <2>1, FS_AddElement DEF RowsInv
  <2> HIDE DEF new
  <2> QED BY <1>k, <2>1, <2>2, <2>3 DEF RowsInv
<1>4. ASSUME NEW s \in Shifts, NEW o \in Orders, CancelOrder(s, o) PROVE RowsInv'
  <2> DEFINE old == Record("open", o, s, "till")  new == Record("canceled", o, s, "till")
  <2>1. local' = (local \ {old}) \cup {new} /\ cloud' = cloud /\ old \in local
    BY <1>4 DEF CancelOrder, Write
  <2>2. /\ new.kind = "canceled" /\ new.of = o /\ new.by = "till"
        /\ old.kind = "open" /\ old.of = o
    BY RecordFields
  <2>3. IsFiniteSet(local')
    BY <2>1, FS_AddElement, FS_RemoveElement DEF RowsInv
  <2> HIDE DEF new, old
  <2> QED BY <1>k, <2>1, <2>2, <2>3 DEF RowsInv
<1>5. ASSUME NEW s \in Shifts, NEW o \in Orders, Pay(s, o) PROVE RowsInv'
  <2> DEFINE old == Record("open", o, s, "till")  sold == Record("sale", o, s, "till")
             line == Record("payment", o, s, "till")
  <2>1. local' = (local \ {old}) \cup {sold, line} /\ cloud' = cloud /\ old \in local
    BY <1>5 DEF Pay, Write
  <2>2. /\ sold.kind = "sale" /\ sold.of = o /\ sold.by = "till" /\ sold.in = s
        /\ line.kind = "payment" /\ line.of = o /\ line.by = "till" /\ line.in = s
        /\ old.kind = "open" /\ old.of = o
    BY RecordFields
  <2>3. IsFiniteSet(local')
    <3>1. IsFiniteSet(local \ {old})
      BY FS_RemoveElement DEF RowsInv
    <3>2. IsFiniteSet((local \ {old}) \cup {sold})
      BY <3>1, FS_AddElement
    <3>3. IsFiniteSet(((local \ {old}) \cup {sold}) \cup {line})
      BY <3>2, FS_AddElement
    <3>4. local' = ((local \ {old}) \cup {sold}) \cup {line}
      BY <2>1
    <3> QED BY <3>3, <3>4
  <2> HIDE DEF sold, line, old
  <2>4. \A p, q \in local' : p.kind \in OrderKinds /\ q.kind \in OrderKinds /\ p.of = q.of => p = q
    BY <1>k, <2>1, <2>2 DEF RowsInv
  <2>5. \A p \in local' : p.kind = "payment" => \E q \in local' : q.kind = "sale" /\ q.of = p.of /\ q.in = p.in
    BY <1>k, <2>1, <2>2 DEF RowsInv
  <2>6. \A r \in cloud' : r.kind \in {"sale", "canceled", "payment"} => r \in local'
    BY <1>k, <2>1, <2>2 DEF RowsInv
  <2>7. \A r \in local' \cup cloud' : r.kind \in OrderKinds \cup {"payment"} => r.by = "till"
    BY <1>k, <2>1, <2>2 DEF RowsInv
  <2> QED BY <2>1, <2>3, <2>4, <2>5, <2>6, <2>7 DEF RowsInv
<1>6. ASSUME NEW s \in Shifts, NEW o \in Orders, Refund(s, o) PROVE RowsInv'
  <2>1. local' = local \cup {Record("refund", o, s, "till")} /\ cloud' = cloud
    BY <1>6 DEF Refund, Write
  <2> QED BY <1>p, <2>1, RecordFields, LocalPlainAdds
<1>7. ASSUME NEW s \in Shifts, NEW x \in Expenses, PayExpense(s, x) PROVE RowsInv'
  <2>1. local' = local \cup {Record("expense", x, s, "till")} /\ cloud' = cloud
    BY <1>7 DEF PayExpense, Write
  <2> QED BY <1>p, <2>1, RecordFields, LocalPlainAdds
<1>8. ASSUME NEW x \in Expenses, VoidExpense(x) PROVE RowsInv'
  <2>1. PICK r \in local : local' = local \cup {Record("void", x, r.in, "till")}
    BY <1>8 DEF VoidExpense, Write
  <2>2. cloud' = cloud
    BY <1>8 DEF VoidExpense
  <2> QED BY <1>p, <2>1, <2>2, RecordFields, LocalPlainAdds
<1>9. ASSUME NEW s \in Shifts, NEW o \in Orders, RefundAtHub(s, o) PROVE RowsInv'
  <2>1. cloud' = cloud \cup {Record("refund", o, s, "hub")} /\ local' = local
    BY <1>9 DEF RefundAtHub
  <2> QED BY <1>p, <2>1, RecordFields, CloudPlainGrows
<1>10. ASSUME NEW s \in Shifts, NEW x \in Expenses, PayExpenseAtHub(s, x) PROVE RowsInv'
  <2>1. cloud' = cloud \cup {Record("expense", x, s, "hub")} /\ local' = local
    BY <1>10 DEF PayExpenseAtHub
  <2> QED BY <1>p, <2>1, RecordFields, CloudPlainGrows
<1>11. ASSUME NEW x \in Expenses, VoidAtHub(x) PROVE RowsInv'
  <2>1. PICK r \in cloud : cloud' = cloud \cup {Record("void", x, r.in, "hub")}
    BY <1>11 DEF VoidAtHub
  <2>2. local' = local
    BY <1>11 DEF VoidAtHub
  <2> QED BY <1>p, <2>1, <2>2, RecordFields, CloudPlainGrows
<1>12. ASSUME NEW r \in cloud, PullRow(r) PROVE RowsInv'
  <2> DEFINE same == {q \in local : r.kind = "refund" /\ q.kind = "refund" /\ q.of = r.of}
  <2>1. local' = (local \ same) \cup {r} /\ cloud' = cloud /\ r.by = "hub"
    BY <1>12 DEF PullRow
  <2>2. r.kind \in Plain
    <3>1. r.kind \notin OrderKinds \cup {"payment"}
      BY <2>1 DEF RowsInv
    <3> QED BY <3>1, FieldsTyped DEF TypeOK, Plain
  <2>3. \A q \in same : q.kind = "refund"
    OBVIOUS
  <2>4. IsFiniteSet(local')
    <3>1. IsFiniteSet(local \ same)
      BY FS_Subset DEF RowsInv
    <3> QED BY <2>1, <3>1, FS_AddElement
  <2> HIDE DEF same
  <2>5. \A q : q.kind \in OrderKinds \cup {"payment"} => (q \in local' <=> q \in local)
    BY <1>p, <2>1, <2>2, <2>3, PlainIsNoOrder
  <2>6. \A q \in local' \cup cloud' : q \in local \cup cloud \/ q.kind \in Plain
    BY <2>1, <2>2
  <2> QED BY <2>1, <2>4, <2>5, <2>6, PlainRowsMove
<1>13. ASSUME NEW r \in local, Receive(r) PROVE RowsInv'
  <2>1. /\ r \in cloud => cloud' = cloud
        /\ r \in cloud' /\ cloud' \subseteq cloud \cup {r}
        /\ \A q \in cloud : q \notin cloud' => r.kind \in OrderKinds /\ q.kind = "open" /\ q.of = r.of
    BY <1>13, ReceiveReplaces
  <2>2. local' = local
    BY <1>13 DEF Receive
  <2>3. \A q \in cloud' : r.kind \in OrderKinds /\ q.kind \in OrderKinds /\ q.of = r.of => q = r
    BY <1>13, <2>1 DEF Receive, OrderRow, RowsInv
  <2>4. \A p, q \in cloud' : p.kind \in OrderKinds /\ q.kind \in OrderKinds /\ p.of = q.of => p = q
    BY <2>1, <2>3 DEF RowsInv
  <2>5. \A q \in local' \cup cloud' : q.kind \in OrderKinds \cup {"payment"} => q.by = "till"
    BY <2>1, <2>2 DEF RowsInv
  <2>6. \A q \in cloud' : q.kind \in {"sale", "canceled", "payment"} => q \in local'
    BY <2>1, <2>2 DEF RowsInv
  <2> QED BY <2>2, <2>4, <2>5, <2>6 DEF RowsInv
<1>14. ASSUME NEW s \in Shifts,
              StartShift(s) \/ ReceiveHeader(s) \/ Acknowledge(s) \/ ReconcileAgain(s)
                \/ \E c \in [Methods -> Counts] : Reconcile(s, c)
       PROVE  UNCHANGED <<local, cloud>>
  BY <1>14 DEF StartShift, ReceiveHeader, Acknowledge, ReconcileAgain, Reconcile, shifts
<1>15. UNCHANGED vars => UNCHANGED <<local, cloud>>
  BY DEF vars, shifts
<1> QED BY <1>1, <1>2, <1>3, <1>4, <1>5, <1>6, <1>7, <1>8, <1>9, <1>10, <1>11, <1>12, <1>13, <1>14,
           <1>15 DEF Next

-----------------------------------------------------------------------------
(* Headers and postings.                                                   *)

LEMMA HubStep == TypeOK /\ HubInv /\ [Next]_vars => HubInv'
<1> SUFFICES ASSUME TypeOK, HubInv, [Next]_vars PROVE HubInv'
  OBVIOUS
<1>1. ASSUME UNCHANGED <<till, hub, recon>> PROVE HubInv'
  BY <1>1 DEF HubInv
<1>2. ASSUME NEW s \in Shifts, StartShift(s) PROVE HubInv'
  BY <1>2 DEF StartShift, TypeOK, HubInv
<1>3. ASSUME NEW s \in Shifts, EndShift(s) PROVE HubInv'
  BY <1>3 DEF EndShift, TypeOK, HubInv
<1>4. ASSUME NEW s \in Shifts, ReceiveHeader(s) PROVE HubInv'
  BY <1>4 DEF ReceiveHeader, TypeOK, HubInv
<1>5. ASSUME NEW s \in Shifts, NEW c \in [Methods -> Counts], Reconcile(s, c) PROVE HubInv'
  BY <1>5, NotYetIsNoCount DEF Reconcile, TypeOK, HubInv
<1>6. ASSUME NEW s \in Shifts, NEW o \in Orders,
             TakeOrder(s, o) \/ CancelOrder(s, o) \/ Pay(s, o) \/ Refund(s, o) \/ RefundAtHub(s, o)
      PROVE  UNCHANGED <<till, hub, recon>>
  BY <1>6 DEF TakeOrder, CancelOrder, Pay, Refund, RefundAtHub
<1>7. ASSUME NEW x \in Expenses,
             \/ VoidExpense(x) \/ VoidAtHub(x)
             \/ \E s \in Shifts : PayExpense(s, x) \/ PayExpenseAtHub(s, x)
      PROVE  UNCHANGED <<till, hub, recon>>
  BY <1>7 DEF VoidExpense, VoidAtHub, PayExpense, PayExpenseAtHub
<1>8. ASSUME (\E r \in cloud : PullRow(r)) \/ (\E r \in local : Receive(r))
      PROVE  UNCHANGED <<till, hub, recon>>
  BY <1>8 DEF PullRow, Receive
<1>9. ASSUME NEW s \in Shifts, Acknowledge(s) \/ ReconcileAgain(s) PROVE UNCHANGED <<till, hub, recon>>
  BY <1>9 DEF Acknowledge, ReconcileAgain, shifts
<1>10. UNCHANGED vars => UNCHANGED <<till, hub, recon>>
  BY DEF vars, shifts
<1> QED BY <1>1, <1>2, <1>3, <1>4, <1>5, <1>6, <1>7, <1>8, <1>9, <1>10 DEF Next

(* The book does not move without a confirmation, and what is confirmed    *)
(* does not move at all.                                                   *)
LEMMA BookStays ==
  ASSUME PostedInv, UNCHANGED <<manifest, recon, treasury>>
  PROVE  PostedInv'
<1>1. \A k : Moved(Rows, k)' = Moved(Rows, k)
  BY DEF treasury, Rows, Moved, Deltas, BagToSet
<1>2. BookInv'
  BY <1>1 DEF PostedInv, BookInv, treasury, CreditedOnce, Rows, BagToSet
<1>3. ASSUME NEW s \in Shifts
      PROVE  /\ Deposits(s)' = Deposits(s)
             /\ \A c : Booked(s, Posted(s, c))' = Booked(s, Posted(s, c))
  BY DEF treasury, Deposits, Rows, BagToSet, Booked, Posted, Expected, Sum
<1> QED BY <1>2, <1>3 DEF PostedInv

LEMMA PostedStep == TypeOK /\ RowsInv /\ HubInv /\ PostedInv /\ [Next]_vars => PostedInv'
<1> SUFFICES ASSUME TypeOK, RowsInv, HubInv, PostedInv, [Next]_vars PROVE PostedInv'
  OBVIOUS
<1>1. ASSUME NEW s \in Shifts, EndShift(s) PROVE PostedInv'
  <2>1. /\ till[s] = "active" /\ manifest' = [manifest EXCEPT ![s] = Evidence(local, s, {s})]
        /\ UNCHANGED <<recon, treasury>>
    BY <1>1 DEF EndShift
  <2>2. recon[s] = NotYet
    BY <2>1 DEF HubInv
  <2>3. IsFiniteSet(Evidence(local, s, {s}))
    <3>1. Evidence(local, s, {s}) \subseteq local
      BY InEvidence
    <3> QED BY <3>1, FS_Subset DEF RowsInv
  <2>4. BookInv'
    <3>1. \A k : Moved(Rows, k)' = Moved(Rows, k)
      BY <2>1 DEF treasury, Rows, Moved, Deltas, BagToSet
    <3> QED BY <2>1, <3>1 DEF PostedInv, BookInv, treasury, CreditedOnce, Rows, BagToSet
  <2>5. ASSUME NEW t \in Shifts
        PROVE  /\ IsFiniteSet(manifest'[t])
               /\ Deposits(t)' = IF recon'[t] = NotYet THEN {} ELSE Booked(t, Posted(t, recon[t]))'
    <3>1. Deposits(t)' = Deposits(t)
      BY <2>1 DEF treasury, Deposits, Rows, BagToSet
    <3>2. CASE t = s
      <4>1. manifest'[s] = Evidence(local, s, {s})
        BY <2>1 DEF TypeOK
      <4> QED BY <2>1, <2>2, <2>3, <3>1, <3>2, <4>1 DEF PostedInv
    <3>3. CASE t # s
      <4>1. manifest'[t] = manifest[t] /\ recon' = recon
        BY <2>1, <3>3 DEF TypeOK
      <4>2. Booked(t, Posted(t, recon[t]))' = Booked(t, Posted(t, recon[t]))
        BY <4>1 DEF Booked, Posted
      <4> QED BY <3>1, <4>1, <4>2 DEF PostedInv
    <3> QED BY <3>2, <3>3
  <2> QED BY <2>4, <2>5 DEF PostedInv
<1>2. ASSUME NEW s \in Shifts, NEW c \in [Methods -> Counts], Reconcile(s, c) PROVE PostedInv'
  <2>1. /\ recon[s] = NotYet /\ PostSettlement(s, Posted(s, c))
        /\ recon' = [recon EXCEPT ![s] = c] /\ manifest' = manifest
    BY <1>2 DEF Reconcile
  <2>2. BookInv /\ IsFiniteSet(manifest[s]) /\ Deposits(s) = {}
    BY <2>1 DEF PostedInv
  <2>3. Posted(s, c) \in [Methods -> Int]
    BY <2>2, PostedTyped
  <2>4. /\ BookInv'
        /\ Deposits(s)' = Booked(s, Posted(s, c))
        /\ \A t : t # s => Deposits(t)' = Deposits(t)
    BY <2>1, <2>2, <2>3, Settles
  <2>5. \A t : Booked(t, Posted(t, recon[t]))' = Booked(t, Posted(t, recon'[t]))
    BY <2>1 DEF Booked, Posted
  <2>6. recon'[s] = c /\ c # NotYet /\ \A t \in Shifts : t # s => recon'[t] = recon[t]
    BY <2>1, NotYetIsNoCount DEF TypeOK
  <2>7. ASSUME NEW t \in Shifts
        PROVE  /\ IsFiniteSet(manifest'[t])
               /\ Deposits(t)' = IF recon'[t] = NotYet THEN {} ELSE Booked(t, Posted(t, recon[t]))'
    <3>1. IsFiniteSet(manifest'[t])
      BY <2>1 DEF PostedInv
    <3>2. CASE t = s
      BY <2>4, <2>5, <2>6, <3>1, <3>2
    <3>3. CASE t # s
      BY <2>4, <2>5, <2>6, <3>1, <3>3 DEF PostedInv
    <3> QED BY <3>2, <3>3
  <2> QED BY <2>4, <2>7 DEF PostedInv
<1>3. ASSUME NEW s \in Shifts, ReconcileAgain(s) PROVE PostedInv'
  <2> DEFINE due == Posted(s, recon[s])
  <2>1. recon[s] # NotYet /\ PostSettlement(s, due) /\ manifest' = manifest /\ recon' = recon
    BY <1>3 DEF ReconcileAgain, shifts
  <2>2. BookInv /\ IsFiniteSet(manifest[s]) /\ Deposits(s) = Booked(s, due) /\ recon[s] \in [Methods -> Counts]
    BY <2>1 DEF PostedInv, TypeOK
  <2>3. due \in [Methods -> Int]
    BY <2>2, PostedTyped
  <2> HIDE DEF due
  <2>4. /\ BookInv'
        /\ Deposits(s)' = Booked(s, due)
        /\ \A t : t # s => Deposits(t)' = Deposits(t)
    BY <2>1, <2>2, <2>3, Settles
  <2>5. \A t, d : Booked(t, Posted(t, d))' = Booked(t, Posted(t, d))
    BY <2>1 DEF Booked, Posted
  <2>6. \A t \in Shifts : Deposits(t)' = Deposits(t)
    BY <2>2, <2>4
  <2> QED BY <2>1, <2>4, <2>5, <2>6 DEF PostedInv
<1>4. ASSUME NEW s \in Shifts, StartShift(s) \/ ReceiveHeader(s) \/ Acknowledge(s)
      PROVE  UNCHANGED <<manifest, recon, treasury>>
  BY <1>4 DEF StartShift, ReceiveHeader, Acknowledge
<1>5. ASSUME NEW s \in Shifts, NEW o \in Orders,
             TakeOrder(s, o) \/ CancelOrder(s, o) \/ Pay(s, o) \/ Refund(s, o) \/ RefundAtHub(s, o)
      PROVE  UNCHANGED <<manifest, recon, treasury>>
  BY <1>5 DEF TakeOrder, CancelOrder, Pay, Refund, RefundAtHub
<1>6. ASSUME NEW x \in Expenses,
             \/ VoidExpense(x) \/ VoidAtHub(x)
             \/ \E s \in Shifts : PayExpense(s, x) \/ PayExpenseAtHub(s, x)
      PROVE  UNCHANGED <<manifest, recon, treasury>>
  BY <1>6 DEF VoidExpense, VoidAtHub, PayExpense, PayExpenseAtHub
<1>7. ASSUME (\E r \in cloud : PullRow(r)) \/ (\E r \in local : Receive(r))
      PROVE  UNCHANGED <<manifest, recon, treasury>>
  BY <1>7 DEF PullRow, Receive
<1>8. UNCHANGED vars => UNCHANGED <<manifest, recon, treasury>>
  BY DEF vars, shifts, treasury
<1> QED BY <1>1, <1>2, <1>3, <1>4, <1>5, <1>6, <1>7, <1>8, BookStays DEF Next

-----------------------------------------------------------------------------
(* The evidence of a confirmed shift.                                      *)

LEMMA InKept ==
  ASSUME NEW rows, NEW s, NEW r
  PROVE  r \in Kept(s, rows) <=>
           /\ r \in rows
           /\ \/ r.kind = "sale" /\ r.in = s
              \/ r.kind = "payment" /\ \E q \in rows : q.kind = "sale" /\ q.in = s /\ q.of = r.of
              \/ r.kind \in {"refund", "expense"} /\ r.in = s
              \/ r.kind = "void" /\ r.in = s /\ (r.by = "till" \/ r \in manifest[s])
BY InEvidence DEF Kept

(* A row that is no part of it.                                            *)
LEMMA KeptApart ==
  ASSUME NEW s, NEW r, r.kind \in {"refund", "expense"}, r.in # s
  PROVE  Kept(s, cloud \cup {r}) = Kept(s, cloud)
<1>1. ASSUME NEW q PROVE q \in Kept(s, cloud \cup {r}) <=> q \in Kept(s, cloud)
  BY InKept
<1> QED BY <1>1 DEF Kept

LEMMA KeptFromHub ==
  ASSUME NEW s, NEW r, r.kind = "void", r.by = "hub", r \in manifest[s] => r \in cloud
  PROVE  Kept(s, cloud \cup {r}) = Kept(s, cloud)
<1>1. ASSUME NEW q PROVE q \in Kept(s, cloud \cup {r}) <=> q \in Kept(s, cloud)
  BY InKept
<1> QED BY <1>1 DEF Kept

(* What the hub still takes of the terminal's rows is no part of it        *)
(* either: a row of a settled shift is taken only when it is there.        *)
LEMMA KeptReceived ==
  ASSUME TypeOK, RowsInv, HubInv, NEW r \in local, Receive(r),
         NEW s \in Shifts, recon[s] # NotYet
  PROVE  Kept(s, cloud') = Kept(s, cloud)
<1>1. /\ r \in cloud => cloud' = cloud
      /\ r \in cloud' /\ cloud' \subseteq cloud \cup {r}
      /\ \A q \in cloud : q \notin cloud' => q.kind = "open"
  BY ReceiveReplaces
<1>2. CASE r \in cloud
  BY <1>1, <1>2
<1>3. CASE r \notin cloud
  <2>1. s \notin Owners(r)
    BY <1>3 DEF Receive, Admitted, Settled
  <2>2. hub[s] = "completed" /\ Window(s, hub[s]) = {s}
    BY DEF HubInv, Window
  <2>3. r.kind \in {"refund", "expense", "void", "tenders"} => r.in # s
    BY <2>1 DEF Owners
  <2>4. r.kind = "sale" => r.in # s
    BY <2>1, <2>2 DEF Owners
  <2>5. ASSUME r.kind = "payment", NEW q \in cloud, q.kind = "sale", q.of = r.of PROVE q.in # s
    <3>1. q \in Sales(OrderRow(cloud, r.of), Shifts)
      BY <2>5, FieldsTyped DEF Sales, OrderRow, OrderKinds, TypeOK
    <3>2. r.in # s
      BY <2>1, <2>2, <2>5, <3>1 DEF Owners
    <3>3. PICK p \in local : p.kind = "sale" /\ p.of = r.of /\ p.in = r.in
      BY <2>5 DEF RowsInv
    <3>4. p = q
      BY <2>5, <3>3 DEF RowsInv, OrderKinds
    <3> QED BY <3>2, <3>3, <3>4
  <2>6. ASSUME NEW q PROVE q \in Kept(s, cloud') <=> q \in Kept(s, cloud)
    <3>1. \A p : p.kind = "sale" /\ p.in = s => (p \in cloud' <=> p \in cloud)
      BY <1>1, <2>4
    <3>2. CASE q.kind = "payment"
      <4>1. q \in cloud => q \in cloud'
        BY <1>1, <3>2
      <4>2. q \in cloud' /\ q \notin cloud => q = r
        BY <1>1
      <4> QED BY <2>5, <3>1, <3>2, <4>1, <4>2, InKept
    <3>3. CASE q.kind \in {"sale", "refund", "expense", "void"} /\ q.in = s
      <4>1. q \in cloud' <=> q \in cloud
        BY <1>1, <2>3, <2>4, <3>3
      <4> QED BY <3>3, <4>1, InKept
    <3>4. CASE q.kind # "payment" /\ ~(q.kind \in {"sale", "refund", "expense", "void"} /\ q.in = s)
      BY <3>4, InKept
    <3> QED BY <3>2, <3>3, <3>4
  <2> QED BY <2>6 DEF Kept
<1> QED BY <1>2, <1>3

LEMMA KeptStep == TypeOK /\ RowsInv /\ HubInv /\ KeptInv /\ [Next]_vars => KeptInv'
<1> SUFFICES ASSUME TypeOK, RowsInv, HubInv, KeptInv, [Next]_vars PROVE KeptInv'
  OBVIOUS
<1>1. ASSUME UNCHANGED <<cloud, manifest, recon>> PROVE KeptInv'
  BY <1>1 DEF KeptInv, Kept, Evidence, Sales
<1>2. ASSUME UNCHANGED <<manifest, recon>>,
             \A s \in Shifts : recon[s] # NotYet => Kept(s, cloud') = Kept(s, cloud)
      PROVE  KeptInv'
  <2>1. \A s : Kept(s, cloud)' = Kept(s, cloud')
    BY <1>2 DEF Kept, Evidence, Sales
  <2> QED BY <1>2, <2>1 DEF KeptInv
<1>3. ASSUME NEW s \in Shifts, EndShift(s) PROVE KeptInv'
  <2>1. /\ till[s] = "active" /\ manifest' = [manifest EXCEPT ![s] = Evidence(local, s, {s})]
        /\ UNCHANGED <<recon, cloud>>
    BY <1>3 DEF EndShift
  <2>2. recon[s] = NotYet
    BY <2>1 DEF HubInv
  <2>3. ASSUME NEW t \in Shifts, recon'[t] # NotYet PROVE Kept(t, cloud)' = manifest'[t]
    <3>1. t # s /\ recon[t] # NotYet
      BY <2>1, <2>2, <2>3
    <3>2. manifest'[t] = manifest[t]
      BY <2>1, <3>1 DEF TypeOK
    <3>3. Kept(t, cloud)' = Kept(t, cloud)
      BY <2>1, <3>2 DEF Kept, Evidence, Sales
    <3> QED BY <3>1, <3>2, <3>3 DEF KeptInv
  <2> QED BY <2>3 DEF KeptInv
<1>4. ASSUME NEW s \in Shifts, NEW c \in [Methods -> Counts], Reconcile(s, c) PROVE KeptInv'
  <2>1. /\ Evidence(cloud, s, {s}) = manifest[s] /\ UNCHANGED <<cloud, manifest>>
        /\ recon' = [recon EXCEPT ![s] = c]
    BY <1>4 DEF Reconcile, BundleOK
  <2>2. \A t : Kept(t, cloud)' = Kept(t, cloud)
    BY <2>1 DEF Kept, Evidence, Sales
  <2>3. Kept(s, cloud) = manifest[s]
    BY <2>1 DEF Kept
  <2> QED BY <2>1, <2>2, <2>3 DEF KeptInv, TypeOK
<1>5. ASSUME NEW t \in Shifts, NEW o \in Orders, RefundAtHub(t, o) PROVE KeptInv'
  <2> DEFINE r == Record("refund", o, t, "hub")
  <2>1. cloud' = cloud \cup {r} /\ hub[t] = "active" /\ UNCHANGED <<manifest, recon>>
    BY <1>5 DEF RefundAtHub, OnlyLive
  <2>2. \A s \in Shifts : recon[s] # NotYet => s # t
    BY <2>1 DEF HubInv
  <2>3. r.kind = "refund" /\ r.in = t
    BY RecordFields
  <2> HIDE DEF r
  <2> QED BY <1>2, <2>1, <2>2, <2>3, KeptApart
<1>6. ASSUME NEW t \in Shifts, NEW x \in Expenses, PayExpenseAtHub(t, x) PROVE KeptInv'
  <2> DEFINE r == Record("expense", x, t, "hub")
  <2>1. cloud' = cloud \cup {r} /\ hub[t] = "active" /\ UNCHANGED <<manifest, recon>>
    BY <1>6 DEF PayExpenseAtHub
  <2>2. \A s \in Shifts : recon[s] # NotYet => s # t
    BY <2>1 DEF HubInv
  <2>3. r.kind = "expense" /\ r.in = t
    BY RecordFields
  <2> HIDE DEF r
  <2> QED BY <1>2, <2>1, <2>2, <2>3, KeptApart
<1>7. ASSUME NEW x \in Expenses, VoidAtHub(x) PROVE KeptInv'
  <2>1. PICK e \in cloud : cloud' = cloud \cup {Record("void", x, e.in, "hub")}
    BY <1>7 DEF VoidAtHub
  <2> DEFINE r == Record("void", x, e.in, "hub")
  <2>2. r.kind = "void" /\ r.by = "hub"
    BY RecordFields
  <2> HIDE DEF r
  <2>3. ASSUME NEW s \in Shifts, recon[s] # NotYet PROVE Kept(s, cloud \cup {r}) = Kept(s, cloud)
    <3>1. r \in manifest[s] => r \in cloud
      BY <2>3, InKept DEF KeptInv
    <3> QED BY <2>2, <3>1, KeptFromHub
  <2>4. UNCHANGED <<manifest, recon>>
    BY <1>7 DEF VoidAtHub
  <2> QED BY <1>2, <2>1, <2>3, <2>4 DEF r
<1>8. ASSUME NEW r \in local, Receive(r) PROVE KeptInv'
  <2>1. UNCHANGED <<manifest, recon>>
    BY <1>8 DEF Receive
  <2> QED BY <1>2, <1>8, <2>1, KeptReceived
<1>9. ASSUME NEW s \in Shifts,
             StartShift(s) \/ ReceiveHeader(s) \/ Acknowledge(s) \/ ReconcileAgain(s)
      PROVE  UNCHANGED <<cloud, manifest, recon>>
  BY <1>9 DEF StartShift, ReceiveHeader, Acknowledge, ReconcileAgain, shifts
<1>10. ASSUME NEW s \in Shifts, NEW o \in Orders,
              TakeOrder(s, o) \/ CancelOrder(s, o) \/ Pay(s, o) \/ Refund(s, o)
       PROVE  UNCHANGED <<cloud, manifest, recon>>
  BY <1>10 DEF TakeOrder, CancelOrder, Pay, Refund
<1>11. ASSUME NEW x \in Expenses, VoidExpense(x) \/ \E s \in Shifts : PayExpense(s, x)
       PROVE  UNCHANGED <<cloud, manifest, recon>>
  BY <1>11 DEF VoidExpense, PayExpense
<1>12. ASSUME \E r \in cloud : PullRow(r) PROVE UNCHANGED <<cloud, manifest, recon>>
  BY <1>12 DEF PullRow
<1>13. UNCHANGED vars => UNCHANGED <<cloud, manifest, recon>>
  BY DEF vars, shifts
<1> QED BY <1>1, <1>3, <1>4, <1>5, <1>6, <1>7, <1>8, <1>9, <1>10, <1>11, <1>12, <1>13 DEF Next

-----------------------------------------------------------------------------
LEMMA SettleInitial == Init => SettleInv
<1> SUFFICES ASSUME Init PROVE SettleInv
  OBVIOUS
<1>1. TypeOK
  BY DEF Init, TypeOK
<1>2. RowsInv /\ HubInv /\ KeptInv
  BY FS_EmptySet DEF Init, RowsInv, HubInv, KeptInv
<1>3. book = EmptyBag /\ DOMAIN book = {} /\ balance = [k \in Kinds |-> 0]
  BY DEF Init, TreasuryInit, EmptyBag, SetToBag
<1>4. \A k : Moved(Rows, k) = 0
  <2>1. \A k : {r \in Rows : r.account = k} = {}
    BY <1>3 DEF Rows, BagToSet
  <2> QED BY <2>1, MovesNothing DEF Moved
<1>5. BookInv
  BY <1>3, <1>4, FS_EmptySet DEF BookInv, CreditedOnce, Rows, BagToSet, EmptyBag, SetToBag
<1>6. PostedInv
  BY <1>3, <1>5, FS_EmptySet DEF Init, PostedInv, Deposits, Rows, BagToSet
<1> QED BY <1>1, <1>2, <1>6 DEF SettleInv

LEMMA SettleInvariant == Spec => []SettleInv
<1>1. SettleInv /\ [Next]_vars => SettleInv'
  BY TypesStep, RowsStep, HubStep, PostedStep, KeptStep DEF SettleInv
<1> QED BY <1>1, SettleInitial, PTL DEF Spec

(* The money a manager confirmed rests for ever on the rows the terminal   *)
(* froze, and the book holds what was confirmed: for any orders, expenses  *)
(* and shifts, rows delivered in any order and any number of times, and    *)
(* refunds, expenses and reversals of the hub's own.                       *)
THEOREM ConfirmedRests == Spec => []SettledIsEvidence
BY SettleInvariant, SettledMeans, PTL

(* However often a confirmation is repeated, the book holds each row once  *)
(* and each balance is the sum of its rows.                                *)
THEOREM BalancesAreTheBook == Spec => []CreditedOnce
BY SettleInvariant, SettledMeans, PTL

(* Every header, row and manifest keeps its type, and shifts follow each   *)
(* other at a terminal.                                                    *)
THEOREM ShiftsTyped == Spec => []TypeOK
<1>1. SettleInv => TypeOK
  BY DEF SettleInv
<1> QED BY <1>1, SettleInvariant, PTL

-----------------------------------------------------------------------------
(* The position in the feed.                                               *)

Steps == {"idle", "contract", "acquire", "checkpoint", "fetch", "retry", "renew", "publish"}

ReplayTyped ==
  /\ published \in Nat /\ published <= Top /\ cursor \in Nat /\ generation \in Nat /\ completed \in Nat
  /\ goal \in Nat /\ goal <= published
  /\ run \in [Runs -> [step : Steps, generation : Nat, from : Nat, at : Nat, pages : Nat,
                       drained : BOOLEAN, deferred : SUBSET Feed]]

Pulling(p) == run[p].step \in {"fetch", "retry", "renew", "publish"}

(* What a pull knows of a replay that is still the newest: all it walked   *)
(* over is applied or deferred, nothing is deferred once it is about to    *)
(* publish, and a drained feed went as far as the replay must.             *)
PullIsTrue(p) ==
  Pulling(p) =>
    /\ run[p].generation <= generation
    /\ Current(p) =>
         /\ (1..run[p].at) \ run[p].deferred \subseteq replayed
         /\ run[p].step \in {"renew", "publish"} => 1..run[p].at \subseteq replayed
         /\ run[p].drained => goal <= run[p].at

ReplayInv ==
  /\ ReplayTyped
  /\ CursorIsApplied
  /\ \A p \in Runs : PullIsTrue(p)

LEMMA ReplayInitial == ReplayInit => ReplayInv
<1> SUFFICES ASSUME ReplayInit PROVE ReplayInv
  OBVIOUS
<1>1. ReplayTyped
  BY PullReplayAssumption DEF ReplayInit, ReplayTyped, IdleRun, Steps
<1>2. CursorIsApplied
  BY DEF ReplayInit, CursorIsApplied
<1>3. ASSUME NEW p \in Runs PROVE PullIsTrue(p)
  BY DEF ReplayInit, PullIsTrue, Pulling, IdleRun
<1> QED BY <1>1, <1>2, <1>3 DEF ReplayInv

(* A step of a pull that neither rewinds nor publishes.                    *)
LEMMA OnePullMoves ==
  ASSUME ReplayInv, UNCHANGED <<published, cursor, generation, completed, goal>>,
         replayed \subseteq replayed', NEW p \in Runs,
         NEW r \in [step : Steps, generation : Nat, from : Nat, at : Nat, pages : Nat,
                    drained : BOOLEAN, deferred : SUBSET Feed],
         run' = [run EXCEPT ![p] = r], PullIsTrue(p)'
  PROVE  ReplayInv'
<1>1. ReplayTyped'
  BY DEF ReplayInv, ReplayTyped
<1>2. CursorIsApplied'
  BY DEF ReplayInv, CursorIsApplied, Pending
<1>3. ASSUME NEW q \in Runs PROVE PullIsTrue(q)'
  <2>1. CASE q = p
    BY <2>1
  <2>2. CASE q # p
    <3>1. run'[q] = run[q] /\ PullIsTrue(q)
      BY <2>2 DEF ReplayInv, ReplayTyped
    <3> QED BY <3>1 DEF PullIsTrue, Pulling, Current
  <2> QED BY <2>1, <2>2
<1> QED BY <1>1, <1>2, <1>3 DEF ReplayInv

(* A replay asked for leaves every pull behind.                            *)
LEMMA Rewinding ==
  ASSUME ReplayInv, Rewind, UNCHANGED published, ReplayTyped',
         \A p \in Runs : Pulling(p)' => Pulling(p) /\ run'[p].generation = run[p].generation
  PROVE  ReplayInv'
<1>1. generation' = generation + 1 /\ completed' = 0 /\ cursor' = 0 /\ generation \in Nat
  BY DEF Rewind, ReplayInv, ReplayTyped
<1>2. CursorIsApplied'
  BY <1>1 DEF CursorIsApplied, Pending
<1>3. ASSUME NEW p \in Runs PROVE PullIsTrue(p)'
  <2>1. Pulling(p)' => run'[p].generation \in Nat /\ run'[p].generation <= generation
    BY DEF ReplayInv, ReplayTyped, PullIsTrue
  <2> QED BY <1>1, <2>1 DEF PullIsTrue, Current
<1> QED BY <1>2, <1>3 DEF ReplayInv

LEMMA ReplayStep == ReplayInv /\ [ReplayNext]_replayVars => ReplayInv'
<1> SUFFICES ASSUME ReplayInv, [ReplayNext]_replayVars PROVE ReplayInv'
  OBVIOUS
<1> DEFINE Run == [step : Steps, generation : Nat, from : Nat, at : Nat, pages : Nat,
                   drained : BOOLEAN, deferred : SUBSET Feed]
<1>0. ReplayTyped /\ run \in [Runs -> Run] /\ \A p \in Runs : PullIsTrue(p)
  BY DEF ReplayInv, ReplayTyped
<1>a. ASSUME UNCHANGED <<position, run>>, published' \in Nat, published' <= Top, published <= published' PROVE ReplayInv'
  BY <1>a DEF position, ReplayInv, ReplayTyped, CursorIsApplied, Pending, PullIsTrue, Pulling, Current
<1>b. ASSUME UNCHANGED <<published, position>>, NEW p \in Runs, NEW step \in Steps,
             \/ step \in {"idle", "contract", "acquire", "checkpoint"}
             \/ run[p].step = "fetch" /\ step = "retry"
             \/ run[p].step = "renew" /\ step = "publish",
             Goes(p, step)
      PROVE  ReplayInv'
  <2>1. [run[p] EXCEPT !.step = step] \in Run /\ run' = [run EXCEPT ![p] = [run[p] EXCEPT !.step = step]]
    BY <1>0, <1>b DEF Goes
  <2>2. PullIsTrue(p)'
    BY <1>0, <1>b, <2>1 DEF PullIsTrue, Pulling, Current, position
  <2> QED BY <1>b, <2>1, <2>2, OnePullMoves DEF position
<1>c. ASSUME UNCHANGED <<published, cursor, generation, completed, goal>>, replayed \subseteq replayed',
             NEW p \in Runs, run' = [run EXCEPT ![p] = IdleRun]
      PROVE  ReplayInv'
  <2>1. IdleRun \in Run
    BY DEF IdleRun, Steps
  <2>2. PullIsTrue(p)'
    BY <1>0, <1>c DEF PullIsTrue, Pulling, IdleRun
  <2> QED BY <1>c, <2>1, <2>2, OnePullMoves
<1>1. ASSUME HubPublishes PROVE ReplayInv'
  BY <1>0, <1>1, <1>a, PullReplayAssumption DEF HubPublishes, ReplayTyped, Feed
<1>2. ASSUME RequestFullPull PROVE ReplayInv'
  <2>1. ReplayTyped'
    BY <1>0, <1>2 DEF RequestFullPull, Rewind, ReplayTyped
  <2> QED BY <1>0, <1>2, <2>1, Rewinding DEF RequestFullPull, Pulling
<1>3. ASSUME Expire PROVE ReplayInv'
  BY <1>0, <1>3, <1>a DEF Expire, ReplayTyped, position
<1>4. ASSUME NEW p \in Runs, EnsureScope(p) PROVE ReplayInv'
  <2>1. CASE scoped
    BY <1>4, <1>b, <2>1 DEF EnsureScope, Steps
  <2>2. CASE ~scoped
    <3>1. ReplayTyped' /\ \A q \in Runs : Pulling(q)' => Pulling(q) /\ run'[q].generation = run[q].generation
      BY <1>0, <1>4, <2>2 DEF EnsureScope, Rewind, Goes, Pulling, ReplayTyped, Steps
    <3> QED BY <1>4, <2>2, <3>1, Rewinding DEF EnsureScope
  <2> QED BY <2>1, <2>2
<1>5. ASSUME NEW p \in Runs, EnsureContract(p) PROVE ReplayInv'
  <2>1. CASE contracted
    BY <1>5, <1>b, <2>1 DEF EnsureContract, Steps
  <2>2. CASE ~contracted
    <3>1. ReplayTyped' /\ \A q \in Runs : Pulling(q)' => Pulling(q) /\ run'[q].generation = run[q].generation
      BY <1>0, <1>5, <2>2 DEF EnsureContract, Rewind, Goes, Pulling, ReplayTyped, Steps
    <3> QED BY <1>5, <2>2, <3>1, Rewinding DEF EnsureContract
  <2> QED BY <2>1, <2>2
<1>6. ASSUME NEW p \in Runs, Acquire(p) PROVE ReplayInv'
  <2>1. CASE Goes(p, "checkpoint")
    BY <1>6, <1>b, <2>1 DEF Acquire, Steps
  <2>2. CASE run' = [run EXCEPT ![p] = IdleRun]
    BY <1>6, <1>c, <2>2 DEF Acquire, position
  <2> QED BY <1>6, <2>1, <2>2 DEF Acquire
<1>7. ASSUME NEW p \in Runs, Checkpoint(p) PROVE ReplayInv'
  <2> DEFINE r == [step |-> "fetch", generation |-> generation, from |-> cursor, at |-> cursor,
                   pages |-> 0, drained |-> FALSE, deferred |-> {}]
  <2>1. r \in Run
    BY <1>0 DEF ReplayTyped, Steps
  <2>2. run' = [run EXCEPT ![p] = r] /\ UNCHANGED <<published, position>>
    BY <1>7 DEF Checkpoint
  <2>3. PullIsTrue(p)'
    BY <1>0, <2>2 DEF PullIsTrue, Pulling, Current, position, ReplayInv, CursorIsApplied, ReplayTyped
  <2> HIDE DEF r
  <2> QED BY <2>1, <2>2, <2>3, OnePullMoves DEF position
<1>8. ASSUME NEW p \in Runs, NEW fails \in BOOLEAN, Page(p, fails),
             UNCHANGED <<published, cursor, generation, completed, goal>>
      PROVE  ReplayInv'
  <2> DEFINE next == run[p].at + 1
             applied == IF next <= published /\ Lands(next) /\ ~fails THEN {next} ELSE {}
             put == IF next <= published THEN {next} \ applied ELSE {}
             more == next < published
             step == IF more /\ run[p].pages + 1 < MaxPages THEN "fetch" ELSE "retry"
             r == [step |-> step, generation |-> run[p].generation, from |-> run[p].from,
                   at |-> IF next <= published THEN next ELSE run[p].at, pages |-> run[p].pages + 1,
                   drained |-> ~more, deferred |-> run[p].deferred \cup put]
  <2>1. run[p].step = "fetch" /\ replayed' = replayed \cup applied /\ run' = [run EXCEPT ![p] = r]
    BY <1>8 DEF Page, HasMore, Land
  <2>2. next \in Nat \ {0} /\ put \in SUBSET Feed /\ published \in Nat /\ goal \in Nat /\ goal <= published
    BY <1>0, PullReplayAssumption DEF ReplayTyped, Feed
  <2>3. r \in Run
    BY <1>0, <2>2 DEF Steps
  <2>4. run'[p] = r
    BY <1>0, <2>1
  <2>5. PullIsTrue(p)'
    <3>1. run[p].generation <= generation
      BY <1>0, <2>1 DEF PullIsTrue, Pulling
    <3>2. ASSUME Current(p)'
          PROVE  /\ (1..r.at) \ r.deferred \subseteq replayed'
                 /\ r.drained => goal <= r.at
      <4> HIDE DEF step
      <4>1. (1..run[p].at) \ run[p].deferred \subseteq replayed
        BY <1>0, <1>8, <2>1, <2>4, <3>2 DEF PullIsTrue, Pulling, Current
      <4>2. CASE next <= published
        <5>1. 1..next = (1..run[p].at) \cup {next}
          BY <1>0
        <5>2. applied \cup put = {next}
          BY <4>2
        <5>3. r.drained => goal <= next
          <6>1. ~more => goal <= next
            BY <1>0, <2>2, <4>2
          <6> HIDE DEF more, applied, put
          <6>2. r.drained => ~more
            BY Zenon
          <6> QED BY <6>1, <6>2
        <5> HIDE DEF applied, put
        <5> QED BY <2>1, <4>1, <4>2, <5>1, <5>2, <5>3
      <4>3. CASE ~(next <= published)
        BY <1>0, <2>1, <2>2, <4>1, <4>3
      <4> QED BY <4>2, <4>3
    <3>3. r.step \notin {"renew", "publish"} /\ r.generation = run[p].generation
      OBVIOUS
    <3>4. generation' = generation /\ goal' = goal
      BY <1>8
    <3> HIDE DEF r
    <3> QED BY <1>0, <2>4, <3>1, <3>2, <3>3, <3>4 DEF PullIsTrue, Pulling
  <2> HIDE DEF r, applied
  <2> QED BY <1>8, <2>1, <2>3, <2>4, <2>5, OnePullMoves
<1>9. ASSUME NEW p \in Runs, Fetch(p) \/ FetchAndFail(p) PROVE ReplayInv'
  BY <1>8, <1>9 DEF Fetch, FetchAndFail
<1>10. ASSUME NEW p \in Runs, GiveUp(p) \/ Die(p) PROVE ReplayInv'
  BY <1>10, <1>c DEF GiveUp, Die, Release, position
<1>11. ASSUME NEW p \in Runs, LoseLease(p) PROVE ReplayInv'
  BY <1>11, <1>b, <1>c DEF LoseLease, Release, position, Steps
<1>12. ASSUME NEW p \in Runs, Retry(p) PROVE ReplayInv'
  <2> DEFINE landed == {r \in run[p].deferred : Lands(r)}
  <2>1. replayed' = replayed \cup landed /\ UNCHANGED <<published, cursor, generation, completed, goal>>
    BY <1>12 DEF Retry, Land
  <2>2. CASE landed = run[p].deferred
    <3>1. [run[p] EXCEPT !.step = "renew"] \in Run /\ run' = [run EXCEPT ![p] = [run[p] EXCEPT !.step = "renew"]]
      BY <1>0, <1>12, <2>2 DEF Retry, Goes, Steps
    <3>2. PullIsTrue(p)'
      BY <1>0, <1>12, <2>1, <2>2, <3>1 DEF PullIsTrue, Pulling, Current, Retry
    <3> QED BY <2>1, <3>1, <3>2, OnePullMoves
  <2>3. CASE landed # run[p].deferred
    BY <1>12, <1>c, <2>1, <2>3 DEF Retry, Release
  <2> QED BY <2>2, <2>3
<1>13. ASSUME NEW p \in Runs, RenewToPublish(p) PROVE ReplayInv'
  BY <1>13, <1>b DEF RenewToPublish, Steps
<1>14. ASSUME NEW p \in Runs, Publish(p) PROVE ReplayInv'
  <2>1. /\ run' = [run EXCEPT ![p] = IdleRun] /\ IdleRun \in Run /\ run'[p] = IdleRun
        /\ UNCHANGED <<published, generation, replayed, goal>>
    BY <1>0, <1>14 DEF Publish, Release, IdleRun, Steps
  <2>2. ReplayTyped'
    BY <1>0, <1>14, <2>1 DEF Publish, ReplayTyped
  <2>3. CursorIsApplied'
    <3>1. CASE Current(p)
      <4>1. /\ 1..run[p].at \subseteq replayed
            /\ run[p].drained => goal <= run[p].at
            /\ goal \in Nat /\ run[p].at \in Nat
        BY <1>0, <1>14, <3>1 DEF PullIsTrue, Pulling, Publish, ReplayTyped
      <4>2. run[p].drained => 1..goal \subseteq replayed
        BY <4>1
      <4> QED BY <1>14, <2>1, <3>1, <4>1, <4>2 DEF Publish, CursorIsApplied, Pending, ReplayInv
    <3>2. CASE ~Current(p)
      BY <1>14, <2>1, <3>2 DEF Publish, CursorIsApplied, Pending, ReplayInv
    <3> QED BY <3>1, <3>2
  <2>4. ASSUME NEW q \in Runs PROVE PullIsTrue(q)'
    BY <1>0, <2>1 DEF PullIsTrue, Pulling, Current, IdleRun
  <2> QED BY <2>2, <2>3, <2>4 DEF ReplayInv
<1>15. ASSUME UNCHANGED replayVars PROVE ReplayInv'
  BY <1>0, <1>15, <1>a DEF replayVars, ReplayTyped, position
<1> HIDE DEF Run
<1> QED BY <1>1, <1>2, <1>3, <1>4, <1>5, <1>6, <1>7, <1>9, <1>10, <1>11, <1>12, <1>13, <1>14, <1>15
    DEF ReplayNext, Works

(* Every row of the feed up to the published cursor was applied since a    *)
(* replay was last asked for, and a replay is complete only when all that  *)
(* it must bring was applied (sync/service.py), with any number of pulls   *)
(* under way at once, whose leases expire and who die at any step.         *)
THEOREM CursorTrue == ReplaySpec => []CursorIsApplied
<1>1. ReplayInv => CursorIsApplied
  BY DEF ReplayInv
<1> QED BY <1>1, ReplayInitial, ReplayStep, PTL DEF ReplaySpec

-----------------------------------------------------------------------------
(* The licence.                                                            *)

Standings == {"ACTIVE", "SUSPENDED", "EXPIRED", "REVOKED"}
Decisive == [status : {"UNREGISTERED", "ACTIVE", "SUSPENDED", "EXPIRED"}, age : Nat]
Cached == [copy : Decisive, age : 0..(Ttl - 1)]

(* A row that is saved names the registered key and is no older.           *)
RowsTyped ==
  /\ row.status \in {"UNREGISTERED", "ACTIVE", "SUSPENDED", "EXPIRED"} /\ row.age \in Nat
  /\ DOMAIN row = {"status", "age", "key"}
  /\ row.status = "UNREGISTERED" => row.key = NoKey
  /\ unsaved # None =>
       /\ DOMAIN unsaved = {"status", "age", "key"}
       /\ unsaved.status \in {"ACTIVE", "SUSPENDED", "EXPIRED"}
       /\ unsaved.age \in Nat /\ unsaved.age <= row.age
       /\ row.key # NoKey => unsaved.key = row.key

BeatsTyped ==
  /\ standing \in Standings
  /\ beat \in [Beats -> [step : {"idle"}] \cup [step : {"sent"}, waits : Nat]
                     \cup [step : {"answered"}, waits : Nat, status : Standings, age : Nat]]

(* How long a copy that still allows requests may be out of date: as long  *)
(* as it has been cached; a state built of such a copy, a lifetime longer. *)
OutOfDate ==
  /\ overdue \in Nat
  /\ ~IsBlocked(row) => overdue = 0
  /\ rowCache # None => /\ rowCache \in Cached
                        /\ ~IsBlocked(rowCache.copy) => overdue <= rowCache.age
  /\ stateCache # None => /\ stateCache \in Cached
                          /\ ~IsBlocked(stateCache.copy) => overdue <= stateCache.age + (Ttl - 1)

Reading(w) ==
  web[w].step = "read" =>
    /\ web[w].copy \in Decisive
    /\ ~IsBlocked(web[w].copy) => overdue <= IF web[w].cached THEN Ttl - 1 ELSE 0

LicenceInv ==
  /\ RowsTyped /\ BeatsTyped /\ OutOfDate
  /\ DOMAIN web = Requests /\ \A w \in Requests : Reading(w)
  /\ ServedInTime

LEMMA LicenceInitial == LicenseInit => LicenceInv
<1> SUFFICES ASSUME LicenseInit PROVE LicenceInv
  OBVIOUS
<1>1. RowsTyped
  BY LicensingAssumption DEF LicenseInit, RowsTyped, Unregistered, NeverBeat
<1>2. BeatsTyped
  BY DEF LicenseInit, BeatsTyped, Standings
<1>3. OutOfDate
  BY DEF LicenseInit, OutOfDate
<1>4. DOMAIN web = Requests /\ \A w \in Requests : Reading(w)
  BY DEF LicenseInit, Reading
<1>5. ServedInTime
  BY LicensingAssumption DEF LicenseInit, ServedInTime
<1> QED BY <1>1, <1>2, <1>3, <1>4, <1>5 DEF LicenceInv

(* Whatever fills a cache with the committed row fills it with one that is *)
(* not out of date.                                                        *)
LEMMA LoadedIsCurrent ==
  ASSUME LicenceInv
  PROVE  /\ Loaded \in Decisive
         /\ ~IsBlocked(Loaded) => overdue <= IF rowCache # None THEN Ttl - 1 ELSE 0
<1>1. CASE rowCache = None
  <2>1. State(row) \in Decisive /\ (IsBlocked(State(row)) <=> IsBlocked(row))
    BY DEF LicenceInv, RowsTyped, State, Decisive, IsBlocked
  <2> QED BY <1>1, <2>1 DEF LicenceInv, OutOfDate, Loaded
<1>2. CASE rowCache # None
  BY <1>2, LicensingAssumption DEF LicenceInv, OutOfDate, Loaded, Cached
<1> QED BY <1>1, <1>2

LEMMA Loading ==
  ASSUME LicenceInv, Load, UNCHANGED <<row, stateCache, overdue>>
  PROVE  OutOfDate'
<1>1. CASE rowCache = None
  <2>1. rowCache' = [copy |-> Loaded, age |-> 0]
    BY <1>1 DEF Load, Loaded
  <2>2. rowCache' \in Cached
    BY <2>1, LoadedIsCurrent, LicensingAssumption DEF Cached
  <2> QED BY <1>1, <2>1, <2>2, LoadedIsCurrent DEF LicenceInv, OutOfDate, IsBlocked
<1>2. CASE rowCache # None
  BY <1>2 DEF Load, LicenceInv, OutOfDate, IsBlocked
<1> QED BY <1>1, <1>2

LEMMA Saving ==
  ASSUME LicenceInv, NEW r, Save(r), UNCHANGED <<row, overdue>>,
         DOMAIN r = {"status", "age", "key"}, r.status \in {"ACTIVE", "SUSPENDED", "EXPIRED"},
         r.age \in Nat, r.age <= row.age, row.key # NoKey => r.key = row.key
  PROVE  RowsTyped' /\ OutOfDate'
BY DEF Save, LicenceInv, RowsTyped, OutOfDate, IsBlocked

LEMMA Unsaved ==
  ASSUME LicenceInv, UNCHANGED <<row, unsaved>>
  PROVE  RowsTyped'
BY DEF LicenceInv, RowsTyped

LEMMA Reads ==
  ASSUME LicenceInv, UNCHANGED <<web, overdue, late>>
  PROVE  /\ DOMAIN web' = Requests /\ \A w \in Requests : Reading(w)'
         /\ ServedInTime'
BY DEF LicenceInv, Reading, IsBlocked, ServedInTime

LEMMA OlderIsBlockedSooner ==
  ASSUME NEW r, r.age \in Nat, DOMAIN r = {"status", "age", "key"} \/ r \in Decisive
  PROVE  /\ Older(r).status = r.status /\ Older(r).age \in Nat /\ DOMAIN Older(r) = DOMAIN r
         /\ DOMAIN r = {"status", "age", "key"} => Older(r).key = r.key
         /\ r \in Decisive => Older(r) \in Decisive
         /\ IsBlocked(r) => IsBlocked(Older(r))
BY LicensingAssumption DEF Older, Upto, NeverBeat, IsBlocked, Decisive

LEMMA Aging ==
  ASSUME NEW c, c # None => c \in Cached, NEW n \in Nat, NEW m \in Nat, m <= n + 1,
         NEW extra \in Nat,
         c # None /\ ~IsBlocked(c.copy) => n <= c.age + extra
  PROVE  Ages(c) # None => /\ Ages(c) \in Cached
                           /\ ~IsBlocked(Ages(c).copy) => m <= Ages(c).age + extra
<1> SUFFICES ASSUME Ages(c) # None
             PROVE  Ages(c) \in Cached /\ (~IsBlocked(Ages(c).copy) => m <= Ages(c).age + extra)
  OBVIOUS
<1>1. c # None /\ ~(c.age + 1 >= Ttl) /\ Ages(c) = [copy |-> Older(c.copy), age |-> c.age + 1]
  BY DEF Ages
<1>2. c \in Cached /\ c.copy \in Decisive /\ c.copy.age \in Nat
  BY <1>1 DEF Cached, Decisive
<1>3. Older(c.copy) \in Decisive /\ (IsBlocked(c.copy) => IsBlocked(Older(c.copy)))
  BY <1>2, OlderIsBlockedSooner
<1>4. Ages(c) \in Cached
  BY <1>1, <1>2, <1>3, LicensingAssumption DEF Cached
<1> QED BY <1>1, <1>2, <1>3, <1>4 DEF Cached

LEMMA LicenceStep == LicenceInv /\ [LicenseNext]_licenseVars => LicenceInv'
<1> SUFFICES ASSUME LicenceInv, [LicenseNext]_licenseVars PROVE LicenceInv'
  OBVIOUS
<1>0. RowsTyped /\ BeatsTyped /\ OutOfDate /\ ServedInTime
  BY DEF LicenceInv
<1>1. ASSUME Commit PROVE LicenceInv'
  <2>1. RowsTyped'
    BY <1>0, <1>1 DEF Commit, RowsTyped
  <2>2. overdue' <= overdue /\ overdue' \in Nat /\ (~IsBlocked(row') => overdue' = 0)
    BY <1>0, <1>1 DEF Commit, OutOfDate
  <2>3. OutOfDate'
    BY <1>0, <1>1, <2>2, LicensingAssumption DEF Commit, OutOfDate, IsBlocked, Cached
  <2>4. \A w \in Requests : Reading(w)'
    BY <1>0, <1>1, <2>2, LicensingAssumption DEF Commit, Reading, IsBlocked, LicenceInv, OutOfDate
  <2> QED BY <1>0, <1>1, <2>1, <2>3, <2>4 DEF Commit, LicenceInv, BeatsTyped, ServedInTime
<1>2. ASSUME ChangeStanding \/ RotateFernet PROVE LicenceInv'
  <2>1. BeatsTyped' /\ OutOfDate'
    BY <1>0, <1>2 DEF ChangeStanding, RotateFernet, BeatsTyped, OutOfDate, IsBlocked, Standings
  <2> QED BY <1>2, <2>1, Unsaved, Reads DEF ChangeStanding, RotateFernet, LicenceInv
<1>3. ASSUME Tick PROVE LicenceInv'
  <2>1. /\ row' = Older(row) /\ row.age \in Nat /\ DOMAIN row = {"status", "age", "key"}
        /\ unsaved = None /\ unsaved' = None
        /\ rowCache' = Ages(rowCache) /\ stateCache' = Ages(stateCache)
        /\ web' = web /\ late' = late /\ \A w \in Requests : web[w].step = "idle"
    BY <1>0, <1>3 DEF Tick, NoTransaction, RowsTyped
  <2>2. RowsTyped'
    BY <1>0, <2>1, OlderIsBlockedSooner DEF RowsTyped
  <2>3. /\ overdue' \in Nat /\ overdue' <= overdue + 1
        /\ ~IsBlocked(row') => overdue' = 0
    BY <1>0, <1>3, LicensingAssumption DEF Tick, OutOfDate, Upto
  <2>4. OutOfDate'
    <3>1. 0 \in Nat /\ Ttl - 1 \in Nat
      BY LicensingAssumption
    <3>2. rowCache' # None => /\ rowCache' \in Cached
                              /\ ~IsBlocked(rowCache'.copy) => overdue' <= rowCache'.age + 0
      <4>1. rowCache # None /\ ~IsBlocked(rowCache.copy) => overdue <= rowCache.age + 0
        BY <1>0 DEF OutOfDate, Cached
      <4>2. overdue \in Nat /\ (rowCache # None => rowCache \in Cached)
        BY <1>0 DEF OutOfDate
      <4> QED BY <2>1, <2>3, <3>1, <4>1, <4>2, Aging
    <3>3. stateCache' # None =>
            /\ stateCache' \in Cached
            /\ ~IsBlocked(stateCache'.copy) => overdue' <= stateCache'.age + (Ttl - 1)
      <4>1. stateCache # None /\ ~IsBlocked(stateCache.copy) => overdue <= stateCache.age + (Ttl - 1)
        BY <1>0 DEF OutOfDate
      <4>2. overdue \in Nat /\ (stateCache # None => stateCache \in Cached)
        BY <1>0 DEF OutOfDate
      <4> DEFINE spare == Ttl - 1
      <4>3. spare \in Nat /\ (stateCache # None /\ ~IsBlocked(stateCache.copy) => overdue <= stateCache.age + spare)
        BY <3>1, <4>1
      <4> HIDE DEF spare
      <4>4. Ages(stateCache) # None =>
              /\ Ages(stateCache) \in Cached
              /\ ~IsBlocked(Ages(stateCache).copy) => overdue' <= Ages(stateCache).age + spare
        <5>1. overdue' \in Nat /\ overdue' <= overdue + 1
          BY <2>3
        <5> QED BY <4>2, <4>3, <5>1, Aging DEF IsBlocked
      <4> QED BY <2>1, <4>4 DEF spare
    <3>4. (~IsBlocked(row) => overdue = 0)'
      BY <2>3 DEF IsBlocked
    <3>5. rowCache' # None /\ ~IsBlocked(rowCache'.copy) => overdue' <= rowCache'.age
      <4> SUFFICES ASSUME rowCache' # None, ~IsBlocked(rowCache'.copy) PROVE overdue' <= rowCache'.age
        OBVIOUS
      <4>1. rowCache'.age \in Nat /\ overdue' <= rowCache'.age + 0
        BY <3>2, LicensingAssumption DEF Cached, IsBlocked
      <4> QED BY <2>3, <4>1
    <3>6. (rowCache # None => /\ rowCache \in Cached
                              /\ ~IsBlocked(rowCache.copy) => overdue <= rowCache.age)'
      BY <3>2, <3>5 DEF IsBlocked, Cached
    <3>7. (stateCache # None =>
             /\ stateCache \in Cached
             /\ ~IsBlocked(stateCache.copy) => overdue <= stateCache.age + (Ttl - 1))'
      BY <3>3 DEF IsBlocked, Cached
    <3> QED BY <2>3, <3>4, <3>6, <3>7 DEF OutOfDate, IsBlocked
  <2>5. BeatsTyped'
    <3>1. ASSUME NEW h \in Beats
          PROVE  Passing(beat[h]) \in [step : {"idle"}] \cup [step : {"sent"}, waits : Nat]
                   \cup [step : {"answered"}, waits : Nat, status : Standings, age : Nat]
      BY <1>0 DEF BeatsTyped, Passing
    <3> QED BY <1>0, <1>3, <3>1 DEF Tick, BeatsTyped
  <2>6. \A w \in Requests : Reading(w)'
    BY <2>1 DEF Reading
  <2> QED BY <1>0, <2>1, <2>2, <2>4, <2>5, <2>6 DEF LicenceInv, ServedInTime
<1>4. ASSUME NEW h \in Beats, Send(h) \/ Answer(h) \/ LoseBeat(h) PROVE LicenceInv'
  <2>1. BeatsTyped'
    BY <1>0, <1>4 DEF Send, Answer, LoseBeat, BeatsTyped
  <2>2. OutOfDate'
    BY <1>0, <1>4, Loading DEF Send, Answer, LoseBeat, OutOfDate, IsBlocked
  <2> QED BY <1>4, <2>1, <2>2, Unsaved, Reads DEF Send, Answer, LoseBeat, LicenceInv
<1>5. ASSUME NEW h \in Beats, SendUnreadable(h) PROVE LicenceInv'
  <2>1. CASE Save([row EXCEPT !.status = "SUSPENDED"])
    BY <1>0, <1>5, <2>1, Saving, Reads DEF SendUnreadable, LicenceInv, BeatsTyped, RowsTyped
  <2>2. CASE Load /\ UNCHANGED <<unsaved, stateCache>>
    BY <1>0, <1>5, <2>2, Loading, Unsaved, Reads DEF SendUnreadable, LicenceInv, BeatsTyped
  <2> QED BY <1>5, <2>1, <2>2 DEF SendUnreadable
<1>6. ASSUME NEW h \in Beats, ApplyHeartbeat(h) PROVE LicenceInv'
  <2> DEFINE a == beat[h]
  <2>1. a \in [step : {"answered"}, waits : Nat, status : Standings, age : Nat]
    BY <1>0, <1>6 DEF ApplyHeartbeat, BeatsTyped
  <2>2. BeatsTyped'
    BY <1>0, <1>6 DEF ApplyHeartbeat, BeatsTyped
  <2>3. RowsTyped' /\ OutOfDate'
    <3>1. CASE Save([row EXCEPT !.status = "SUSPENDED"])
      BY <1>0, <1>6, <3>1, Saving DEF ApplyHeartbeat, RowsTyped
    <3>2. CASE UNCHANGED <<unsaved, rowCache, stateCache>>
      BY <1>0, <1>6, <3>2 DEF ApplyHeartbeat, RowsTyped, OutOfDate, IsBlocked
    <3>3. CASE a.status # "REVOKED" /\ ~IsStale(a) /\ Save([row EXCEPT !.status = a.status, !.age = a.age])
      <4>1. a.age <= row.age /\ a.age \in Nat /\ a.status \in {"ACTIVE", "SUSPENDED", "EXPIRED"}
        BY <1>0, <2>1, <3>3 DEF IsStale, RowsTyped, Standings
      <4> HIDE DEF a
      <4> DEFINE r == [row EXCEPT !.status = a.status, !.age = a.age]
      <4>2. /\ DOMAIN r = {"status", "age", "key"} /\ r.status = a.status /\ r.age = a.age
            /\ r.key = row.key
        BY <1>0 DEF RowsTyped
      <4>3. Save(r) /\ UNCHANGED <<row, overdue>>
        BY <1>6, <3>3 DEF ApplyHeartbeat
      <4> HIDE DEF r
      <4> QED BY <4>1, <4>2, <4>3, Saving
    <3> QED BY <1>6, <3>1, <3>2, <3>3 DEF ApplyHeartbeat
  <2> QED BY <1>6, <2>2, <2>3, Reads DEF ApplyHeartbeat, LicenceInv
<1>7. ASSUME NEW s \in Setups, AskForKey(s) PROVE LicenceInv'
  BY <1>0, <1>7, Loading, Unsaved, Reads DEF AskForKey, LicenceInv, BeatsTyped
<1>8. ASSUME NEW s \in Setups, Register(s) PROVE LicenceInv'
  <2>1. CASE MayRegister
    <3> DEFINE r == [status |-> "ACTIVE", age |-> 0, key |-> s]
    <3>1. /\ DOMAIN r = {"status", "age", "key"} /\ r.status = "ACTIVE" /\ r.age = 0
          /\ row.key = NoKey /\ 0 <= row.age
      BY <1>0, <2>1 DEF MayRegister, RowsTyped
    <3>2. Save(r) /\ UNCHANGED <<row, overdue>>
      BY <1>8, <2>1 DEF Register
    <3> HIDE DEF r
    <3>3. RowsTyped' /\ OutOfDate'
      BY <3>1, <3>2, Saving
    <3> QED BY <1>0, <1>8, <3>3, Reads DEF Register, LicenceInv, BeatsTyped
  <2>2. CASE ~MayRegister
    BY <1>0, <1>8, <2>2, Unsaved, Reads DEF Register, LicenceInv, BeatsTyped, OutOfDate, IsBlocked
  <2> QED BY <2>1, <2>2
<1>9. ASSUME NEW w \in Requests, Serving(w) PROVE LicenceInv'
  <2>0. /\ RowsTyped' /\ BeatsTyped' /\ UNCHANGED <<row, overdue>>
        /\ DOMAIN web = Requests /\ Reading(w) /\ Ttl \in Nat \ {0}
    BY <1>0, <1>9, Unsaved, LicensingAssumption
    DEF Serving, Hit, Miss, Fill, Decide, BeatsTyped, LicenceInv
  <2>1. ASSUME NEW state, Decide(w, state), ~IsBlocked(state) => overdue <= 2 * (Ttl - 1)
        PROVE  /\ DOMAIN web' = Requests /\ (\A v \in Requests : Reading(v)')
               /\ ServedInTime'
    <3>1. overdue' = overdue /\ web' = [web EXCEPT ![w] = [step |-> "idle"]]
      BY <2>0, <2>1 DEF Decide
    <3>2. DOMAIN web' = Requests /\ \A v \in Requests : Reading(v)'
      BY <2>0, <3>1 DEF Reading, IsBlocked, LicenceInv
    <3>3. ServedInTime'
      <4>1. late' = 0 \/ (late' = overdue /\ ~IsBlocked(state))
        BY <2>1 DEF Decide
      <4> QED BY <2>0, <2>1, <4>1 DEF ServedInTime
    <3> QED BY <3>2, <3>3
  <2>2. CASE Hit(w)
    <3>1. ~IsBlocked(stateCache.copy) => overdue <= 2 * (Ttl - 1)
      BY <1>0, <2>0, <2>2 DEF Hit, OutOfDate, Cached
    <3>2. OutOfDate'
      BY <1>0, <2>2 DEF Hit, OutOfDate, IsBlocked
    <3> QED BY <2>0, <2>1, <2>2, <3>1, <3>2 DEF Hit, LicenceInv
  <2>3. CASE Miss(w)
    <3>1. OutOfDate' /\ ServedInTime'
      BY <1>0, <2>3 DEF Miss, OutOfDate, IsBlocked, ServedInTime
    <3>2. DOMAIN web' = Requests /\ \A v \in Requests : Reading(v)'
      BY <2>0, <2>3, LoadedIsCurrent DEF Miss, Reading, IsBlocked, LicenceInv
    <3> QED BY <2>0, <3>1, <3>2 DEF LicenceInv
  <2>4. CASE Fill(w)
    <3>1. /\ web[w].copy \in Decisive
          /\ ~IsBlocked(web[w].copy) => overdue <= IF web[w].cached THEN Ttl - 1 ELSE 0
      BY <2>0, <2>4 DEF Fill, Reading
    <3>2. OutOfDate'
      <4>1. /\ stateCache' = [copy |-> web[w].copy, age |-> 0]
            /\ rowCache' = IF web[w].cached THEN rowCache ELSE [copy |-> web[w].copy, age |-> 0]
        BY <2>4 DEF Fill
      <4>2. [copy |-> web[w].copy, age |-> 0] \in Cached
        BY <2>0, <3>1 DEF Cached
      <4>3. rowCache' # None => /\ rowCache' \in Cached
                                /\ ~IsBlocked(rowCache'.copy) => overdue <= rowCache'.age
        BY <1>0, <3>1, <4>1, <4>2 DEF OutOfDate
      <4>4. stateCache' \in Cached /\ (~IsBlocked(stateCache'.copy) => overdue <= stateCache'.age + (Ttl - 1))
        BY <1>0, <2>0, <3>1, <4>1, <4>2 DEF OutOfDate
      <4>5. (rowCache # None => /\ rowCache \in Cached
                                /\ ~IsBlocked(rowCache.copy) => overdue <= rowCache.age)'
        BY <2>0, <4>3 DEF IsBlocked, Cached
      <4>6. (stateCache # None =>
               /\ stateCache \in Cached
               /\ ~IsBlocked(stateCache.copy) => overdue <= stateCache.age + (Ttl - 1))'
        BY <2>0, <4>4 DEF IsBlocked, Cached
      <4>7. overdue' \in Nat /\ (~IsBlocked(row) => overdue = 0)'
        BY <1>0, <2>0 DEF OutOfDate, IsBlocked
      <4> QED BY <4>5, <4>6, <4>7 DEF OutOfDate, IsBlocked
    <3>3. ~IsBlocked(web[w].copy) => overdue <= 2 * (Ttl - 1)
      BY <1>0, <2>0, <3>1 DEF OutOfDate
    <3> QED BY <2>0, <2>1, <2>4, <3>2, <3>3 DEF Fill, LicenceInv
  <2> QED BY <1>9, <2>2, <2>3, <2>4 DEF Serving
<1>10. ASSUME UNCHANGED licenseVars PROVE LicenceInv'
  BY <1>0, <1>10, Unsaved, Reads DEF licenseVars, LicenceInv, BeatsTyped, OutOfDate, IsBlocked
<1> QED BY <1>1, <1>2, <1>3, <1>4, <1>5, <1>6, <1>7, <1>8, <1>9, <1>10
    DEF LicenseNext, Beating, Registering

(* However commits, deletions of the caches and requests fall, a request   *)
(* is served at most two cache lifetimes after the row stopped allowing    *)
(* it; the applied answer never goes back by the control centre's clock,   *)
(* and a registered key is never replaced (licensing/services.py).         *)
THEOREM LicenceKept == LicenseSpec => LicenceHolds
<1> DEFINE Held == /\ ServedInTime'
                   /\ row.key # NoKey => row'.key = row.key
                   /\ row'.age <= row.age \/ row' = Older(row)
<1>1. LicenceInv /\ LicenceInv' /\ [LicenseNext]_licenseVars => [Held]_<<row, late>>
  <2> SUFFICES ASSUME LicenceInv, LicenceInv', [LicenseNext]_licenseVars, <<row, late>>' # <<row, late>>
               PROVE  Held
    OBVIOUS
  <2>1. CASE Commit
    BY <2>1 DEF Commit, LicenceInv, RowsTyped
  <2>2. CASE Tick
    BY <2>2, LicensingAssumption, OlderIsBlockedSooner DEF Tick, LicenceInv, RowsTyped
  <2>3. CASE UNCHANGED row
    BY <2>3 DEF LicenceInv, RowsTyped
  <2> QED
    BY <2>1, <2>2, <2>3 DEF LicenseNext, licenseVars, Beating, Registering, Serving, Send, SendUnreadable,
       Answer, LoseBeat, ApplyHeartbeat, AskForKey, Register, Hit, Miss, Fill, ChangeStanding, RotateFernet
<1> QED BY <1>1, LicenceInitial, LicenceStep, PTL DEF LicenseSpec, LicenceHolds
=============================================================================
