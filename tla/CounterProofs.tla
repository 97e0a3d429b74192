--------------------------- MODULE CounterProofs ---------------------------
(***************************************************************************)
(* What FiscalReceipts promises for any sales, processes and bounds, and   *)
(* what OrderMoney promises for any checkouts, courier's rounds and        *)
(* refunds, and Discounts for any codes and orders.                        *)
(***************************************************************************)
EXTENDS FiscalReceipts, OrderMoney, Discounts, SumProofs

(* Where a real proof is, in a row or in an answer on its way to one, the  *)
(* authority holds the sale.                                               *)
RowProved(s) == receipt[s].sign = "real" => reported[s] > 0
AnswerProved(w) ==
  (job[w].step = "finish" /\ job[w].ok /\ job[w].provider = "real")
    => reported[job[w].sale] > 0
Signed(s) == receipt[s].status = "confirmed" => receipt[s].sign # "none"

Proved ==
  /\ TypeOK
  /\ \A s \in Sales : RowProved(s) /\ Signed(s)
  /\ \A w \in Workers : AnswerProved(w)

-----------------------------------------------------------------------------
(* Types: every transaction leaves a receipt row, a call and a sweep's     *)
(* list as they can be read back.                                          *)
LEMMA InitTyped == Init => TypeOK
  BY FiscalAssumption DEF Init, TypeOK, NoReceipt, Receipt, Idle, Job, Workers, Modes, Providers

LEMMA BeginTyped ==
  ASSUME TypeOK, NEW w \in Workers, NEW s \in Sales, Begin(w, s)
  PROVE  job' \in [Workers -> Job]
  BY DEF TypeOK, Begin, Job, Idle, Providers, Modes

(* The three ways a transaction rewrites a row keep it a row.              *)
LEMMA SentTyped ==
  ASSUME NEW r \in Receipt, NEW j, j.mode \in Modes, j.provider \in Providers
  PROVE  Sent(r, j) \in Receipt
<1> DEFINE n == r.attempts + 1
           p == [r EXCEPT !.status = "sent", !.attempts = n]
           q == [p EXCEPT !.stale = FALSE, !.mode = j.mode]
<1>1. p \in Receipt
  <2>1. n \in Nat
    BY DEF Receipt
  <2> HIDE DEF n
  <2> QED  BY <2>1 DEF Receipt
<1>2. q \in Receipt
  <2> HIDE DEF p
  <2> QED  BY <1>1 DEF Receipt
<1>3. [q EXCEPT !.provider = j.provider] \in Receipt
  <2> HIDE DEF q
  <2> QED  BY <1>2 DEF Receipt
<1> QED  BY <1>3 DEF Sent

LEMMA SentUnsigned ==
  ASSUME NEW r \in Receipt, NEW j
  PROVE  Sent(r, j).sign = r.sign /\ Sent(r, j).status = "sent"
  BY DEF Sent, Receipt

LEMMA OutcomeTyped ==
  ASSUME NEW r \in Receipt, NEW j, j.provider \in Providers
  PROVE  [Outcome(r, j) EXCEPT !.stale = FALSE] \in Receipt
<1>1. CASE j.ok
  BY <1>1 DEF Outcome, Receipt
<1>2. CASE ~ j.ok
  BY <1>2 DEF Outcome, Receipt
<1> QED  BY <1>1, <1>2

LEMMA ReapedTyped ==
  ASSUME NEW r \in Receipt
  PROVE  Reaped(r) \in Receipt
<1>1. CASE r.sign = "none"
  BY <1>1 DEF Reaped, Receipt
<1>2. CASE r.sign # "none"
  BY <1>2 DEF Reaped, Receipt
<1> QED  BY <1>1, <1>2

LEMMA SaveTyped ==
  ASSUME TypeOK, NEW s \in Sales, NEW row \in Receipt, Save(s, row)
  PROVE  receipt' \in [Sales -> Receipt] /\ older' \in SUBSET (Sales \X Sales)
BY DEF TypeOK, Save

(* A call that is at work is one of a sale.                                *)
LEMMA JobFields ==
  ASSUME TypeOK, NEW w \in Workers
  PROVE  /\ job[w] = Idle \/ job[w].sale \in Sales
         /\ job[w].step \in {"config", "attempt", "call"} =>
              job[w] \in [step : {job[w].step}, sale : Sales, mode : Modes, provider : Providers]
         /\ job[w].step = "finish" =>
              job[w] \in [step : {"finish"}, sale : Sales, provider : Providers, ok : BOOLEAN]
BY DEF TypeOK, Job, Idle

LEMMA NextTyped == TypeOK /\ [Next]_vars => TypeOK'
<1> SUFFICES ASSUME TypeOK, [Next]_vars PROVE TypeOK'
  OBVIOUS
<1> USE FiscalAssumption
<1>1. ASSUME NEW w \in Callers, NEW s \in Sales, Call(w, s) PROVE TypeOK'
  <2>1. job' \in [Workers -> Job]
    BY <1>1, BeginTyped DEF Call, Workers
  <2>2. calls' \in 0..MaxCalls
    BY <1>1 DEF Call, TypeOK
  <2> QED  BY <1>1, <2>1, <2>2 DEF Call, Begin, world, TypeOK
<1>2. ASSUME NEW w \in Sweepers, Retry(w) PROVE TypeOK'
  <2>1. queue[w] \in Seq(Sales) /\ queue[w] # <<>>
    BY <1>2 DEF Retry, TypeOK
  <2>2. Head(queue[w]) \in Sales /\ Tail(queue[w]) \in Seq(Sales)
    BY <2>1
  <2>3. job' \in [Workers -> Job]
    BY <1>2, <2>2, BeginTyped DEF Retry, Workers
  <2>4. queue' \in [Sweepers -> Seq(Sales)]
    BY <1>2, <2>2 DEF Retry, TypeOK
  <2> QED  BY <1>2, <2>3, <2>4 DEF Retry, Begin, world, TypeOK
<1>3. ASSUME NEW w \in Workers, ReadTenant(w) PROVE TypeOK'
  <2>1. job[w] \in [step : {"config"}, sale : Sales, mode : Modes, provider : Providers]
    BY <1>3 DEF ReadTenant, At, TypeOK, Job, Idle
  <2>2. [job[w] EXCEPT !.step = "attempt", !.provider = ProviderIn(mode)] \in Job
    BY <2>1 DEF Job, ProviderIn, Providers
  <2> QED  BY <1>3, <2>2 DEF ReadTenant, world, counts, TypeOK
<1>4. ASSUME NEW w \in Workers, Attempt(w) PROVE TypeOK'
  <2>1. job[w] \in [step : {"attempt"}, sale : Sales, mode : Modes, provider : Providers]
    BY <1>4 DEF Attempt, At, TypeOK, Job, Idle
  <2>2. Sent(receipt[job[w].sale], job[w]) \in Receipt
    BY <2>1, SentTyped DEF TypeOK
  <2>3. [job[w] EXCEPT !.step = "call"] \in Job /\ Idle \in Job
    BY <2>1 DEF Job
  <2>4. receipt' \in [Sales -> Receipt] /\ older' \in SUBSET (Sales \X Sales)
    BY <1>4, <2>1, <2>2, SaveTyped DEF Attempt, Send, TypeOK
  <2>5. job' \in [Workers -> Job]
    BY <1>4, <2>3 DEF Attempt, Send, Ends, TypeOK
  <2>6. together' \in [Sales -> Nat]
    <3>1. together' \in {together, [together EXCEPT ![job[w].sale] = @ + 1]}
      BY <1>4 DEF Attempt, Send
    <3> QED BY <2>1, <3>1 DEF TypeOK
  <2> QED  BY <1>4, <2>4, <2>5, <2>6 DEF Attempt, world, counts, TypeOK
<1>5. ASSUME NEW w \in Workers, Undo(w) PROVE TypeOK'
  <2>1. queue' \in [Sweepers -> Seq(Sales)]
    BY <1>5 DEF Undo, TypeOK
  <2> QED BY <1>5, <2>1 DEF Undo, Ends, world, counts, TypeOK, Job
<1>6. ASSUME NEW w \in Workers, Accept(w) PROVE TypeOK'
  <2>1. job[w] \in [step : {"call"}, sale : Sales, mode : Modes, provider : Providers]
    BY <1>6 DEF Accept, At, TypeOK, Job, Idle
  <2>2. job' \in [Workers -> Job]
    BY <1>6, <2>1 DEF Accept, Answer, TypeOK, Job
  <2>3. reported' \in [Sales -> Nat]
    BY <1>6, <2>1 DEF Accept, TypeOK
  <2> QED  BY <1>6, <2>2, <2>3 DEF Accept, world, counts, TypeOK
<1>7. ASSUME NEW w \in Workers, RefuseSale(w) PROVE TypeOK'
  <2>1. job[w] \in [step : {"call"}, sale : Sales, mode : Modes, provider : Providers]
    BY <1>7 DEF RefuseSale, At, TypeOK, Job, Idle
  <2>2. job' \in [Workers -> Job]
    BY <1>7, <2>1 DEF RefuseSale, Answer, TypeOK, Job
  <2> QED  BY <1>7, <2>2 DEF RefuseSale, world, counts, TypeOK
<1>8. ASSUME NEW w \in Workers, LoseAnswer(w) PROVE TypeOK'
  <2>1. job[w] \in [step : {"call"}, sale : Sales, mode : Modes, provider : Providers]
    BY <1>8 DEF LoseAnswer, At, TypeOK, Job, Idle
  <2>2. job' \in [Workers -> Job]
    BY <1>8, <2>1 DEF LoseAnswer, Answer, TypeOK, Job
  <2>3. reported' \in [Sales -> Nat] /\ unsure' \in [Sales -> Nat] /\ faults' \in 0..MaxFaults
    BY <1>8, <2>1 DEF LoseAnswer, TypeOK
  <2> QED  BY <1>8, <2>2, <2>3 DEF LoseAnswer, world, TypeOK
<1>9. ASSUME NEW w \in Workers, Finish(w) PROVE TypeOK'
  <2>1. job[w] \in [step : {"finish"}, sale : Sales, provider : Providers, ok : BOOLEAN]
    BY <1>9, JobFields DEF Finish, At
  <2>2. [Outcome(receipt[job[w].sale], job[w]) EXCEPT !.stale = FALSE] \in Receipt
    BY <2>1, OutcomeTyped DEF TypeOK
  <2>3. receipt' \in [Sales -> Receipt] /\ older' \in SUBSET (Sales \X Sales)
    BY <1>9, <2>1, <2>2, SaveTyped DEF Finish
  <2> QED  BY <1>9, <2>3 DEF Finish, Ends, world, counts, TypeOK, Job
<1>10. ASSUME NEW w \in Workers, Crash(w) PROVE TypeOK'
  <2>1. ~ At(w, "idle") /\ faults' \in 0..MaxFaults
    BY <1>10 DEF Crash, TypeOK
  <2>2. queue' \in [Sweepers -> Seq(Sales)]
    BY <1>10 DEF Crash, TypeOK
  <2>3. unsure' \in [Sales -> Nat]
    <3>1. CASE At(w, "finish")
      <4>1. job[w].sale \in Sales
        BY <3>1 DEF At, TypeOK, Job, Idle
      <4> QED  BY <1>10, <4>1 DEF Crash, TypeOK
    <3>2. CASE ~ At(w, "finish")
      BY <1>10, <3>2 DEF Crash, TypeOK
    <3> QED  BY <3>1, <3>2
  <2> QED  BY <1>10, <2>1, <2>2, <2>3 DEF Crash, Ends, world, TypeOK, Job
<1>11. ASSUME NEW w \in Sweepers, Sweep(w) PROVE TypeOK'
  <2>1. IsFiniteSet(Due) /\ Due \subseteq Sales
    BY FS_Subset DEF Due
  <2>2. Cardinality(Due) \in Nat
    BY <2>1, FS_CardinalityType
  <2>3. PICK q \in [1..Cardinality(Due) -> Due] : queue' = [queue EXCEPT ![w] = q]
    BY <1>11 DEF Sweep
  <2>4. q \in Seq(Sales)
    <3> DEFINE n == Cardinality(Due)
    <3>1. n \in Nat /\ q \in [1..n -> Sales]
      BY <2>1, <2>2, <2>3
    <3> HIDE DEF n
    <3> QED BY <3>1
  <2>5. queue' \in [Sweepers -> Seq(Sales)]
    BY <2>3, <2>4 DEF TypeOK
  <2> QED BY <1>11, <2>5 DEF Sweep, world, counts, TypeOK
<1>12. ASSUME NEW w \in Sweepers, NEW s \in Sales, Reap(w, s) PROVE TypeOK'
  <2>1. Reaped(receipt[s]) \in Receipt
    BY ReapedTyped DEF TypeOK
  <2>2. receipt' \in [Sales -> Receipt] /\ older' \in SUBSET (Sales \X Sales)
    BY <1>12, <2>1, SaveTyped DEF Reap
  <2> QED  BY <1>12, <2>2 DEF Reap, world, counts, TypeOK
<1>13. ASSUME NEW s \in Sales, Ages(s) PROVE TypeOK'
  <2>1. [receipt[s] EXCEPT !.stale = TRUE] \in Receipt
    <3>1. receipt[s] \in Receipt
      BY DEF TypeOK
    <3>2. QED
      BY <3>1 DEF Receipt
  <2> QED  BY <1>13, <2>1 DEF Ages, world, counts, TypeOK
<1>14. ASSUME NEW m \in Modes, SetMode(m) PROVE TypeOK'
  BY <1>14 DEF SetMode, counts, TypeOK
<1>16. ASSUME NEW s \in Unsettled, TurnTender(s) PROVE TypeOK'
  <2>1. obscure' \in SUBSET Unsettled
    BY <1>16 DEF TurnTender, TypeOK
  <2> QED BY <1>16, <2>1 DEF TurnTender, counts, TypeOK
<1>15. CASE UNCHANGED vars
  BY <1>15 DEF vars, world, counts, TypeOK
<1> QED
  BY <1>1, <1>2, <1>3, <1>4, <1>5, <1>6, <1>7, <1>8, <1>9, <1>10, <1>11, <1>12, <1>13,
     <1>14, <1>15, <1>16 DEF Next, Step, SweepStep

(* Every state of the specification is well typed: among others, no row is *)
(* ever left PENDING and no counter leaves its bound.                      *)
THEOREM TypeCorrect == Spec => []TypeOK
  BY InitTyped, NextTyped, PTL DEF Spec

-----------------------------------------------------------------------------
(* Proofs of receipts: a document is counted before its sign reaches a     *)
(* process, and a sign reaches a row before the row is confirmed.          *)
LEMMA InitProved == Init => Proved
  BY InitTyped DEF Init, Proved, RowProved, AnswerProved, Signed, NoReceipt, Idle

(* What a call has heard is in its answer; a row changed otherwise keeps   *)
(* its sign, and the count of documents never falls.                       *)
LEMMA NextProved == Proved /\ [Next]_vars => Proved'
<1> SUFFICES ASSUME Proved, [Next]_vars PROVE Proved'
  OBVIOUS
<1> USE FiscalAssumption
<1>0. TypeOK /\ TypeOK'
  BY NextTyped DEF Proved
<1>1. ASSUME NEW w \in Callers, NEW s \in Sales, Call(w, s) PROVE Proved'
  BY <1>0, <1>1 DEF Call, Begin, Proved, RowProved, AnswerProved, Signed, TypeOK, Idle
<1>2. ASSUME NEW w \in Sweepers, Retry(w) PROVE Proved'
  BY <1>0, <1>2 DEF Retry, Begin, Proved, RowProved, AnswerProved, Signed, TypeOK, Idle
<1>3. ASSUME NEW w \in Workers, ReadTenant(w) PROVE Proved'
  BY <1>0, <1>3 DEF ReadTenant, At, counts, Proved, RowProved, AnswerProved, Signed, TypeOK
<1>4. ASSUME NEW w \in Workers, Attempt(w) PROVE Proved'
  <2>1. job[w] \in [step : {"attempt"}, sale : Sales, mode : Modes, provider : Providers]
    BY <1>0, <1>4 DEF Attempt, At, TypeOK, Job, Idle
  <2>2. \A s \in Sales : RowProved(s)' /\ Signed(s)'
    <3> SUFFICES ASSUME NEW s \in Sales PROVE RowProved(s)' /\ Signed(s)'
      OBVIOUS
    <3>1. \/ receipt'[s] = receipt[s]
          \/ receipt'[s] = Sent(receipt[s], job[w])
      BY <1>0, <1>4, <2>1 DEF Attempt, Send, Save, TypeOK
    <3>2. receipt'[s].sign = receipt[s].sign
          /\ receipt'[s].status \in {receipt[s].status, "sent"}
      BY <1>0, <3>1, SentUnsigned DEF TypeOK
    <3> QED  BY <1>4, <3>2 DEF Attempt, counts, Proved, RowProved, Signed
  <2>3. \A v \in Workers : AnswerProved(v)'
    <3>1. reported' = reported /\ job'[w].step # "finish"
      BY <1>0, <1>4, <2>1 DEF Attempt, Send, Ends, Idle, counts, TypeOK
    <3>2. \A v \in Workers : v # w => job'[v] = job[v]
      BY <1>0, <1>4 DEF Attempt, Send, Ends, TypeOK
    <3> QED BY <3>1, <3>2 DEF Proved, AnswerProved
  <2> QED  BY <1>0, <2>2, <2>3 DEF Proved
<1>5. ASSUME NEW w \in Workers, Undo(w) PROVE Proved'
  BY <1>0, <1>5 DEF Undo, Ends, counts, Idle, Proved, RowProved, AnswerProved, Signed, TypeOK
<1>6. ASSUME NEW w \in Workers, Accept(w) PROVE Proved'
  <2>1. job[w] \in [step : {"call"}, sale : Sales, mode : Modes, provider : Providers]
    BY <1>0, <1>6 DEF Accept, At, TypeOK, Job, Idle
  <2>2. /\ \A s \in Sales : reported'[s] >= reported[s]
        /\ job[w].provider = "real" => reported'[job[w].sale] > 0
    BY <1>0, <1>6, <2>1 DEF Accept, TypeOK, Providers
  <2>3. \A s \in Sales : RowProved(s)' /\ Signed(s)'
    BY <1>0, <1>6, <2>2 DEF Accept, counts, Proved, RowProved, Signed, TypeOK
  <2>4. \A v \in Workers : AnswerProved(v)'
    <3> SUFFICES ASSUME NEW v \in Workers PROVE AnswerProved(v)'
      OBVIOUS
    <3>1. CASE v = w
      BY <1>0, <1>6, <2>1, <2>2, <3>1 DEF Accept, Answer, AnswerProved, TypeOK
    <3>2. CASE v # w
      <4>1. job'[v] = job[v]
        BY <1>0, <1>6, <3>2 DEF Accept, Answer, TypeOK
      <4>2. job[v].step = "finish" => job[v].sale \in Sales
        BY <1>0 DEF TypeOK, Job, Idle
      <4> QED  BY <1>0, <2>2, <4>1, <4>2 DEF Proved, AnswerProved, TypeOK
    <3> QED  BY <3>1, <3>2
  <2> QED  BY <1>0, <2>3, <2>4 DEF Proved
<1>7. ASSUME NEW w \in Workers, RefuseSale(w) PROVE Proved'
  BY <1>0, <1>7 DEF RefuseSale, Answer, counts, Proved, RowProved, AnswerProved, Signed, TypeOK
<1>8. ASSUME NEW w \in Workers, LoseAnswer(w) PROVE Proved'
  <2>1. job[w] \in [step : {"call"}, sale : Sales, mode : Modes, provider : Providers]
    BY <1>0, <1>8 DEF LoseAnswer, At, TypeOK, Job, Idle
  <2>2. \A s \in Sales : reported'[s] >= reported[s]
    BY <1>0, <1>8, <2>1 DEF LoseAnswer, TypeOK
  <2>3. \A s \in Sales : RowProved(s)' /\ Signed(s)'
    BY <1>0, <1>8, <2>2 DEF LoseAnswer, counts, Proved, RowProved, Signed, TypeOK
  <2>4. \A v \in Workers : AnswerProved(v)'
    <3> SUFFICES ASSUME NEW v \in Workers PROVE AnswerProved(v)'
      OBVIOUS
    <3>1. CASE v = w
      BY <1>0, <1>8, <2>1, <3>1 DEF LoseAnswer, Answer, AnswerProved, TypeOK
    <3>2. CASE v # w
      <4>1. job'[v] = job[v]
        BY <1>0, <1>8, <3>2 DEF LoseAnswer, Answer, TypeOK
      <4>2. job[v].step = "finish" => job[v].sale \in Sales
        BY <1>0 DEF TypeOK, Job, Idle
      <4> QED  BY <1>0, <2>2, <4>1, <4>2 DEF Proved, AnswerProved, TypeOK
    <3> QED  BY <3>1, <3>2
  <2> QED  BY <1>0, <2>3, <2>4 DEF Proved
<1>9. ASSUME NEW w \in Workers, Finish(w) PROVE Proved'
  <2>1. job[w] \in [step : {"finish"}, sale : Sales, provider : Providers, ok : BOOLEAN]
    BY <1>0, <1>9, JobFields DEF Finish, At
  <2>2. ASSUME NEW s \in Sales PROVE RowProved(s)' /\ Signed(s)'
    <3>1. CASE s = job[w].sale /\ job[w].ok
      <4>1. receipt'[s].sign = job[w].provider
        BY <1>0, <1>9, <2>1, <3>1 DEF Finish, Save, Outcome, TypeOK, Receipt
      <4> QED  BY <1>9, <2>1, <3>1, <4>1 DEF Finish, counts, Proved, AnswerProved, RowProved, Signed, Providers
    <3>2. CASE s = job[w].sale /\ ~ job[w].ok
      <4>1. receipt'[s].sign = receipt[s].sign /\ receipt'[s].status = "failed"
        BY <1>0, <1>9, <2>1, <3>2 DEF Finish, Save, Outcome, TypeOK, Receipt
      <4> QED  BY <1>9, <4>1 DEF Finish, counts, Proved, RowProved, Signed
    <3>3. CASE s # job[w].sale
      <4>1. receipt'[s] = receipt[s]
        BY <1>0, <1>9, <2>1, <3>3 DEF Finish, Save, TypeOK
      <4> QED  BY <1>9, <4>1 DEF Finish, counts, Proved, RowProved, Signed
    <3> QED  BY <2>1, <3>1, <3>2, <3>3
  <2>3. \A v \in Workers : AnswerProved(v)'
    BY <1>0, <1>9 DEF Finish, Ends, counts, Idle, Proved, AnswerProved, TypeOK
  <2> QED  BY <1>0, <2>2, <2>3 DEF Proved
<1>10. ASSUME NEW w \in Workers, Crash(w) PROVE Proved'
  BY <1>0, <1>10 DEF Crash, Ends, Idle, Proved, RowProved, AnswerProved, Signed, TypeOK
<1>11. ASSUME NEW w \in Sweepers, Sweep(w) PROVE Proved'
  BY <1>0, <1>11 DEF Sweep, counts, Proved, RowProved, AnswerProved, Signed
<1>12. ASSUME NEW w \in Sweepers, NEW s \in Sales, Reap(w, s) PROVE Proved'
  <2>1. \A q \in Sales : /\ receipt'[q].sign = receipt[q].sign
                         /\ Signed(q)'
    BY <1>0, <1>12 DEF Reap, Save, Reaped, TypeOK, Receipt, Proved, Signed
  <2> QED  BY <1>0, <1>12, <2>1 DEF Reap, counts, Proved, RowProved, AnswerProved
<1>13. ASSUME NEW s \in Sales, Ages(s) PROVE Proved'
  <2>1. \A q \in Sales : /\ receipt'[q].sign = receipt[q].sign
                         /\ receipt'[q].status = receipt[q].status
    BY <1>0, <1>13 DEF Ages, TypeOK, Receipt
  <2> QED  BY <1>0, <1>13, <2>1 DEF Ages, counts, Proved, RowProved, AnswerProved, Signed
<1>14. ASSUME NEW m \in Modes, SetMode(m) PROVE Proved'
  BY <1>0, <1>14 DEF SetMode, counts, Proved, RowProved, AnswerProved, Signed
<1>16. ASSUME NEW s \in Unsettled, TurnTender(s) PROVE Proved'
  BY <1>0, <1>16 DEF TurnTender, counts, Proved, RowProved, AnswerProved, Signed
<1>15. CASE UNCHANGED vars
  BY <1>0, <1>15 DEF vars, counts, Proved, RowProved, AnswerProved, Signed
<1> QED
  BY <1>1, <1>2, <1>3, <1>4, <1>5, <1>6, <1>7, <1>8, <1>9, <1>10, <1>11, <1>12, <1>13,
     <1>14, <1>15, <1>16 DEF Next, Step, SweepStep

(* No receipt is ever confirmed without a proof, nor with a real one for a *)
(* sale the authority does not hold: for any number of callers and sweeps, *)
(* at any speed, with any crashes, lost answers and changes of mode.       *)
THEOREM Confirmed == Spec => []ConfirmedIsProved
<1>1. Proved => ConfirmedIsProved
  BY DEF Proved, RowProved, Signed, ConfirmedIsProved
<1> QED  BY InitProved, NextProved, <1>1, PTL DEF Spec
-----------------------------------------------------------------------------
(* Documents of a sale: an attempt under way owes the authority at most    *)
(* one, unless its process has heard of it and has still to store it.      *)
Owing(w, s) ==
  UnderWay(w, s) /\ ~ (job[w].step = "finish" /\ job[w].ok /\ job[w].provider = "real")
Open(s) == {w \in Workers : Owing(w, s)}

(* While attempts are under way, the documents held and those still owed   *)
(* exceed what was lost or overlapped by one at most; when none is, that   *)
(* one is the document the row is confirmed by.                            *)
Tallied(s) ==
  /\ IsFiniteSet(Open(s))
  /\ InFlight(s) =>
       reported[s] + Cardinality(Open(s)) <= 1 + unsure[s] + together[s]
  /\ ~ InFlight(s) =>
       /\ reported[s] <= 1 + unsure[s] + together[s]
       /\ receipt[s].status # "confirmed" => reported[s] <= unsure[s] + together[s]

OnceInv == TypeOK /\ \A s \in Sales : Tallied(s)

Alike(v, s) == (UnderWay(v, s)' <=> UnderWay(v, s)) /\ (Owing(v, s)' <=> Owing(v, s))
Steadily(w, s) == \A v \in Workers : v # w => Alike(v, s)

LEMMA CountsNat ==
  ASSUME TypeOK, NEW s \in Sales
  PROVE  reported[s] \in Nat /\ unsure[s] \in Nat /\ together[s] \in Nat
BY DEF TypeOK

(* The processes that do not move in a step are where they were.           *)
LEMMA OneMoves ==
  ASSUME NEW w \in Workers, NEW x, TypeOK, job' = [job EXCEPT ![w] = x]
  PROVE  /\ job'[w] = x
         /\ \A s \in Sales : Steadily(w, s)
<1>1. job'[w] = x /\ \A v \in Workers : v # w => job'[v] = job[v]
  BY DEF TypeOK
<1> QED BY <1>1 DEF Steadily, Alike, UnderWay, Owing

(* A step that neither begins nor ends an attempt of the sale, nor counts  *)
(* a document of it, and takes no confirmation back.                       *)
LEMMA Untouched ==
  ASSUME NEW s \in Sales, Tallied(s), \A v \in Workers : Alike(v, s),
         reported'[s] = reported[s], unsure'[s] = unsure[s], together'[s] = together[s],
         receipt[s].status = "confirmed" => receipt'[s].status = "confirmed"
  PROVE  Tallied(s)'
<1>1. Open(s)' = Open(s)
  BY DEF Open, Alike
<1>2. InFlight(s)' <=> InFlight(s)
  BY DEF InFlight, Alike
<1> QED BY <1>1, <1>2 DEF Tallied

(* A process whose attempt no longer owes anything is one less.            *)
LEMMA LeavesOpen ==
  ASSUME NEW s \in Sales, NEW w \in Workers, IsFiniteSet(Open(s)), Steadily(w, s),
         ~ Owing(w, s)'
  PROVE  /\ IsFiniteSet(Open(s)') /\ Cardinality(Open(s)') \in Nat /\ Cardinality(Open(s)) \in Nat
         /\ Cardinality(Open(s)') <= Cardinality(Open(s))
         /\ Owing(w, s) => Cardinality(Open(s)') = Cardinality(Open(s)) - 1
<1>1. Open(s)' = Open(s) \ {w}
  BY DEF Open, Steadily, Alike
<1>2. Owing(w, s) <=> w \in Open(s)
  BY DEF Open
<1>3. CASE w \in Open(s)
  <2>1. /\ IsFiniteSet(Open(s) \ {w})
        /\ Cardinality(Open(s) \ {w}) = Cardinality(Open(s)) - 1
    BY <1>3, FS_RemoveElement
  <2>2. Cardinality(Open(s)) \in Nat /\ Cardinality(Open(s) \ {w}) \in Nat
    BY <2>1, FS_CardinalityType
  <2> QED BY <1>1, <1>2, <1>3, <2>1, <2>2
<1>4. CASE w \notin Open(s)
  <2>1. Open(s)' = Open(s)
    BY <1>1, <1>4
  <2>2. Cardinality(Open(s)) \in Nat
    BY FS_CardinalityType
  <2> QED BY <1>2, <1>4, <2>1, <2>2
<1> QED BY <1>3, <1>4

(* A process that begins an attempt is one more.                           *)
LEMMA JoinsOpen ==
  ASSUME NEW s \in Sales, NEW w \in Workers, IsFiniteSet(Open(s)), Steadily(w, s),
         ~ Owing(w, s), Owing(w, s)'
  PROVE  /\ IsFiniteSet(Open(s)') /\ Cardinality(Open(s)) \in Nat
         /\ Cardinality(Open(s)') = Cardinality(Open(s)) + 1
<1>1. Open(s)' = Open(s) \cup {w} /\ w \notin Open(s)
  BY DEF Open, Steadily, Alike
<1> QED BY <1>1, FS_AddElement, FS_CardinalityType

(* The end of an attempt, stored or not: a process that owed a document    *)
(* owes none now, one that had heard of it has confirmed the row or leaves *)
(* it to the lost ones.                                                    *)
LEMMA EndsOne ==
  ASSUME NEW s \in Sales, NEW w \in Workers, TypeOK, TypeOK', Tallied(s), Steadily(w, s),
         UnderWay(w, s), ~ UnderWay(w, s)',
         reported'[s] = reported[s], together'[s] = together[s],
         unsure'[s] >= unsure[s],
         Owing(w, s) \/ unsure'[s] > unsure[s] \/ receipt'[s].status = "confirmed"
  PROVE  Tallied(s)'
<1>1. ~ Owing(w, s)' /\ InFlight(s)
  BY DEF Owing, InFlight
<1>2. /\ {reported[s], unsure[s], together[s]} \subseteq Nat
      /\ {reported'[s], unsure'[s], together'[s]} \subseteq Nat
  BY DEF TypeOK
<1>3. /\ IsFiniteSet(Open(s)') /\ Cardinality(Open(s)') \in Nat /\ Cardinality(Open(s)) \in Nat
      /\ Cardinality(Open(s)') <= Cardinality(Open(s))
      /\ Owing(w, s) => Cardinality(Open(s)') = Cardinality(Open(s)) - 1
  BY <1>1, LeavesOpen DEF Tallied
<1>4. reported[s] + Cardinality(Open(s)) <= 1 + unsure[s] + together[s]
  BY <1>1 DEF Tallied
<1> QED BY <1>2, <1>3, <1>4 DEF Tallied

LEMMA OnceStep ==
  ASSUME OnceInv, [Next]_vars, NEW s \in Sales
  PROVE  Tallied(s)'
<1> USE FiscalAssumption
<1>0. TypeOK /\ TypeOK' /\ Tallied(s)
  BY NextTyped DEF OnceInv
<1>a. ASSUME job' = job PROVE \A v \in Workers : Alike(v, s)
  BY <1>a DEF Alike, UnderWay, Owing
<1>b. ASSUME NEW w \in Workers, NEW x, job' = [job EXCEPT ![w] = x], Alike(w, s)
      PROVE  \A v \in Workers : Alike(v, s)
  BY <1>0, <1>b, OneMoves DEF Steadily
<1>1. ASSUME NEW w \in Callers \cup Sweepers, NEW q \in Sales, At(w, "idle"), Begin(w, q)
      PROVE  Tallied(s)'
  <2>1. Alike(w, s)
    BY <1>0, <1>1, OneMoves DEF Begin, At, Alike, UnderWay, Owing, Idle, Workers
  <2>2. \A v \in Workers : Alike(v, s)
    BY <1>1, <1>b, <2>1 DEF Begin, Workers
  <2> QED BY <1>0, <1>1, <2>2, Untouched DEF Begin
<1>2. ASSUME NEW w \in Sweepers, Retry(w) PROVE Tallied(s)'
  <2>1. queue[w] \in Seq(Sales) /\ queue[w] # <<>>
    BY <1>0, <1>2 DEF Retry, TypeOK
  <2>2. Head(queue[w]) \in Sales
    BY <2>1
  <2> QED BY <1>1, <1>2, <2>2 DEF Retry
<1>3. ASSUME NEW w \in Workers, ReadTenant(w) PROVE Tallied(s)'
  <2>1. PICK x : job' = [job EXCEPT ![w] = x] /\ x = [job[w] EXCEPT !.step = "attempt", !.provider = ProviderIn(mode)]
    BY <1>3 DEF ReadTenant
  <2>2. job[w] \in [step : {"config"}, sale : Sales, mode : Modes, provider : Providers]
    BY <1>0, <1>3, JobFields DEF ReadTenant, At
  <2>3. x.step = "attempt"
    BY <2>1, <2>2
  <2>4. Alike(w, s)
    BY <1>0, <1>3, <2>1, <2>3, OneMoves DEF ReadTenant, At, Alike, UnderWay, Owing
  <2>5. \A v \in Workers : Alike(v, s)
    BY <1>b, <2>1, <2>4
  <2> QED BY <1>0, <1>3, <2>5, Untouched DEF ReadTenant
<1>4. ASSUME NEW w \in Workers, Attempt(w) PROVE Tallied(s)'
  <2>1. job[w] \in [step : {"attempt"}, sale : Sales, mode : Modes, provider : Providers]
    BY <1>0, <1>4, JobFields DEF Attempt, At
  <2> DEFINE x == [job[w] EXCEPT !.step = "call"]
  <2>2. x.step = "call" /\ x.sale = job[w].sale
    BY <2>1
  <2> HIDE DEF x
  <2>3. CASE receipt[job[w].sale].status = "confirmed"
    <3>1. job' = [job EXCEPT ![w] = Idle] /\ UNCHANGED <<receipt, reported, unsure, together>>
      BY <1>4, <2>3 DEF Attempt, Ends, counts
    <3>2. Alike(w, s)
      BY <1>0, <2>1, <3>1, OneMoves DEF Alike, UnderWay, Owing, Idle
    <3>3. \A v \in Workers : Alike(v, s)
      BY <1>b, <3>1, <3>2
    <3> QED BY <1>0, <3>1, <3>3, Untouched
  <2>4. CASE receipt[job[w].sale].status # "confirmed"
    <3>1. /\ Save(job[w].sale, Sent(receipt[job[w].sale], job[w]))
          /\ job' = [job EXCEPT ![w] = x]
          /\ together' = IF InFlight(job[w].sale)
                           THEN [together EXCEPT ![job[w].sale] = @ + 1] ELSE together
          /\ UNCHANGED <<reported, unsure>>
      BY <1>4, <2>4 DEF Attempt, Send, x
    <3>2. job'[w] = x /\ Steadily(w, s)
      BY <1>0, <3>1, OneMoves
    <3>3. CASE s = job[w].sale
      <4>1. ~ UnderWay(w, s) /\ ~ Owing(w, s) /\ UnderWay(w, s)' /\ Owing(w, s)'
        BY <2>1, <2>2, <3>2, <3>3 DEF UnderWay, Owing
      <4>2. /\ IsFiniteSet(Open(s)') /\ Cardinality(Open(s)) \in Nat
            /\ Cardinality(Open(s)') = Cardinality(Open(s)) + 1
        BY <1>0, <3>2, <4>1, JoinsOpen DEF Tallied
      <4>3. InFlight(s)'
        BY <4>1 DEF InFlight
      <4>4. /\ reported'[s] = reported[s] /\ unsure'[s] = unsure[s]
            /\ reported[s] \in Nat /\ unsure[s] \in Nat /\ together[s] \in Nat
        BY <1>0, <3>1 DEF TypeOK
      <4>5. CASE InFlight(s)
        <5>1. together'[s] = together[s] + 1
          BY <1>0, <3>1, <3>3, <4>5 DEF TypeOK
        <5> QED BY <1>0, <4>2, <4>3, <4>4, <4>5, <5>1 DEF Tallied
      <4>6. CASE ~ InFlight(s)
        <5>1. together'[s] = together[s]
          BY <3>1, <3>3, <4>6
        <5>2. Open(s) = {}
          BY <4>6 DEF Open, Owing, InFlight
        <5>3. Cardinality(Open(s)) = 0
          BY <5>2, FS_EmptySet
        <5> QED BY <1>0, <2>4, <3>3, <4>2, <4>3, <4>4, <4>6, <5>1, <5>3 DEF Tallied
      <4> QED BY <4>5, <4>6
    <3>4. CASE s # job[w].sale
      <4>1. Alike(w, s)
        BY <2>1, <2>2, <3>2, <3>4 DEF Alike, UnderWay, Owing
      <4>2. \A v \in Workers : Alike(v, s)
        BY <1>b, <3>1, <4>1
      <4>3. receipt'[s] = receipt[s]
        BY <1>0, <3>1, <3>4 DEF Save, TypeOK
      <4>4. together'[s] = together[s]
        BY <1>0, <3>1, <3>4 DEF TypeOK
      <4> QED BY <1>0, <3>1, <4>2, <4>3, <4>4, Untouched
    <3> QED BY <3>3, <3>4
  <2> QED BY <2>3, <2>4
<1>5. ASSUME NEW w \in Workers, Undo(w) PROVE Tallied(s)'
  <2>1. Alike(w, s)
    BY <1>0, <1>5, OneMoves DEF Undo, Ends, At, Alike, UnderWay, Owing, Idle
  <2>2. \A v \in Workers : Alike(v, s)
    BY <1>5, <1>b, <2>1 DEF Undo, Ends
  <2> QED BY <1>0, <1>5, <2>2, Untouched DEF Undo, counts
<1>6. ASSUME NEW w \in Workers, NEW ok \in BOOLEAN, At(w, "call"), Answer(w, ok),
             UNCHANGED <<receipt, together>>,
             \/ ~ ok /\ UNCHANGED <<reported, unsure>>
             \/ ok /\ UNCHANGED unsure
                /\ reported' = IF job[w].provider = "mock" THEN reported
                               ELSE [reported EXCEPT ![job[w].sale] = @ + 1]
             \/ ~ ok /\ reported' = [reported EXCEPT ![job[w].sale] = @ + 1]
                /\ unsure' = [unsure EXCEPT ![job[w].sale] = @ + 1]
      PROVE  Tallied(s)'
  <2>1. job[w] \in [step : {"call"}, sale : Sales, mode : Modes, provider : Providers]
    BY <1>0, <1>6, JobFields DEF At
  <2> DEFINE x == [step |-> "finish", sale |-> job[w].sale, provider |-> job[w].provider, ok |-> ok]
  <2>2. job' = [job EXCEPT ![w] = x]
    BY <1>6 DEF Answer
  <2>3. job'[w] = x /\ Steadily(w, s)
    BY <1>0, <2>2, OneMoves
  <2>4. /\ UnderWay(w, s)' <=> s = job[w].sale
        /\ UnderWay(w, s) <=> s = job[w].sale
        /\ Owing(w, s) <=> s = job[w].sale
        /\ Owing(w, s)' <=> s = job[w].sale /\ ~ (ok /\ job[w].provider = "real")
    BY <2>1, <2>3 DEF UnderWay, Owing
  <2>5. CASE s # job[w].sale
    <3>1. \A v \in Workers : Alike(v, s)
      BY <2>3, <2>4, <2>5 DEF Alike, Steadily
    <3>2. reported'[s] = reported[s] /\ unsure'[s] = unsure[s]
      BY <1>0, <1>6, <2>5 DEF TypeOK
    <3> QED BY <1>0, <1>6, <3>1, <3>2, Untouched
  <2>6. CASE s = job[w].sale
    <3>1. InFlight(s) /\ InFlight(s)'
      BY <2>4, <2>6 DEF InFlight
    <3>2. reported[s] \in Nat /\ unsure[s] \in Nat /\ together[s] \in Nat
      BY <1>0 DEF TypeOK
    <3>3. CASE ok /\ job[w].provider = "real"
      <4>1. reported'[s] = reported[s] + 1 /\ unsure'[s] = unsure[s]
        BY <1>0, <1>6, <2>6, <3>3 DEF TypeOK
      <4>2. /\ IsFiniteSet(Open(s)') /\ Cardinality(Open(s)) \in Nat
            /\ Cardinality(Open(s)') = Cardinality(Open(s)) - 1
        BY <1>0, <2>3, <2>4, <2>6, <3>3, LeavesOpen DEF Tallied
      <4> QED BY <1>0, <1>6, <3>1, <3>2, <4>1, <4>2 DEF Tallied
    <3>4. CASE ~ (ok /\ job[w].provider = "real")
      <4>1. \A v \in Workers : Alike(v, s)
        BY <2>3, <2>4, <2>6, <3>4 DEF Alike, Steadily
      <4>2. Open(s)' = Open(s)
        BY <4>1 DEF Open, Alike
      <4>3. Cardinality(Open(s)) \in Nat
        BY <1>0, FS_CardinalityType DEF Tallied
      <4>4. \/ reported'[s] = reported[s] /\ unsure'[s] = unsure[s]
            \/ reported'[s] = reported[s] + 1 /\ unsure'[s] = unsure[s] + 1
        BY <1>0, <1>6, <2>1, <2>6, <3>4 DEF TypeOK, Providers
      <4> QED BY <1>0, <1>6, <3>1, <3>2, <4>2, <4>3, <4>4 DEF Tallied
    <3> QED BY <3>3, <3>4
  <2> QED BY <2>5, <2>6
<1>7. ASSUME NEW w \in Workers, Accept(w) \/ RefuseSale(w) \/ LoseAnswer(w) PROVE Tallied(s)'
  BY <1>6, <1>7 DEF Accept, RefuseSale, LoseAnswer, counts
<1>8. ASSUME NEW w \in Workers, Finish(w) PROVE Tallied(s)'
  <2>1. job[w] \in [step : {"finish"}, sale : Sales, provider : Providers, ok : BOOLEAN]
    BY <1>0, <1>8, JobFields DEF Finish, At
  <2>2. job' = [job EXCEPT ![w] = Idle] /\ UNCHANGED <<reported, unsure, together>>
    BY <1>8 DEF Finish, Ends, counts
  <2>3. job'[w] = Idle /\ Steadily(w, s) /\ ~ UnderWay(w, s)' /\ ~ Owing(w, s)'
    <3>1. job'[w] = Idle /\ Steadily(w, s)
      BY <1>0, <2>2, OneMoves
    <3> QED BY <3>1 DEF UnderWay, Owing, Idle
  <2>4. receipt' = [receipt EXCEPT ![job[w].sale] =
                      [Outcome(receipt[job[w].sale], job[w]) EXCEPT !.stale = FALSE]]
    BY <1>8 DEF Finish, Save
  <2>5. CASE s # job[w].sale
    <3>1. \A v \in Workers : Alike(v, s)
      BY <2>3, <2>5 DEF Alike, Steadily, UnderWay, Owing
    <3>2. receipt'[s] = receipt[s]
      BY <1>0, <2>4, <2>5 DEF TypeOK
    <3> QED BY <1>0, <2>2, <3>1, <3>2, Untouched
  <2>6. CASE s = job[w].sale
    <3>1. UnderWay(w, s)
      BY <2>1, <2>6 DEF UnderWay
    <3>2. Owing(w, s) \/ job[w].ok
      BY <2>1, <3>1 DEF Owing
    <3>3. ASSUME job[w].ok PROVE receipt'[s].status = "confirmed"
      <4>1. receipt[s] \in Receipt /\ receipt'[s] = [Outcome(receipt[s], job[w]) EXCEPT !.stale = FALSE]
        BY <1>0, <2>4, <2>6 DEF TypeOK
      <4> QED BY <3>3, <4>1 DEF Outcome, Receipt
    <3>4. unsure'[s] >= unsure[s]
      BY <1>0, <2>2 DEF TypeOK
    <3> QED BY <1>0, <2>2, <2>3, <3>1, <3>2, <3>3, <3>4, EndsOne
  <2> QED BY <2>5, <2>6
<1>9. ASSUME NEW w \in Workers, Crash(w) PROVE Tallied(s)'
  <2>1. /\ job' = [job EXCEPT ![w] = Idle] /\ UNCHANGED <<receipt, reported, together>>
        /\ unsure' = IF At(w, "finish") /\ job[w].ok /\ job[w].provider = "real"
                       THEN [unsure EXCEPT ![job[w].sale] = @ + 1] ELSE unsure
    BY <1>9 DEF Crash, Ends
  <2>2. job'[w] = Idle /\ Steadily(w, s) /\ ~ UnderWay(w, s)' /\ ~ Owing(w, s)'
    <3>1. job'[w] = Idle /\ Steadily(w, s)
      BY <1>0, <2>1, OneMoves
    <3> QED BY <3>1 DEF UnderWay, Owing, Idle
  <2>3. CASE ~ UnderWay(w, s)
    <3>1. \A v \in Workers : Alike(v, s)
      BY <2>2, <2>3 DEF Alike, Steadily, Owing
    <3>2. unsure'[s] = unsure[s]
      BY <1>0, <2>1, <2>3 DEF TypeOK, UnderWay, At
    <3> QED BY <1>0, <2>1, <3>1, <3>2, Untouched
  <2>4. CASE UnderWay(w, s)
    <3>1. Owing(w, s) \/ unsure'[s] = unsure[s] + 1
      BY <1>0, <2>1, <2>4 DEF Owing, UnderWay, At, TypeOK
    <3>2. unsure'[s] >= unsure[s] /\ unsure[s] \in Nat
      <4>1. job[w].step = "finish" => job[w].sale \in Sales
        BY <2>4 DEF UnderWay
      <4> QED BY <1>0, <2>1, <4>1 DEF TypeOK, At
    <3> QED BY <1>0, <2>1, <2>2, <2>4, <3>1, <3>2, EndsOne
  <2> QED BY <2>3, <2>4
<1>10. ASSUME UNCHANGED <<job, reported, unsure, together>>,
              receipt[s].status = "confirmed" => receipt'[s].status = "confirmed"
       PROVE  Tallied(s)'
  BY <1>0, <1>10, <1>a, Untouched
<1>11. ASSUME NEW w \in Sweepers, NEW q \in Sales, Reap(w, q) PROVE Tallied(s)'
  <2>1. receipt'[s] = receipt[s] \/ receipt[s].status = "sent"
    BY <1>0, <1>11 DEF Reap, Save, Stranded, TypeOK
  <2> QED BY <1>10, <1>11, <2>1 DEF Reap, counts
<1>12. ASSUME NEW q \in Sales, Ages(q) PROVE Tallied(s)'
  <2>1. receipt'[s] = receipt[s] \/ receipt[s].status = "sent"
    BY <1>0, <1>12 DEF Ages, TypeOK
  <2> QED BY <1>10, <1>12, <2>1 DEF Ages, counts
<1>13. ASSUME \/ \E w \in Sweepers : Sweep(w)
              \/ \E m \in Modes : SetMode(m)
              \/ \E q \in Unsettled : TurnTender(q)
              \/ UNCHANGED vars
       PROVE  Tallied(s)'
  BY <1>10, <1>13 DEF Sweep, SetMode, TurnTender, vars, counts
<1>14. ASSUME NEW w \in Callers, NEW q \in Sales, Call(w, q) PROVE Tallied(s)'
  BY <1>1, <1>14 DEF Call
<1> QED
  BY <1>2, <1>3, <1>4, <1>5, <1>7, <1>8, <1>9, <1>11, <1>12, <1>13, <1>14
     DEF OnceInv, Next, Step, SweepStep

(* The authority holds one document of a sale more than there were answers *)
(* lost, with a connection or a process, and attempts begun while another  *)
(* one was under way: whatever the calls, the sweeps, the crashes and the  *)
(* changes of mode and tender, and however late the answers.               *)
THEOREM ReportedOnce == Spec => []NoNeedlessDuplicate
<1>1. Init => OnceInv
  <2>1. ASSUME Init, NEW s \in Sales PROVE Tallied(s)
    <3>1. Open(s) = {} /\ ~ InFlight(s)
      BY <2>1 DEF Init, Open, Owing, InFlight, UnderWay, Idle
    <3> QED BY <2>1, <3>1, FS_EmptySet DEF Init, Tallied
  <2> QED BY <2>1, InitTyped DEF OnceInv
<1>2. OnceInv /\ [Next]_vars => OnceInv'
  BY NextTyped, OnceStep DEF OnceInv
<1>3. OnceInv => NoNeedlessDuplicate
  <2> SUFFICES ASSUME OnceInv, NEW s \in Sales
               PROVE  reported[s] <= 1 + unsure[s] + together[s]
    BY DEF NoNeedlessDuplicate
  <2>1. /\ reported[s] \in Nat /\ unsure[s] \in Nat /\ together[s] \in Nat
        /\ Tallied(s)
    BY CountsNat DEF OnceInv
  <2>2. Cardinality(Open(s)) \in Nat
    BY <2>1, FS_CardinalityType DEF Tallied
  <2> QED BY <2>1, <2>2 DEF Tallied
<1> QED BY <1>1, <1>2, <1>3, PTL DEF Spec

-----------------------------------------------------------------------------
(* What an order is worth: OrderMoney.                                     *)

Line == [by : Actions, index : Nat, method : STRING, amount : Nat]
DoorRow == [id : STRING, method : STRING, amount : Nat]
Known == {"CASH", "UZCARD", "PAYME", Extra}

(* What a header may say (the provers do not know a literal for a string). *)
Word == STRING \cup {None, "MIXED"}

LEMMA WorthInNat ==
  ASSUME NEW S, IsFiniteSet(S), \A r \in S : r.amount \in Nat
  PROVE  Worth(S) \in Nat
<1> DEFINE f == [r \in S |-> r.amount]
<1>1. \A r \in S : f[r] \in Nat
  OBVIOUS
<1> HIDE DEF f
<1>2. SumFunctionOnSet(f, S) \in Nat
  BY <1>1, SumNat
<1> QED BY <1>2 DEF Worth, f

LEMMA WorthUnion ==
  ASSUME NEW S, IsFiniteSet(S), NEW T, IsFiniteSet(T), S \cap T = {},
         \A r \in S \cup T : r.amount \in Nat
  PROVE  Worth(S \cup T) = Worth(S) + Worth(T)
<1> DEFINE f == [r \in S \cup T |-> r.amount]  g == [r \in S |-> r.amount]  h == [r \in T |-> r.amount]
<1>1. /\ \A r \in S \cup T : f[r] \in Int
      /\ \A r \in S : f[r] = g[r]
      /\ \A r \in T : f[r] = h[r]
  OBVIOUS
<1> HIDE DEF f, g, h
<1>2. SumFunctionOnSet(f, S \cup T) = SumFunctionOnSet(f, S) + SumFunctionOnSet(f, T)
  BY <1>1, SumUnion
<1>3. SumFunctionOnSet(f, S) = SumFunctionOnSet(g, S) /\ SumFunctionOnSet(f, T) = SumFunctionOnSet(h, T)
  BY <1>1, SumSame
<1> QED BY <1>2, <1>3 DEF Worth, f, g, h

(* A part and the rest.                                                    *)
LEMMA WorthParts ==
  ASSUME NEW S, IsFiniteSet(S), NEW T \in SUBSET S, \A r \in S : r.amount \in Nat
  PROVE  /\ Worth(S) = Worth(T) + Worth(S \ T)
         /\ Worth(T) \in Nat /\ Worth(S \ T) \in Nat /\ IsFiniteSet(T) /\ IsFiniteSet(S \ T)
<1>1. IsFiniteSet(T) /\ IsFiniteSet(S \ T)
  BY FS_Subset
<1>2. T \cup (S \ T) = S /\ T \cap (S \ T) = {}
  OBVIOUS
<1>3. (\A r \in T : r.amount \in Nat) /\ (\A r \in S \ T : r.amount \in Nat)
  OBVIOUS
<1>4. Worth(T) \in Nat /\ Worth(S \ T) \in Nat
  BY <1>1, <1>3, WorthInNat
<1>5. Worth(T \cup (S \ T)) = Worth(T) + Worth(S \ T)
  BY <1>1, <1>2, WorthUnion
<1> QED BY <1>1, <1>2, <1>4, <1>5

LEMMA WorthEmpty == Worth({}) = 0
  BY SumEmpty DEF Worth

(* The four buckets, added up.                                             *)
LEMMA FourBuckets ==
  ASSUME NEW f, \A b \in Buckets : f[b] \in Int
  PROVE  SumFunctionOnSet(f, Buckets) = f["cash"] + f["card"] + f["payme"] + f["unknown"]
<1> DEFINE Sum(S) == SumFunctionOnSet(f, S)
           A == {}  B == A \cup {"cash"}  C == B \cup {"card"}  D == C \cup {"payme"}
<1>1. IsFiniteSet(A) /\ IsFiniteSet(B) /\ IsFiniteSet(C) /\ IsFiniteSet(D)
  BY FS_EmptySet, FS_AddElement
<1>2. D \cup {"unknown"} = Buckets
  BY DEF Buckets
<1>3. f["cash"] \in Int /\ f["card"] \in Int /\ f["payme"] \in Int /\ f["unknown"] \in Int
  BY DEF Buckets
<1>4. Sum(D \cup {"unknown"}) = f["unknown"] + Sum(D)
  <2>1. \A x \in D \cup {"unknown"} : f[x] \in Int
    BY <1>3
  <2>2. "unknown" \notin D
    OBVIOUS
  <2> HIDE DEF D
  <2> QED BY <1>1, <2>1, <2>2, SumAdds
<1>5. Sum(C \cup {"payme"}) = f["payme"] + Sum(C)
  <2>1. \A x \in C \cup {"payme"} : f[x] \in Int
    BY <1>3
  <2>2. "payme" \notin C
    OBVIOUS
  <2> HIDE DEF C
  <2> QED BY <1>1, <2>1, <2>2, SumAdds
<1>6. Sum(B \cup {"card"}) = f["card"] + Sum(B)
  <2>1. \A x \in B \cup {"card"} : f[x] \in Int
    BY <1>3
  <2>2. "card" \notin B
    OBVIOUS
  <2> HIDE DEF B
  <2> QED BY <1>1, <2>1, <2>2, SumAdds
<1>7. Sum(A \cup {"cash"}) = f["cash"] + Sum(A)
  <2>1. \A x \in A \cup {"cash"} : f[x] \in Int
    BY <1>3
  <2> HIDE DEF A
  <2> QED BY <1>1, <2>1, SumAdds DEF A
<1>8. Sum(A) = 0
  BY SumEmpty
<1> DEFINE s == Sum(Buckets)  d == Sum(D)  c == Sum(C)  b == Sum(B)
<1>9. s = f["unknown"] + d /\ d = f["payme"] + c /\ c = f["card"] + b /\ b = f["cash"] + 0
  <2> HIDE DEF Sum, A
  <2> QED BY <1>2, <1>4, <1>5, <1>6, <1>7, <1>8
<1> HIDE DEF s, d, c, b
<1>10. s = f["cash"] + f["card"] + f["payme"] + f["unknown"]
  BY <1>3, <1>9
<1> QED BY <1>10 DEF s

(* An element that is added to the set, under another function that agrees *)
(* on the rest.                                                            *)
LEMMA SumGrows ==
  ASSUME NEW S, IsFiniteSet(S), NEW x, x \notin S, NEW f, NEW g,
         \A y \in S : g[y] = f[y], \A y \in S \cup {x} : g[y] \in Int
  PROVE  SumFunctionOnSet(g, S \cup {x}) = g[x] + SumFunctionOnSet(f, S)
<1>1. SumFunctionOnSet(g, S \cup {x}) = g[x] + SumFunctionOnSet(g, S)
  BY SumAdds
<1>2. SumFunctionOnSet(g, S) = SumFunctionOnSet(f, S)
  BY SumSame
<1> QED BY <1>1, <1>2

-----------------------------------------------------------------------------
(* The lines of a till and the rows of a courier.                          *)

LEMMA LinesTyped ==
  ASSUME NEW a \in Actions, plan \in [Actions -> Plans]
  PROVE  /\ LinesOf(a) \subseteq Line /\ IsFiniteSet(LinesOf(a))
         /\ Cardinality(LinesOf(a)) = Len(plan[a].till)
         /\ {l.index : l \in LinesOf(a)} = 0..(Len(plan[a].till) - 1)
         /\ \A l \in LinesOf(a) : l.by = a
<1> DEFINE till == plan[a].till
<1>1. till \in Seq([method : STRING, amount : Nat])
  BY MoneyAssumption
<1> HIDE DEF till
<1>2. Len(till) \in Nat /\ \A i \in 1..Len(till) : till[i] \in [method : STRING, amount : Nat]
  <2> DEFINE Row == [method : STRING, amount : Nat]
  <2>1. till \in Seq(Row)
    BY <1>1
  <2> HIDE DEF Row
  <2>2. Len(till) \in Nat /\ \A i \in 1..Len(till) : till[i] \in Row
    BY <2>1
  <2> QED BY <2>2 DEF Row
<1> DEFINE at(i) == [by |-> a, index |-> i - 1, method |-> till[i].method, amount |-> till[i].amount]
           f == [i \in 1..Len(till) |-> at(i)]
<1>3. LinesOf(a) = {at(i) : i \in 1..Len(till)}
  BY DEF LinesOf, till
<1>4. \A i \in 1..Len(till) : at(i) \in Line /\ at(i).index = i - 1 /\ at(i).by = a
  BY <1>2 DEF Line
<1> HIDE DEF at
<1>5. f \in Bijection(1..Len(till), LinesOf(a))
  <2>1. f \in Surjection(1..Len(till), LinesOf(a))
    BY <1>3 DEF Surjection
  <2>2. ASSUME NEW i \in 1..Len(till), NEW j \in 1..Len(till), f[i] = f[j] PROVE i = j
    <3>1. i - 1 = j - 1
      BY <1>4, <2>2
    <3> QED BY <1>2, <3>1
  <2>3. f \in Injection(1..Len(till), LinesOf(a))
    BY <1>3, <2>2 DEF Injection, IsInjective
  <2> QED BY <2>1, <2>3 DEF Bijection
<1>6. IsFiniteSet(1..Len(till)) /\ Cardinality(1..Len(till)) = Len(till)
  <2>1. Len(till) \in Nat /\ Len(till) \in Int /\ 1 \in Int
    BY <1>2
  <2>2. /\ IsFiniteSet(1..Len(till))
        /\ Cardinality(1..Len(till)) = IF 1 > Len(till) THEN 0 ELSE Len(till) - 1 + 1
    BY <2>1, FS_Interval
  <2> QED BY <2>1, <2>2
<1>7. IsFiniteSet(LinesOf(a)) /\ Cardinality(LinesOf(a)) = Len(till)
  BY <1>5, <1>6, FS_Bijection DEF ExistsBijection
<1>8. {l.index : l \in LinesOf(a)} = 0..(Len(till) - 1)
  <2>1. ASSUME NEW n \in 0..(Len(till) - 1) PROVE n \in {l.index : l \in LinesOf(a)}
    <3>1. n + 1 \in 1..Len(till) /\ (n + 1) - 1 = n
      BY <1>2
    <3> QED BY <1>3, <1>4, <3>1
  <2>2. ASSUME NEW l \in LinesOf(a) PROVE l.index \in 0..(Len(till) - 1)
    <3>1. PICK i \in 1..Len(till) : l = at(i)
      BY <1>3
    <3> QED BY <1>2, <1>4, <3>1
  <2> QED BY <2>1, <2>2
<1> QED BY <1>3, <1>4, <1>7, <1>8 DEF till

LEMMA NoLineIsADoorRow == Line \cap DoorRow = {}
<1> SUFFICES ASSUME NEW x, x \in Line, x \in DoorRow PROVE FALSE
  OBVIOUS
<1>1. "by" \in DOMAIN x
  BY DEF Line
<1>2. "by" \notin DOMAIN x
  BY DEF DoorRow
<1> QED BY <1>1, <1>2

MoneyTyped ==
  /\ plan \in [Actions -> Plans] /\ round \in Rounds
  /\ \A a \in Actions : Pays(LinesOf(a), round)
  /\ IsFiniteSet(lines) /\ lines \subseteq UNION {LinesOf(a) : a \in Actions}
  /\ collected \subseteq round
  /\ \A r \in lines \cup collected : r.method \in Known
  /\ head \in [paid : BOOLEAN, method : Word, action : Actions \cup {None}, canceled : BOOLEAN]
  /\ head.action # None => plan[head.action].named
  /\ configured \in BOOLEAN

LEMMA RowsTyped ==
  ASSUME MoneyTyped
  PROVE  /\ IsFiniteSet(lines) /\ lines \subseteq Line
         /\ IsFiniteSet(collected) /\ collected \subseteq DoorRow
         /\ IsFiniteSet(round) /\ round \subseteq DoorRow
         /\ IsFiniteSet(lines \cup collected) /\ lines \cap collected = {}
         /\ \A r \in lines \cup round \cup collected : r.amount \in Nat
<1>1. IsFiniteSet(round) /\ round \subseteq DoorRow
  BY MoneyAssumption DEF MoneyTyped, DoorRow
<1>2. IsFiniteSet(collected) /\ collected \subseteq DoorRow
  BY <1>1, FS_Subset DEF MoneyTyped
<1>3. IsFiniteSet(lines) /\ lines \subseteq Line
  BY LinesTyped DEF MoneyTyped
<1>4. IsFiniteSet(lines \cup collected)
  BY <1>2, <1>3, FS_Union
<1>5. lines \cap collected = {}
  BY <1>2, <1>3, NoLineIsADoorRow
<1>6. \A r \in lines \cup round \cup collected : r.amount \in Nat
  BY <1>1, <1>2, <1>3 DEF Line, DoorRow
<1> QED BY <1>1, <1>2, <1>3, <1>4, <1>5, <1>6

(* Attributed money adds up to the total, whatever the rows.               *)
LEMMA AttributedSums ==
  ASSUME NEW S, IsFiniteSet(S), \A r \in S : r.amount \in Nat
  PROVE  /\ \A b \in Buckets : Attributed(S)[b] \in Int
         /\ SumFunctionOnSet(Attributed(S), Buckets) = Total
         /\ Attributed(S)["cash"] = Total - Worth(S \ Cash(S))
         /\ Attributed(S)["unknown"] = 0
<1> DEFINE N == S \ Cash(S)  in(b) == {r \in N : Bucket(r.method) = b}
<1>1. IsFiniteSet(N) /\ \A r \in N : r.amount \in Nat
  BY WorthParts DEF Cash
<1>2. \A b : IsFiniteSet(in(b)) /\ Worth(in(b)) \in Nat /\ Worth(N) = Worth(in(b)) + Worth(N \ in(b))
  BY <1>1, WorthParts
<1>3. N \ in("card") = in("payme") /\ in("unknown") = {}
  BY DEF Cash, Bucket
<1>4. /\ Attributed(S)["cash"] = Total - Worth(N)
      /\ \A b \in Buckets : b # "cash" => Attributed(S)[b] = Worth(in(b))
  BY DEF Attributed, Buckets
<1>5. Worth(N) \in Nat
  BY <1>1, WorthInNat
<1>6. Attributed(S)["card"] = Worth(in("card")) /\ Attributed(S)["payme"] = Worth(in("payme"))
      /\ Attributed(S)["unknown"] = 0
  BY <1>3, <1>4, WorthEmpty DEF Buckets
<1> DEFINE A == Attributed(S)
<1>7. Worth(N) = Worth(in("card")) + Worth(in("payme")) /\ Worth(in("card")) \in Nat /\ Worth(in("payme")) \in Nat
  BY <1>2, <1>3
<1> HIDE DEF N, in, A
<1>8. \A b \in Buckets : A[b] \in Int
  BY <1>4, <1>6, <1>5, <1>7, MoneyAssumption DEF Buckets, A
<1>9. SumFunctionOnSet(A, Buckets) = A["cash"] + A["card"] + A["payme"] + A["unknown"]
  BY <1>8, FourBuckets
<1>10. A["cash"] + A["card"] + A["payme"] + A["unknown"] = Total
  BY <1>4, <1>5, <1>6, <1>7, MoneyAssumption DEF A
<1> QED BY <1>4, <1>6, <1>8, <1>9, <1>10 DEF A, N

LEMMA AllToSums ==
  ASSUME NEW b \in Buckets
  PROVE  /\ \A c \in Buckets : AllTo(b)[c] \in Int
         /\ SumFunctionOnSet(AllTo(b), Buckets) = Total
<1> DEFINE A == AllTo(b)
<1>1. \A c \in Buckets : A[c] = IF c = b THEN Total ELSE 0
  BY DEF AllTo
<1> HIDE DEF A
<1>2. \A c \in Buckets : A[c] \in Int
  BY <1>1, MoneyAssumption
<1>3. SumFunctionOnSet(A, Buckets) = A["cash"] + A["card"] + A["payme"] + A["unknown"]
  BY <1>2, FourBuckets
<1>4. A["cash"] + A["card"] + A["payme"] + A["unknown"] = Total
  BY <1>1, MoneyAssumption DEF Buckets
<1> QED BY <1>2, <1>3, <1>4 DEF A

(* The split gives all to one bucket, or what the rows prove.              *)
LEMMA SplitIs ==
  \/ Unproved /\ Split = AllTo("unknown")
  \/ /\ ~Unproved /\ lines \cup collected = {} /\ head.action = None
     /\ \E b \in Buckets : Split = AllTo(b)
  \/ ~Unproved /\ lines \cup collected # {} /\ Split = Attributed(lines \cup collected)
<1>1. CASE Unproved
  BY <1>1 DEF Split
<1>2. CASE ~Unproved /\ lines \cup collected # {}
  BY <1>2 DEF Split
<1>3. CASE ~Unproved /\ lines \cup collected = {}
  <2>1. head.action = None
    BY <1>3 DEF Unproved, Evidenced
  <2>2. (\A m : Bucket(m) \in Buckets) /\ "cash" \in Buckets /\ "unknown" \in Buckets
    BY DEF Bucket, Buckets
  <2>3. Split = Declared
    BY <1>3 DEF Split
  <2> QED BY <1>3, <2>1, <2>2, <2>3 DEF Declared
<1> QED BY <1>1, <1>2, <1>3

LEMMA SplitSums ==
  ASSUME MoneyTyped
  PROVE  /\ \A b \in Buckets : Split[b] \in Int
         /\ SumFunctionOnSet(Split, Buckets) = Total
<1>1. "unknown" \in Buckets
  BY DEF Buckets
<1>2. IsFiniteSet(lines \cup collected) /\ \A r \in lines \cup collected : r.amount \in Nat
  BY RowsTyped
<1>3. /\ \A b \in Buckets : Attributed(lines \cup collected)[b] \in Int
      /\ SumFunctionOnSet(Attributed(lines \cup collected), Buckets) = Total
  BY <1>2, AttributedSums
<1> QED BY <1>1, <1>3, AllToSums, SplitIs

(* The rows of an order with an action are those of its till.              *)
LEMMA OfOneTill ==
  ASSUME MoneyTyped, Evidenced, head.action # None
  PROVE  head.action \in Actions /\ lines \subseteq LinesOf(head.action)
<1>1. head.action \in Actions
  BY DEF MoneyTyped
<1>2. ASSUME NEW l \in lines PROVE l \in LinesOf(head.action)
  <2>1. PICK b \in Actions : l \in LinesOf(b)
    BY DEF MoneyTyped
  <2>2. l.by = b
    BY <2>1, LinesTyped DEF MoneyTyped
  <2>3. ActionOf(b) = head.action
    BY <2>2 DEF Evidenced
  <2>4. b = head.action
    BY <2>3 DEF ActionOf
  <2> QED BY <2>1, <2>4
<1> QED BY <1>1, <1>2

(* When the change was small, rows that cover the total lack nothing but   *)
(* cash of the till.                                                       *)
LEMMA NothingIsMissing ==
  ASSUME MoneyTyped, ~Unproved, head.action # None, ChangeIsSmall(head.action)
  PROVE  /\ collected = round
         /\ lines \subseteq LinesOf(head.action)
         /\ lines \ Cash(lines) = LinesOf(head.action) \ Cash(LinesOf(head.action))
<1> DEFINE till == LinesOf(head.action)  settled == till \cup round  rows == lines \cup collected
<1>1. Evidenced /\ Covered
  BY DEF Unproved, Evidenced
<1>2. head.action \in Actions /\ lines \subseteq till
  BY <1>1, OfOneTill
<1>3. /\ IsFiniteSet(till) /\ till \subseteq Line
      /\ IsFiniteSet(round) /\ round \subseteq DoorRow
  BY <1>2, LinesTyped, RowsTyped DEF MoneyTyped
<1>4. IsFiniteSet(settled) /\ (\A r \in settled : r.amount \in Nat) /\ till \cap round = {}
  BY <1>3, FS_Union, NoLineIsADoorRow DEF Line, DoorRow
<1>5. rows \subseteq settled
  BY <1>2 DEF MoneyTyped
<1>6. Worth(settled) = Worth(till) + Worth(round) /\ Worth(till) \in Nat /\ Worth(round) \in Nat
  <2>1. (\A r \in till : r.amount \in Nat) /\ (\A r \in round : r.amount \in Nat)
    BY <1>4
  <2> HIDE DEF till
  <2> QED BY <1>3, <1>4, <2>1, WorthUnion, WorthInNat
<1>7. Worth(settled) = Worth(rows) + Worth(settled \ rows) /\ Worth(rows) \in Nat /\ IsFiniteSet(settled \ rows)
  <2> HIDE DEF settled, rows
  <2> QED BY <1>4, <1>5, WorthParts
<1>8. Worth(rows) >= Total
  <2>1. Cash(rows) \subseteq rows /\ IsFiniteSet(rows) /\ \A r \in rows : r.amount \in Nat
    BY RowsTyped DEF Cash
  <2>2. /\ Worth(rows) = Worth(Cash(rows)) + Worth(rows \ Cash(rows))
        /\ Worth(Cash(rows)) \in Nat /\ Worth(rows \ Cash(rows)) \in Nat
    <3> HIDE DEF rows
    <3> QED BY <2>1, WorthParts
  <2>3. Worth(Cash(rows)) >= Total - Worth(rows \ Cash(rows))
    BY <1>1 DEF Covered
  <2> HIDE DEF rows
  <2> QED BY <2>2, <2>3, MoneyAssumption
<1>9. ASSUME NEW x \in settled, x \notin rows, x \in (till \ Cash(till)) \cup round PROVE FALSE
  <2>1. x.amount > Worth(till) + Worth(round) - Total
    BY <1>9 DEF ChangeIsSmall
  <2>2. /\ Worth(settled \ rows) = Worth({x}) + Worth((settled \ rows) \ {x})
        /\ Worth((settled \ rows) \ {x}) \in Nat
    <3>1. {x} \in SUBSET (settled \ rows) /\ \A r \in settled \ rows : r.amount \in Nat
      BY <1>4, <1>9
    <3> HIDE DEF settled, rows
    <3> QED BY <1>7, <3>1, WorthParts
  <2>3. Worth({x}) = x.amount
    <3> DEFINE f == [r \in {x} |-> r.amount]
    <3>1. \A y \in {x} : f[y] \in Int
      BY <1>4
    <3>2. SumFunctionOnSet(f, {} \cup {x}) = f[x] + SumFunctionOnSet(f, {})
      <4> HIDE DEF f
      <4> QED BY <3>1, FS_EmptySet, SumAdds
    <3>3. SumFunctionOnSet(f, {}) = 0 /\ f[x] = x.amount /\ x.amount \in Nat /\ {} \cup {x} = {x}
      BY <1>4, SumEmpty
    <3> QED BY <3>2, <3>3 DEF Worth
  <2>4. x.amount \in Nat
    BY <1>4
  <2> HIDE DEF settled, rows, till
  <2> QED BY <1>6, <1>7, <1>8, <2>1, <2>2, <2>3, <2>4, MoneyAssumption
<1>10. collected = round
  <2>1. ASSUME NEW x \in round PROVE x \in collected
    <3>1. x \in rows
      BY <1>9
    <3>2. x \notin lines
      BY <1>2, <1>4
    <3> QED BY <3>1, <3>2
  <2> QED BY <2>1 DEF MoneyTyped
<1>11. lines \ Cash(lines) = till \ Cash(till)
  <2>1. ASSUME NEW x \in till \ Cash(till) PROVE x \in lines
    <3>1. x \in rows
      BY <1>9
    <3>2. x \notin round
      BY <1>4
    <3> QED BY <1>10, <3>1, <3>2
  <2> QED BY <1>2, <2>1 DEF Cash
<1> QED BY <1>2, <1>10, <1>11

(* Only the rows that are not cash of the till tell attributions apart.    *)
LEMMA SameAttribution ==
  ASSUME NEW S, NEW T, S \ Cash(S) = T \ Cash(T)
  PROVE  Attributed(S) = Attributed(T)
BY DEF Attributed

LEMMA AsSettled ==
  ASSUME MoneyTyped, ~Unproved, head.action # None, ChangeIsSmall(head.action)
  PROVE  /\ Attributed(lines \cup collected) = Attributed(LinesOf(head.action) \cup round)
         /\ Exact(lines, collected) = Exact(LinesOf(head.action), round)
<1> DEFINE till == LinesOf(head.action)
<1>1. collected = round /\ lines \ Cash(lines) = till \ Cash(till)
  BY NothingIsMissing
<1>2. (lines \cup collected) \ Cash(lines \cup collected) = (till \cup round) \ Cash(till \cup round)
  BY <1>1 DEF Cash
<1>3. Exact(lines, collected) = Exact(till, round)
  BY <1>1 DEF Exact
<1> HIDE DEF till
<1>4. Attributed(lines \cup collected) = Attributed(till \cup round)
  BY <1>2, SameAttribution
<1> QED BY <1>3, <1>4 DEF till

(* All that the till and the courier settled, under the header that rolls  *)
(* it up, is proved.                                                       *)
LEMMA AllIsProved ==
  ASSUME MoneyTyped, head.action # None, configured,
         lines \cup collected = LinesOf(head.action) \cup round,
         head.method = RolledUp(Methods(LinesOf(head.action) \cup round))
  PROVE  ~Unproved /\ lines \cup collected # {}
<1> DEFINE a == head.action  till == LinesOf(a)  all == lines \cup collected  ms == Methods(all)
<1>1. a \in Actions /\ ActionOf(a) = a /\ Pays(till, round)
  BY DEF MoneyTyped, ActionOf
<1>2. /\ IsFiniteSet(till) /\ till \subseteq Line
      /\ Cardinality(till) = Len(plan[a].till)
      /\ {l.index : l \in till} = 0..(Len(plan[a].till) - 1)
      /\ \A l \in till : l.by = a
  BY <1>1, LinesTyped DEF MoneyTyped
<1>3. /\ IsFiniteSet(round) /\ round \subseteq DoorRow /\ lines \subseteq Line /\ collected \subseteq DoorRow
      /\ IsFiniteSet(all) /\ \A r \in all : r.amount \in Nat
  BY RowsTyped
<1>4. lines = till /\ collected = round
  BY <1>2, <1>3, NoLineIsADoorRow
<1>5. Worth(all) = Worth(till) + Worth(round) /\ Worth(till) \in Nat /\ Worth(round) \in Nat
  <2>1. till \cap round = {} /\ all = till \cup round
    BY <1>2, <1>3, <1>4, NoLineIsADoorRow
  <2>2. (\A r \in till : r.amount \in Nat) /\ (\A r \in round : r.amount \in Nat)
    BY <1>3, <1>4
  <2> HIDE DEF till, all
  <2> QED BY <1>2, <1>3, <2>1, <2>2, WorthUnion, WorthInNat
<1>6. Worth(till) = Worth(till \ Cash(till)) + Worth(Cash(till)) /\ Worth(till \ Cash(till)) \in Nat
  <2>1. (\A r \in till : r.amount \in Nat) /\ till \ Cash(till) \in SUBSET till
        /\ till \ (till \ Cash(till)) = Cash(till)
    BY <1>3, <1>4 DEF Cash
  <2>2. /\ Worth(till) = Worth(till \ Cash(till)) + Worth(till \ (till \ Cash(till)))
        /\ Worth(till \ Cash(till)) \in Nat
    <3> HIDE DEF till
    <3> QED BY <1>2, <2>1, WorthParts
  <2> QED BY <2>1, <2>2
<1>7. Worth(all) >= Total /\ Exact(till, round) <= Total
  <2>1. CASE Cash(till) = {}
    <3>1. Worth(Cash(till)) = 0
      BY <2>1, WorthEmpty
    <3> HIDE DEF till
    <3> QED BY <1>1, <1>5, <1>6, <2>1, <3>1, MoneyAssumption DEF Pays, Exact
  <2>2. CASE Cash(till) # {}
    <3> HIDE DEF till
    <3> QED BY <1>1, <1>5, <1>6, <2>2 DEF Pays
  <2> QED BY <2>1, <2>2
<1>8. all # {}
  <2>1. Worth(all) # 0
    <3> HIDE DEF all, till
    <3> QED BY <1>5, <1>7, MoneyAssumption
  <2> QED BY <2>1, WorthEmpty
<1>9. ms \subseteq Known /\ Known = Concrete
  BY DEF Methods, MoneyTyped, Known, Concrete
<1>10. Covered
  <2>1. Cash(all) \subseteq all
    BY DEF Cash
  <2>2. /\ Worth(all) = Worth(Cash(all)) + Worth(all \ Cash(all))
        /\ Worth(Cash(all)) \in Nat /\ Worth(all \ Cash(all)) \in Nat
    <3> HIDE DEF all
    <3> QED BY <1>3, <2>1, WorthParts
  <2>3. Worth(Cash(all)) >= Total - Worth(all \ Cash(all))
    <3> HIDE DEF all, till
    <3> QED BY <1>7, <1>5, <2>2, MoneyAssumption
  <2>4. Exact(lines, collected) <= Total
    BY <1>4, <1>7
  <2> QED BY <1>9, <2>3, <2>4 DEF Covered
<1>11. IsFiniteSet(ms) /\ ms # {}
  <2> DEFINE f == [r \in all |-> r.method]
  <2>1. f \in Surjection(all, ms)
    BY DEF Surjection, Methods
  <2>2. ms # {}
    BY <1>8 DEF Methods
  <2> HIDE DEF f, ms, all
  <2> QED BY <1>3, <2>1, <2>2, FS_Surjection
<1>12. IF head.method = "MIXED" THEN Cardinality(ms) >= 2 ELSE ms = {head.method}
  <2>1. head.method = RolledUp(ms)
    OBVIOUS
  <2>2. "MIXED" \notin ms
    BY <1>9, MoneyAssumption DEF Known
  <2> HIDE DEF ms
  <2>3. Cardinality(ms) \in Nat /\ Cardinality(ms) # 0
    BY <1>11, FS_EmptySet, FS_CardinalityType
  <2>4. CASE Cardinality(ms) = 1
    <3>1. PICK m : ms = {m}
      BY <1>11, <2>4, FS_Singleton
    <3>2. head.method = m
      BY <2>1, <2>4, <3>1 DEF RolledUp
    <3> QED BY <2>2, <3>1, <3>2
  <2>5. CASE Cardinality(ms) # 1
    BY <2>1, <2>3, <2>5 DEF RolledUp
  <2> QED BY <2>4, <2>5
<1>13. Evidenced
  <2>1. \A l \in lines : ActionOf(l.by) = head.action
    BY <1>1, <1>2, <1>4
  <2>2. {l.index : l \in lines} = 0..(Cardinality(lines) - 1)
    BY <1>2, <1>4
  <2> QED BY <1>8, <1>12, <2>1, <2>2 DEF Evidenced
<1> QED BY <1>8, <1>10, <1>13 DEF Unproved

LEMMA TenderIsRight == MoneyTyped => TenderRight
<1> SUFFICES ASSUME MoneyTyped PROVE TenderRight
  OBVIOUS
<1>1. SumFunctionOnSet(Split, Buckets) = Total
  BY SplitSums
<1>2. ASSUME NEW a \in Actions, head.action = a, ChangeIsSmall(a)
      PROVE  LET settled == LinesOf(a) \cup round
             IN /\ Split \in {AllTo("unknown"), Attributed(settled)}
                /\ (lines \cup collected = settled /\ head.method = RolledUp(Methods(settled))
                      /\ configured) => Split = Attributed(settled)
  <2>1. head.action # None
    BY <1>2, MoneyAssumption
  <2>2. CASE Unproved
    <3>1. Split = AllTo("unknown")
      BY <2>2 DEF Split
    <3> QED BY <1>2, <2>1, <2>2, <3>1, AllIsProved
  <2>3. CASE ~Unproved
    <3>1. Split = Attributed(lines \cup collected)
      BY <2>1, <2>3, SplitIs
    <3> QED BY <1>2, <2>1, <2>3, <3>1, AsSettled
  <2> QED BY <2>2, <2>3
<1> QED BY <1>1, <1>2 DEF TenderRight

LEMMA SettledIsTyped ==
  ASSUME MoneyTyped, NEW a \in Actions
  PROVE  Exact(LinesOf(a), round) \in Nat /\ Exact(LinesOf(a), round) <= Total
<1> DEFINE till == LinesOf(a)
<1>1. Pays(till, round)
  BY DEF MoneyTyped
<1>2. IsFiniteSet(till) /\ till \subseteq Line /\ till \ Cash(till) \in SUBSET till
  BY LinesTyped DEF MoneyTyped
<1>3. (\A r \in till : r.amount \in Nat) /\ IsFiniteSet(round) /\ (\A r \in round : r.amount \in Nat)
  BY <1>2, RowsTyped DEF Line
<1> HIDE DEF till
<1>4. Worth(till \ Cash(till)) \in Nat /\ Worth(round) \in Nat
  BY <1>2, <1>3, WorthParts, WorthInNat
<1> QED BY <1>1, <1>4 DEF Pays, Exact, till

(* What the drawer may give back is cash it kept.                          *)
LEMMA DrawerIsCash ==
  ASSUME MoneyTyped
  PROVE  /\ DrawerCash \in Int
         /\ head.action # None /\ ChangeIsSmall(head.action) =>
              DrawerCash <= Total - Exact(LinesOf(head.action), round)
<1> DEFINE due == Total - Exact(lines, collected)
<1>1. Exact(lines, collected) \in Nat /\ Worth(Cash(lines)) \in Nat
  <2>1. /\ lines \ Cash(lines) \in SUBSET lines /\ Cash(lines) \in SUBSET lines
    BY DEF Cash
  <2>2. (\A r \in lines : r.amount \in Nat) /\ (\A r \in collected : r.amount \in Nat)
        /\ IsFiniteSet(lines) /\ IsFiniteSet(collected)
    BY RowsTyped
  <2>3. Worth(lines \ Cash(lines)) \in Nat /\ Worth(Cash(lines)) \in Nat
    BY <2>1, <2>2, WorthParts
  <2>4. Worth(collected) \in Nat
    BY <2>2, WorthInNat
  <2> QED BY <2>3, <2>4 DEF Exact
<1>2. Split["cash"] \in Int /\ Split["unknown"] \in Int
  BY SplitSums DEF Buckets
<1>3. DrawerCash \in Int
  BY <1>1, <1>2, MoneyAssumption DEF DrawerCash, Least
<1>4. ASSUME head.action # None, ChangeIsSmall(head.action)
      PROVE  DrawerCash <= Total - Exact(LinesOf(head.action), round)
  <2>1. Exact(LinesOf(head.action), round) <= Total /\ Exact(LinesOf(head.action), round) \in Nat
    <3>1. head.action \in Actions
      BY <1>4 DEF MoneyTyped
    <3> QED BY <3>1, SettledIsTyped
  <2>2. CASE Unproved
    <3>1. Split = AllTo("unknown")
      BY <2>2 DEF Split
    <3>2. Split["unknown"] > 0
      BY <3>1, MoneyAssumption DEF AllTo, Buckets
    <3> QED BY <2>1, <3>2, MoneyAssumption DEF DrawerCash
  <2>3. CASE ~Unproved
    <3>1. lines \cup collected # {} /\ Split = Attributed(lines \cup collected)
      BY <1>4, <2>3, SplitIs
    <3>2. Split["unknown"] = 0
      BY <3>1, RowsTyped, AttributedSums
    <3>3. due = Total - Exact(LinesOf(head.action), round) /\ due >= 0 /\ due \in Int
      BY <1>4, <2>1, <2>3, AsSettled, MoneyAssumption
    <3>4. DrawerCash = Least(Split["cash"], Least(Worth(Cash(lines)), IF due > 0 THEN due ELSE 0))
      BY <3>1, <3>2 DEF DrawerCash
    <3> HIDE DEF due
    <3>5. DrawerCash <= due
      BY <1>1, <1>2, <3>3, <3>4 DEF Least
    <3> QED BY <3>3, <3>5
  <2> QED BY <2>2, <2>3
<1> QED BY <1>3, <1>4

-----------------------------------------------------------------------------
(* Refunds.  What was returned is the sum of what was returned of each     *)
(* tender, which is why a cancellation that takes what is left of each     *)
(* takes what is left of the order.                                        *)

RefundInv ==
  /\ IsFiniteSet(refunds)
  /\ \A r \in refunds : r.amount \in Nat /\ r.drawer \in Nat /\ \A b \in Buckets : r.split[b] \in Int
  /\ ReturnedInAll = Returned("cash") + Returned("card") + Returned("payme") + Returned("unknown")
  /\ RefundedOnce

MoneyInv == MoneyTyped /\ RefundInv

LEMMA ReturnedTyped ==
  ASSUME RefundInv
  PROVE  /\ ReturnedInAll \in Nat /\ ReturnedDrawer \in Nat
         /\ \A b \in Buckets : Returned(b) \in Int
<1>1. ReturnedInAll \in Nat
  BY WorthInNat DEF RefundInv, ReturnedInAll
<1>2. ReturnedDrawer \in Nat
  <2> DEFINE f == [r \in refunds |-> r.drawer]
  <2>1. IsFiniteSet(refunds) /\ \A r \in refunds : f[r] \in Nat
    BY DEF RefundInv
  <2> HIDE DEF f
  <2>2. SumFunctionOnSet(f, refunds) \in Nat
    BY <2>1, SumNat
  <2> QED BY <2>2 DEF ReturnedDrawer, f
<1>3. ASSUME NEW b \in Buckets PROVE Returned(b) \in Int
  <2> DEFINE f == [r \in refunds |-> r.split[b]]
  <2>1. IsFiniteSet(refunds) /\ \A r \in refunds : f[r] \in Int
    BY DEF RefundInv
  <2> HIDE DEF f
  <2>2. SumFunctionOnSet(f, refunds) \in Int
    BY <2>1, SumInt
  <2> QED BY <2>2 DEF Returned, f
<1> QED BY <1>1, <1>2, <1>3

(* One more refund.                                                        *)
LEMMA RefundAdds ==
  ASSUME RefundInv, NEW x, x \notin refunds, refunds' = refunds \cup {x},
         x.amount \in Nat, \A b \in Buckets : x.split[b] \in Int
  PROVE  /\ IsFiniteSet(refunds')
         /\ ReturnedInAll' = x.amount + ReturnedInAll
         /\ \A b \in Buckets : Returned(b)' = x.split[b] + Returned(b)
<1>1. IsFiniteSet(refunds) /\ IsFiniteSet(refunds')
  BY FS_AddElement DEF RefundInv
<1>2. ReturnedInAll' = x.amount + ReturnedInAll
  <2> DEFINE f == [r \in refunds |-> r.amount]  g == [r \in refunds \cup {x} |-> r.amount]
  <2>1. (\A y \in refunds : g[y] = f[y]) /\ (\A y \in refunds \cup {x} : g[y] \in Int) /\ g[x] = x.amount
    BY DEF RefundInv
  <2> HIDE DEF f, g
  <2>2. SumFunctionOnSet(g, refunds \cup {x}) = g[x] + SumFunctionOnSet(f, refunds)
    BY <1>1, <2>1, SumGrows
  <2>3. ReturnedInAll = SumFunctionOnSet(f, refunds) /\ ReturnedInAll' = SumFunctionOnSet(g, refunds \cup {x})
    BY DEF ReturnedInAll, Worth, f, g
  <2> QED BY <2>1, <2>2, <2>3
<1>3. ASSUME NEW b \in Buckets PROVE Returned(b)' = x.split[b] + Returned(b)
  <2> DEFINE f == [r \in refunds |-> r.split[b]]  g == [r \in refunds \cup {x} |-> r.split[b]]
  <2>1. (\A y \in refunds : g[y] = f[y]) /\ (\A y \in refunds \cup {x} : g[y] \in Int) /\ g[x] = x.split[b]
    BY DEF RefundInv
  <2> HIDE DEF f, g
  <2>2. SumFunctionOnSet(g, refunds \cup {x}) = g[x] + SumFunctionOnSet(f, refunds)
    BY <1>1, <2>1, SumGrows
  <2>3. Returned(b) = SumFunctionOnSet(f, refunds) /\ Returned(b)' = SumFunctionOnSet(g, refunds \cup {x})
    BY DEF Returned, f, g
  <2> QED BY <2>1, <2>2, <2>3
<1> QED BY <1>1, <1>2, <1>3

(* What a till put in the drawer is decided by what was settled.           *)
LEMMA SettledForGood ==
  ASSUME UNCHANGED <<plan, round>>
  PROVE  /\ \A a : LinesOf(a)' = LinesOf(a)
         /\ \A a : ChangeIsSmall(a)' = ChangeIsSmall(a)
         /\ \A a : Exact(LinesOf(a), round)' = Exact(LinesOf(a), round)
<1>1. \A a : LinesOf(a)' = LinesOf(a)
  BY DEF LinesOf
<1>2. ASSUME NEW a PROVE ChangeIsSmall(a)' = ChangeIsSmall(a)
  BY <1>1 DEF ChangeIsSmall, Worth, Cash
<1>3. ASSUME NEW a PROVE Exact(LinesOf(a), round)' = Exact(LinesOf(a), round)
  BY <1>1 DEF Exact, Worth, Cash
<1> QED BY <1>1, <1>2, <1>3

(* It keeps the invariant when it takes no more than is left, all of it if *)
(* it cancels, and no more out of the drawer than its till put there.      *)
LEMMA OneMoreRefund ==
  ASSUME RefundInv, NEW x, x \notin refunds, refunds' = refunds \cup {x},
         UNCHANGED <<plan, round>>,
         x.amount \in Nat, x.drawer \in Nat, \A b \in Buckets : x.split[b] \in Int,
         x.amount = x.split["cash"] + x.split["card"] + x.split["payme"] + x.split["unknown"],
         x.amount <= Total - ReturnedInAll,
         x.id = "cancel" => x.amount = Total - ReturnedInAll,
         x.under \in Actions /\ ChangeIsSmall(x.under) =>
           x.drawer <= Total - Exact(LinesOf(x.under), round)
  PROVE  RefundInv'
<1>1. /\ IsFiniteSet(refunds')
      /\ ReturnedInAll' = x.amount + ReturnedInAll
      /\ \A b \in Buckets : Returned(b)' = x.split[b] + Returned(b)
  BY RefundAdds
<1>2. ReturnedInAll \in Nat /\ \A b \in Buckets : Returned(b) \in Int
  BY ReturnedTyped
<1>3. ReturnedInAll' = Returned("cash")' + Returned("card")' + Returned("payme")' + Returned("unknown")'
  <2> DEFINE all == ReturnedInAll  c == Returned("cash")  d == Returned("card")
             p == Returned("payme")  u == Returned("unknown")
             xc == x.split["cash"]  xd == x.split["card"]  xp == x.split["payme"]  xu == x.split["unknown"]
  <2>1. all = c + d + p + u /\ x.amount = xc + xd + xp + xu
    BY DEF RefundInv
  <2>2. c \in Int /\ d \in Int /\ p \in Int /\ u \in Int
    BY <1>2 DEF Buckets
  <2>3. xc \in Int /\ xd \in Int /\ xp \in Int /\ xu \in Int
    BY DEF Buckets
  <2>4. ReturnedInAll' = x.amount + all
    BY <1>1
  <2>5. /\ Returned("cash")' = xc + c /\ Returned("card")' = xd + d
        /\ Returned("payme")' = xp + p /\ Returned("unknown")' = xu + u
    BY <1>1 DEF Buckets
  <2> HIDE DEF all, c, d, p, u, xc, xd, xp, xu
  <2>6. x.amount + all = (xc + c) + (xd + d) + (xp + p) + (xu + u)
    BY <2>1, <2>2, <2>3
  <2> QED BY <2>4, <2>5, <2>6
<1>4. RefundedOnce'
  <2>1. ReturnedInAll' <= Total
    BY <1>1, <1>2, MoneyAssumption
  <2>2. ASSUME NEW r \in refunds', r.id = "cancel" PROVE ReturnedInAll' = Total
    <3>1. CASE r = x
      BY <1>1, <1>2, <2>2, <3>1, MoneyAssumption
    <3>2. CASE r \in refunds
      <4>1. ReturnedInAll = Total
        BY <2>2, <3>2 DEF RefundInv, RefundedOnce
      <4> QED BY <1>1, <1>2, <4>1, MoneyAssumption
    <3> QED BY <3>1, <3>2
  <2>3. ASSUME NEW r \in refunds', r.under \in Actions, ChangeIsSmall(r.under)
        PROVE  r.drawer <= Total - Exact(LinesOf(r.under), round)
    BY <2>3 DEF RefundInv, RefundedOnce
  <2> QED BY <2>1, <2>2, <2>3, SettledForGood DEF RefundedOnce
<1> QED BY <1>1, <1>3, <1>4 DEF RefundInv

LEMMA RefundsKept ==
  ASSUME RefundInv, UNCHANGED <<plan, round, refunds>>
  PROVE  RefundInv'
<1>1. ReturnedInAll' = ReturnedInAll /\ \A b : Returned(b)' = Returned(b)
  BY DEF ReturnedInAll, Worth, Returned
<1> QED BY <1>1, SettledForGood DEF RefundInv, RefundedOnce

-----------------------------------------------------------------------------
(* The steps.                                                              *)

LEMMA RolledUpTyped ==
  ASSUME NEW ms, ms \subseteq STRING
  PROVE  RolledUp(ms) \in Word
<1>1. CASE Cardinality(ms) = 1
  <2>1. RolledUp(ms) = CHOOSE m \in ms : TRUE
    BY <1>1 DEF RolledUp
  <2>2. ms # {}
    BY <1>1, FS_EmptySet
  <2> QED BY <2>1, <2>2 DEF Word
<1>2. CASE Cardinality(ms) # 1
  <2>1. RolledUp(ms) = "MIXED"
    BY <1>2 DEF RolledUp
  <2> QED BY <2>1 DEF Word
<1> QED BY <1>1, <1>2

LEMMA MoneyInitial == MoneyInit => MoneyInv
<1> SUFFICES ASSUME MoneyInit PROVE MoneyInv
  OBVIOUS
<1>1. MoneyTyped
  <2>1. lines = {} /\ collected = {} /\ IsFiniteSet(lines)
    BY FS_EmptySet DEF MoneyInit
  <2>2. head \in [paid : BOOLEAN, method : Word, action : Actions \cup {None}, canceled : BOOLEAN]
    BY DEF MoneyInit, Word
  <2>3. head.action = None /\ configured \in BOOLEAN
    BY DEF MoneyInit
  <2>4. plan \in [Actions -> Plans] /\ round \in Rounds /\ \A a \in Actions : Pays(LinesOf(a), round)
    BY DEF MoneyInit
  <2> QED BY <2>1, <2>2, <2>3, <2>4 DEF MoneyTyped
<1>2. RefundInv
  <2>1. refunds = {} /\ IsFiniteSet(refunds)
    BY FS_EmptySet DEF MoneyInit
  <2>2. ReturnedInAll = 0
    BY <2>1, WorthEmpty DEF ReturnedInAll
  <2>3. \A b : Returned(b) = 0
    BY <2>1, SumEmpty DEF Returned
  <2> QED BY <2>1, <2>2, <2>3, MoneyAssumption DEF RefundInv, RefundedOnce
<1> QED BY <1>1, <1>2 DEF MoneyInv

(* plan and round are what was settled, once and for all.                  *)
LEMMA PlansKept ==
  ASSUME MoneyTyped, UNCHANGED <<plan, round>>
  PROVE  /\ (plan \in [Actions -> Plans] /\ round \in Rounds)'
         /\ (\A a \in Actions : Pays(LinesOf(a), round))'
         /\ \A a : LinesOf(a)' = LinesOf(a)
<1>1. (\A a : LinesOf(a)' = LinesOf(a)) /\ (\A S, T : Pays(S, T)' = Pays(S, T))
  BY DEF LinesOf, Pays, Exact, Worth, Cash
<1> QED BY <1>1 DEF MoneyTyped

LEMMA LineKeeps ==
  ASSUME MoneyInv, NEW a \in Actions, AcceptLine(a)
  PROVE  MoneyInv'
<1>1. PICK l \in LinesOf(a) \ lines :
        /\ l.method \in Concrete
        /\ lines' = lines \cup {l}
        /\ UNCHANGED <<plan, round, collected, head, configured, refunds>>
  BY DEF AcceptLine
<1>2. IsFiniteSet(lines')
  BY <1>1, FS_AddElement DEF MoneyInv, MoneyTyped
<1>3. l.method \in Known
  BY <1>1 DEF Concrete, Known
<1>4. lines' \subseteq (UNION {LinesOf(b) : b \in Actions})'
  BY <1>1, PlansKept DEF MoneyInv, MoneyTyped
<1>5. MoneyTyped'
  BY <1>1, <1>2, <1>3, <1>4, PlansKept DEF MoneyInv, MoneyTyped
<1> QED BY <1>1, <1>5, RefundsKept DEF MoneyInv

LEMMA CollectionKeeps ==
  ASSUME MoneyInv, AcceptCollection
  PROVE  MoneyInv'
<1>1. PICK r \in round \ collected :
        /\ r.method \in Concrete
        /\ collected' = collected \cup {r}
        /\ UNCHANGED <<plan, round, lines, head, configured, refunds>>
  BY DEF AcceptCollection
<1>2. r.method \in Known
  BY <1>1 DEF Concrete, Known
<1>3. lines' \subseteq (UNION {LinesOf(b) : b \in Actions})'
  BY <1>1, PlansKept DEF MoneyInv, MoneyTyped
<1>4. MoneyTyped'
  BY <1>1, <1>2, <1>3, PlansKept DEF MoneyInv, MoneyTyped
<1> QED BY <1>1, <1>4, RefundsKept DEF MoneyInv

(* A new header that is well typed and names an action that is named.      *)
LEMMA HeadChanges ==
  ASSUME MoneyInv, UNCHANGED <<plan, round, lines, collected, configured, refunds>>,
         head' \in [paid : BOOLEAN, method : Word, action : Actions \cup {None}, canceled : BOOLEAN],
         head'.action # None => plan[head'.action].named
  PROVE  MoneyInv'
<1>1. lines' \subseteq (UNION {LinesOf(b) : b \in Actions})'
  BY PlansKept DEF MoneyInv, MoneyTyped
<1>2. MoneyTyped'
  BY <1>1, PlansKept DEF MoneyInv, MoneyTyped
<1> QED BY <1>2, RefundsKept DEF MoneyInv

LEMMA HeaderKeeps ==
  ASSUME MoneyInv, NEW a \in Actions, AcceptHeader(a)
  PROVE  MoneyInv'
<1> DEFINE ms == Methods(LinesOf(a) \cup round)
           method == IF head.paid THEN head.method ELSE RolledUp(ms)
           action == IF head.action = None THEN ActionOf(a) ELSE head.action
<1>1. ms \subseteq STRING
  <2>1. LinesOf(a) \subseteq Line /\ round \subseteq DoorRow
    BY LinesTyped, RowsTyped DEF MoneyInv, MoneyTyped
  <2> QED BY <2>1 DEF Methods, Line, DoorRow
<1>2. method \in Word
  <2> HIDE DEF ms
  <2> QED BY <1>1, RolledUpTyped DEF MoneyInv, MoneyTyped
<1>3. action \in Actions \cup {None} /\ (action # None => plan[action].named)
  BY DEF MoneyInv, MoneyTyped, ActionOf
<1>4. head' = [head EXCEPT !.paid = TRUE, !.method = method, !.action = action]
  BY DEF AcceptHeader
<1> HIDE DEF method, action
<1>5. head' \in [paid : BOOLEAN, method : Word, action : Actions \cup {None}, canceled : BOOLEAN]
      /\ head'.action = action
  BY <1>2, <1>3, <1>4 DEF MoneyInv, MoneyTyped
<1> QED BY <1>3, <1>5, HeadChanges DEF AcceptHeader

LEMMA RepairKeeps ==
  ASSUME MoneyInv, RepairHeader
  PROVE  MoneyInv'
<1> DEFINE ms == Methods(lines \cup collected)
           action == IF Named = {} THEN head.action ELSE CHOOSE a \in Named : TRUE
<1>1. ms \subseteq STRING
  <2>1. lines \subseteq Line /\ collected \subseteq DoorRow
    BY RowsTyped DEF MoneyInv
  <2> QED BY <2>1 DEF Methods, Line, DoorRow
<1>2. RolledUp(ms) \in Word
  BY <1>1, RolledUpTyped
<1>3. action \in Actions \cup {None} /\ (action # None => plan[action].named)
  <2>1. CASE Named = {}
    BY <2>1 DEF MoneyInv, MoneyTyped
  <2>2. CASE Named # {}
    <3>1. action \in Named
      BY <2>2
    <3>2. PICK l \in lines : action = ActionOf(l.by) /\ ActionOf(l.by) # None
      BY <3>1 DEF Named, Anonymous
    <3>3. l.by \in Actions
      BY RowsTyped DEF MoneyInv, Line
    <3> QED BY <3>2, <3>3 DEF ActionOf
  <2> QED BY <2>1, <2>2
<1>4. head' = [head EXCEPT !.paid = TRUE, !.method = RolledUp(ms), !.action = action]
  BY DEF RepairHeader
<1> HIDE DEF ms, action
<1>5. head' \in [paid : BOOLEAN, method : Word, action : Actions \cup {None}, canceled : BOOLEAN]
      /\ head'.action = action
  BY <1>2, <1>3, <1>4 DEF MoneyInv, MoneyTyped
<1> QED BY <1>3, <1>5, HeadChanges DEF RepairHeader

(* What is left of the tenders is what is left of the order.               *)
LEMMA LeftIs ==
  ASSUME MoneyInv
  PROVE  /\ Left = Total - ReturnedInAll /\ Left \in Int
         /\ Left = Remaining["cash"] + Remaining["card"] + Remaining["payme"] + Remaining["unknown"]
         /\ \A b \in Buckets : Remaining[b] \in Int
<1> DEFINE S == Split  R == Remaining
<1>1. (\A b \in Buckets : S[b] \in Int) /\ SumFunctionOnSet(S, Buckets) = Total
  BY SplitSums DEF MoneyInv
<1>2. (\A b \in Buckets : Returned(b) \in Int) /\ ReturnedInAll \in Nat
  BY ReturnedTyped DEF MoneyInv
<1>3. \A b \in Buckets : R[b] = S[b] - Returned(b)
  BY DEF Remaining, Prior
<1> HIDE DEF S, R
<1>4. \A b \in Buckets : R[b] \in Int
  BY <1>1, <1>2, <1>3
<1>5. Total = S["cash"] + S["card"] + S["payme"] + S["unknown"]
  BY <1>1, FourBuckets
<1>6. SumFunctionOnSet(R, Buckets) = R["cash"] + R["card"] + R["payme"] + R["unknown"]
  BY <1>4, FourBuckets
<1>7. ReturnedInAll = Returned("cash") + Returned("card") + Returned("payme") + Returned("unknown")
  BY DEF MoneyInv, RefundInv
<1>8. R["cash"] + R["card"] + R["payme"] + R["unknown"] = Total - ReturnedInAll
  <2>1. \A b \in {"cash", "card", "payme", "unknown"} :
          S[b] \in Int /\ Returned(b) \in Int /\ R[b] = S[b] - Returned(b)
    BY <1>1, <1>2, <1>3 DEF Buckets
  <2> QED BY <1>5, <1>7, <2>1
<1> QED BY <1>2, <1>4, <1>6, <1>8, MoneyAssumption DEF Left, R

LEMMA CancelKeeps ==
  ASSUME MoneyInv, Cancel
  PROVE  MoneyInv'
<1>1. head' = [head EXCEPT !.canceled = TRUE]
      /\ UNCHANGED <<plan, round, lines, collected, configured>>
  BY DEF Cancel
<1>2. head' \in [paid : BOOLEAN, method : Word, action : Actions \cup {None}, canceled : BOOLEAN]
      /\ head'.action = head.action
  BY <1>1 DEF MoneyInv, MoneyTyped
<1>3. CASE refunds' = refunds
  BY <1>1, <1>2, <1>3, HeadChanges DEF MoneyInv, MoneyTyped
<1>4. CASE Left > 0 /\ Reconciles /\ refunds' = refunds \cup {CancelRefund}
  <2> DEFINE x == CancelRefund
  <2>1. /\ x.id = "cancel" /\ x.amount = Left /\ x.split = Remaining
        /\ x.drawer = DrawerCash - ReturnedDrawer /\ x.under = head.action
    BY DEF CancelRefund
  <2> HIDE DEF x
  <2>2. x \notin refunds
    BY <2>1 DEF Cancel
  <2>3. x.amount \in Nat /\ x.amount = Total - ReturnedInAll /\ x.amount <= Total - ReturnedInAll
    BY <1>4, <2>1, LeftIs, ReturnedTyped, MoneyAssumption DEF MoneyInv
  <2>4. /\ \A b \in Buckets : x.split[b] \in Int
        /\ x.amount = x.split["cash"] + x.split["card"] + x.split["payme"] + x.split["unknown"]
    BY <2>1, LeftIs
  <2>5. ReturnedDrawer \in Nat /\ DrawerCash \in Int /\ DrawerCash >= ReturnedDrawer
    BY <1>4, ReturnedTyped, DrawerIsCash DEF MoneyInv, Reconciles
  <2>6. x.drawer \in Nat /\ x.drawer <= DrawerCash
    BY <2>1, <2>5
  <2>7. ASSUME x.under \in Actions, ChangeIsSmall(x.under)
        PROVE  x.drawer <= Total - Exact(LinesOf(x.under), round)
    <3>1. head.action # None /\ ChangeIsSmall(head.action)
      BY <2>1, <2>7, MoneyAssumption
    <3>2. DrawerCash <= Total - Exact(LinesOf(head.action), round)
      BY <3>1, DrawerIsCash DEF MoneyInv
    <3>3. Exact(LinesOf(head.action), round) \in Int
      BY <2>1, <2>7, SettledIsTyped DEF MoneyInv
    <3> QED BY <2>1, <2>5, <2>6, <3>2, <3>3, MoneyAssumption
  <2>8. RefundInv'
    BY <1>1, <1>4, <2>2, <2>3, <2>4, <2>6, <2>7, OneMoreRefund DEF MoneyInv, x
  <2>9. lines' \subseteq (UNION {LinesOf(b) : b \in Actions})'
    BY <1>1, PlansKept DEF MoneyInv, MoneyTyped
  <2>10. MoneyTyped'
    BY <1>1, <1>2, <2>9, PlansKept DEF MoneyInv, MoneyTyped
  <2> QED BY <2>8, <2>10 DEF MoneyInv
<1> QED BY <1>3, <1>4 DEF Cancel

LEMMA ProviderKeeps ==
  ASSUME MoneyInv, NEW e \in Events, RefundByProvider(e)
  PROVE  MoneyInv'
<1> DEFINE split == [b \in Buckets |-> IF b = Bucket(e.method) THEN e.amount ELSE 0]
           detail == [m \in CardMethods |-> IF m = e.method THEN e.amount ELSE 0]
           x == [id |-> e.id, amount |-> e.amount, drawer |-> 0, under |-> head.action,
                 split |-> split, detail |-> detail]
<1>1. /\ x.id = e.id /\ x.amount = e.amount /\ x.drawer = 0 /\ x.under = head.action /\ x.split = split
      /\ refunds' = refunds \cup {x}
      /\ e.amount <= Total - ReturnedInAll
      /\ UNCHANGED <<plan, round, lines, collected, head, configured>>
  BY DEF RefundByProvider
<1>2. x \notin refunds
  BY <1>1 DEF RefundByProvider
<1>3. e.amount \in Nat /\ x.id # "cancel"
  BY <1>1, MoneyAssumption
<1>4. /\ \A b \in Buckets : split[b] \in Int
      /\ e.amount = split["cash"] + split["card"] + split["payme"] + split["unknown"]
  <2>1. Bucket(e.method) \in {"cash", "card", "payme"}
    BY DEF Bucket
  <2> QED BY <1>3, <2>1 DEF Buckets
<1> HIDE DEF x, split, detail
<1>5. ASSUME x.under \in Actions, ChangeIsSmall(x.under)
      PROVE  x.drawer <= Total - Exact(LinesOf(x.under), round)
  BY <1>1, <1>5, SettledIsTyped, MoneyAssumption DEF MoneyInv
<1>6. RefundInv'
  BY <1>1, <1>2, <1>3, <1>4, <1>5, OneMoreRefund DEF MoneyInv
<1>7. lines' \subseteq (UNION {LinesOf(b) : b \in Actions})'
  BY <1>1, PlansKept DEF MoneyInv, MoneyTyped
<1>8. MoneyTyped'
  BY <1>1, <1>7, PlansKept DEF MoneyInv, MoneyTyped
<1> QED BY <1>6, <1>8 DEF MoneyInv

LEMMA ConfigureKeeps ==
  ASSUME MoneyInv, Configure
  PROVE  MoneyInv'
<1>1. lines' \subseteq (UNION {LinesOf(b) : b \in Actions})'
  BY PlansKept DEF MoneyInv, MoneyTyped, Configure
<1>2. MoneyTyped'
  BY <1>1, PlansKept DEF MoneyInv, MoneyTyped, Configure
<1> QED BY <1>2, RefundsKept DEF MoneyInv, Configure

LEMMA MoneyStep == MoneyInv /\ [MoneyNext]_moneyVars => MoneyInv'
<1> SUFFICES ASSUME MoneyInv, [MoneyNext]_moneyVars PROVE MoneyInv'
  OBVIOUS
<1>1. CASE UNCHANGED moneyVars
  <2>1. head' = head /\ UNCHANGED <<plan, round, lines, collected, configured, refunds>>
    BY <1>1 DEF moneyVars
  <2> QED BY <2>1, HeadChanges DEF MoneyInv, MoneyTyped
<1>2. CASE MoneyNext
  BY <1>2, LineKeeps, HeaderKeeps, CollectionKeeps, RepairKeeps, ConfigureKeeps, CancelKeeps,
     ProviderKeeps DEF MoneyNext
<1> QED BY <1>1, <1>2

LEMMA MoneyInvariant == MoneySpec => []MoneyInv
BY MoneyInitial, MoneyStep, PTL DEF MoneySpec

(* However the rows of one or two checkouts, their headers, the repair and *)
(* refunds interleave, tender.py attributes an order that has an action as *)
(* its till settled it, or not at all, and the split adds up to the total: *)
(* for any plan of a checkout, any courier's round and any number of       *)
(* devices.                                                                *)
THEOREM SplitIsAsSettled == MoneySpec => []TenderRight
<1>1. MoneyInv => TenderRight
  BY TenderIsRight DEF MoneyInv
<1> QED BY <1>1, MoneyInvariant, PTL

(* order_refund.py never gives back more than the order cost, a            *)
(* cancellation gives back all that is left of it, and what the drawer     *)
(* pays is no more than the cash it kept.                                  *)
THEOREM ReturnedWithinPaid == MoneySpec => []RefundedOnce
<1>1. MoneyInv => RefundedOnce
  BY DEF MoneyInv, RefundInv
<1> QED BY <1>1, MoneyInvariant, PTL

-----------------------------------------------------------------------------
(* Discounts: the codes, their uses and the totals of the orders.          *)

CouponRows == [state : {"none", "live", "deleted"}, active : BOOLEAN, limit : Nat, count : Nat]
SaleRows == [status : {"OPEN", "CANCELED"}, paid : BOOLEAN, discount : Int, total : Int]
Editing == [Editors -> {NoEdit} \cup [code : Coupons, row : CouponRows]]

DiscountTyped ==
  /\ coupon \in [Coupons -> CouponRows]
  /\ sale \in [Sold -> SaleRows]
  /\ editing \in Editing
  /\ IsFiniteSet(applied)
  /\ \A a \in applied : a.order \in Sold /\ a.code \in Coupons /\ a.amount \in Nat

DiscountInv == DiscountTyped /\ Counted

LEMMA UnitsInt ==
  ASSUME NEW S, IsFiniteSet(S), \A i \in S : i.quantity \in Nat
  PROVE  Units(S) \in Int
<1> DEFINE f == [i \in S |-> i.quantity]
<1>1. \A i \in S : f[i] \in Int
  OBVIOUS
<1> HIDE DEF f
<1>2. SumFunctionOnSet(f, S) \in Int
  BY <1>1, SumInt
<1> QED BY <1>2 DEF f, Units

LEMMA SumOfInt ==
  ASSUME NEW S, IsFiniteSet(S), \A i \in S : i.price \in Nat /\ i.quantity \in Nat
  PROVE  SumOf(S) \in Int
<1> DEFINE f == [i \in S |-> i.price * i.quantity]
<1>1. \A i \in S : f[i] \in Int
  OBVIOUS
<1> HIDE DEF f
<1>2. SumFunctionOnSet(f, S) \in Int
  BY <1>1, SumInt
<1> QED BY <1>2 DEF f, SumOf

(* The lines of an order, and those a code is for, are finite sets of      *)
(* priced lines.                                                           *)
LEMMA LinesPriced ==
  ASSUME NEW o \in Sold, NEW S \in SUBSET Baskets[o]
  PROVE  IsFiniteSet(S) /\ \A i \in S : i.price \in Nat /\ i.quantity \in Nat
<1>1. IsFiniteSet(Baskets[o]) /\ \A i \in Baskets[o] : i.price \in Nat /\ i.quantity \in Nat
  BY DiscountAssumption
<1> QED BY <1>1, FS_Subset

LEMMA SubtotalInt ==
  ASSUME NEW o \in Sold
  PROVE  Subtotal(o) \in Int
<1>1. IsFiniteSet(Baskets[o]) /\ \A i \in Baskets[o] : i.price \in Nat /\ i.quantity \in Nat
  BY LinesPriced
<1> QED BY <1>1, SumOfInt DEF Subtotal

LEMMA SubtotalNat ==
  ASSUME NEW o \in Sold
  PROVE  Subtotal(o) \in Nat
<1> DEFINE S == Baskets[o]  f == [i \in S |-> i.price * i.quantity]
<1>1. IsFiniteSet(S) /\ \A i \in S : i.price \in Nat /\ i.quantity \in Nat
  BY LinesPriced
<1>2. \A i \in S : f[i] \in Nat
  BY <1>1
<1> HIDE DEF f
<1>3. SumFunctionOnSet(f, S) \in Nat
  BY <1>1, <1>2, SumNat
<1> QED BY <1>3 DEF f, SumOf, Subtotal

LEMMA ApplicablePart ==
  ASSUME NEW c, NEW o
  PROVE  Applicable(c, o) \subseteq Baskets[o]
BY DEF Applicable

LEMMA PercentInt ==
  ASSUME NEW c \in Coupons, NEW n \in Int
  PROVE  Percent(Codes[c], n) \in Int
<1>1. Codes[c].value \in Int /\ Codes[c].most \in Int
  BY DiscountAssumption
<1>2. (n * Codes[c].value) \div 100 \in Int
  BY <1>1
<1> QED BY <1>1, <1>2 DEF Percent, Smaller

LEMMA FreeInt ==
  ASSUME NEW c \in Coupons, Codes[c].buy > 0, NEW o \in Sold, NEW S \in SUBSET Baskets[o]
  PROVE  Free(Codes[c], S) \in Int
<1> DEFINE k == Codes[c]
           free == IF Units(S) < k.buy THEN 0 ELSE (Units(S) \div (k.buy + k.get)) * k.get
           Cheaper(i) == {j \in S : j.price < i.price \/ (j.price = i.price /\ j.product < i.product)}
           Off(i) == i.price * Smaller(AtLeastZero(free - Units(Cheaper(i))), i.quantity)
           f == [i \in S |-> Off(i)]
<1>1. IsFiniteSet(S) /\ \A i \in S : i.price \in Nat /\ i.quantity \in Nat
  BY LinesPriced
<1>2. free \in Int
  <2>1. k.buy \in Nat /\ k.get \in Nat /\ Units(S) \in Int
    BY <1>1, UnitsInt, DiscountAssumption
  <2>2. k.buy + k.get > 0 /\ k.buy + k.get \in Int
    BY <2>1
  <2>3. Units(S) \div (k.buy + k.get) \in Int
    BY <2>1, <2>2
  <2> QED BY <2>1, <2>3
<1> HIDE DEF k, free
<1>3. ASSUME NEW i \in S PROVE Off(i) \in Int
  <2>1. Units(Cheaper(i)) \in Int
    <3>1. Cheaper(i) \in SUBSET S
      OBVIOUS
    <3>2. IsFiniteSet(Cheaper(i)) /\ \A j \in Cheaper(i) : j.quantity \in Nat
      BY <3>1, <1>1, FS_Subset
    <3> QED BY <3>2, UnitsInt
  <2>2. Smaller(AtLeastZero(free - Units(Cheaper(i))), i.quantity) \in Int
    BY <2>1, <1>1, <1>2 DEF Smaller, AtLeastZero
  <2>3. i.price \in Int
    BY <1>1
  <2> QED BY <2>2, <2>3
<1>4. \A i \in S : f[i] \in Int
  BY <1>3
<1>5. Free(Codes[c], S) = SumFunctionOnSet(f, S)
  BY DEF Free, k, free
<1> HIDE DEF f
<1> QED BY <1>1, <1>4, <1>5, SumInt

(* Whatever its kind, a code gives a whole number.                         *)
LEMMA RuleInt ==
  ASSUME NEW c \in Coupons, NEW o \in Sold
  PROVE  Rule(c, o) \in Int /\ SumOf(Applicable(c, o)) \in Int
<1> DEFINE k == Codes[c]  S == Applicable(c, o)  gifts == {i \in Baskets[o] : i.product = k.gift}
<1>1. S \in SUBSET Baskets[o]
  BY ApplicablePart
<1>2. SumOf(S) \in Int
  BY <1>1, LinesPriced, SumOfInt
<1>3. k.value \in Int /\ k.buy \in Int
  BY DiscountAssumption
<1>4. Percent(k, SumOf(S)) \in Int
  BY <1>2, PercentInt
<1>5. k.buy > 0 => Free(k, S) \in Int
  BY <1>1, FreeInt
<1>6. gifts # {} => (CHOOSE i \in gifts : TRUE).price \in Int
  <2>1. \A i \in gifts : i.price \in Int
    BY DiscountAssumption
  <2> QED BY <2>1
<1>7. Smaller(k.value, SumOf(S)) \in Int
  BY <1>2, <1>3 DEF Smaller
<1> HIDE DEF S, gifts
<1>8. Rule(c, o) \in
        {Percent(k, SumOf(S)), Smaller(k.value, SumOf(S)), IF k.buy > 0 THEN Free(k, S) ELSE 0,
         IF gifts = {} THEN 0 ELSE (CHOOSE i \in gifts : TRUE).price}
  BY DEF Rule, S, gifts
<1> HIDE DEF k
<1> QED BY <1>2, <1>4, <1>5, <1>6, <1>7, <1>8 DEF S

-----------------------------------------------------------------------------
(* The amounts of an order's codes.                                        *)

LEMMA TakenIsWorth ==
  ASSUME NEW S
  PROVE  Taken(S) = Worth(S)
BY DEF Taken, Worth

LEMMA TakenAdds ==
  ASSUME NEW S, IsFiniteSet(S), NEW x, x \notin S, \A r \in S \cup {x} : r.amount \in Nat
  PROVE  Taken(S \cup {x}) = Taken(S) + x.amount /\ Taken(S) \in Nat
<1> DEFINE f == [r \in S \cup {x} |-> r.amount]  g == [r \in S |-> r.amount]
<1>1. (\A r \in S \cup {x} : f[r] \in Int) /\ f[x] = x.amount /\ \A r \in S : f[r] = g[r]
  OBVIOUS
<1> HIDE DEF f, g
<1>2. SumFunctionOnSet(f, S \cup {x}) = f[x] + SumFunctionOnSet(f, S)
  BY <1>1, SumAdds
<1>3. SumFunctionOnSet(f, S) = SumFunctionOnSet(g, S)
  BY <1>1, SumSame
<1>4. Taken(S) \in Nat
  BY WorthInNat, TakenIsWorth
<1>5. Taken(S \cup {x}) = SumFunctionOnSet(f, S \cup {x}) /\ Taken(S) = SumFunctionOnSet(g, S)
  BY DEF Taken, f, g
<1>6. x.amount \in Nat
  OBVIOUS
<1> QED BY <1>1, <1>2, <1>3, <1>4, <1>5, <1>6

LEMMA GivenTyped ==
  ASSUME DiscountTyped, NEW o
  PROVE  /\ IsFiniteSet(Given(o)) /\ \A r \in Given(o) : r.amount \in Nat
         /\ Taken(Given(o)) \in Nat
<1>1. IsFiniteSet(Given(o)) /\ \A r \in Given(o) : r.amount \in Nat
  BY FS_Subset DEF DiscountTyped, Given
<1> QED BY <1>1, WorthInNat, TakenIsWorth

LEMMA UsesTyped ==
  ASSUME DiscountTyped, NEW c, NEW u
  PROVE  /\ IsFiniteSet(Uses(c)) /\ IsFiniteSet({a \in Uses(c) : a.user = u})
         /\ Cardinality(Uses(c)) \in Nat /\ Cardinality({a \in Uses(c) : a.user = u}) \in Nat
BY FS_Subset, FS_CardinalityType DEF DiscountTyped, Uses

-----------------------------------------------------------------------------
(* The steps.                                                              *)

LEMMA Retotaling ==
  ASSUME NEW s \in [Sold -> SaleRows], NEW o \in Sold, NEW given \in Int, NEW total \in Int
  PROVE  [s EXCEPT ![o] = [@ EXCEPT !.discount = given, !.total = total]] \in [Sold -> SaleRows]
<1>1. [s[o] EXCEPT !.discount = given, !.total = total] \in SaleRows
  BY DEF SaleRows
<1> QED BY <1>1

LEMMA DiscountInitial == DiscountInit => DiscountInv
<1> SUFFICES ASSUME DiscountInit PROVE DiscountInv
  OBVIOUS
<1>1. DiscountTyped
  BY SubtotalInt, FS_EmptySet DEF DiscountInit, DiscountTyped, CouponRows, SaleRows, Editing
<1>2. ASSUME NEW c \in Coupons, NEW u
      PROVE  coupon[c].count = Cardinality(Uses(c)) /\ Cardinality({a \in Uses(c) : a.user = u}) = 0
  BY FS_EmptySet DEF DiscountInit, Uses
<1>3. ASSUME NEW o \in Sold
      PROVE  sale[o].total = Subtotal(o) - Taken(Given(o)) /\ sale[o].total >= 0 /\ Given(o) = {}
  <2>1. Given(o) = {} /\ sale[o].total = Subtotal(o)
    BY DEF DiscountInit, Given
  <2>2. Taken({}) = 0
    BY WorthEmpty, TakenIsWorth
  <2> QED BY <2>1, <2>2, SubtotalNat
<1>4. ASSUME NEW c \in Coupons, NEW u \in Users
      PROVE  Cardinality({a \in Uses(c) : a.user = u}) <= Codes[c].perUser
  <2>1. Codes[c].perUser \in Nat
    BY DiscountAssumption
  <2>2. {a \in Uses(c) : a.user = u} = {}
    BY DEF DiscountInit, Uses
  <2> QED BY <2>1, <2>2, FS_EmptySet
<1>5. \A o \in Sold : \A a, b \in Given(o) : a # b => Codes[a.code].stackable
  BY <1>3
<1>6. Counted
  BY <1>2, <1>3, <1>4, <1>5 DEF Counted
<1> QED BY <1>1, <1>6 DEF DiscountInv

(* What the step may not do to a paid order and to a limit.                *)
Steady == DiscountInv' /\ WithinLimits

(* A change of a code leaves its counter, or has put an earlier one back.  *)
LEMMA CodeEdited ==
  ASSUME DiscountInv, coupon' \in [Coupons -> CouponRows], editing' \in Editing,
         outdated \subseteq outdated',
         \A c \in Coupons \ outdated' : coupon'[c].count = coupon[c].count,
         UNCHANGED <<applied, sale>>
  PROVE  Steady
<1>1. DiscountTyped'
  BY DEF DiscountInv, DiscountTyped
<1>2. Counted'
  BY DEF DiscountInv, Counted, Uses, Given
<1>3. WithinLimits
  <2>1. \A c \in Coupons : coupon[c].count \in Int
    BY DEF DiscountInv, DiscountTyped, CouponRows
  <2> QED BY <2>1 DEF WithinLimits
<1> QED BY <1>1, <1>2, <1>3 DEF Steady, DiscountInv

(* So does a change of an order's status leave its total.                  *)
LEMMA StatusChanged ==
  ASSUME DiscountInv, sale' \in [Sold -> SaleRows],
         \A o \in Sold : sale'[o].total = sale[o].total,
         UNCHANGED <<applied, coupon, edits>>
  PROVE  Steady
<1>1. DiscountTyped'
  BY DEF DiscountInv, DiscountTyped, edits
<1>2. Counted'
  BY DEF DiscountInv, Counted, Uses, Given, edits
<1>3. WithinLimits
  <2>1. \A c \in Coupons : coupon[c].count \in Int
    BY DEF DiscountInv, DiscountTyped, CouponRows
  <2> QED BY <2>1 DEF WithinLimits
<1> QED BY <1>1, <1>2, <1>3 DEF Steady, DiscountInv

LEMMA Applying ==
  ASSUME DiscountInv, NEW c \in Coupons, NEW o \in Sold, NEW u \in Users, ApplyToOrder(c, o, u)
  PROVE  Steady
<1> DEFINE worth == CalculateDiscount(c, o)
           row == [order |-> o, code |-> c, user |-> u, amount |-> worth]
           due == Subtotal(o) - Taken(Given(o))
<1>1. DiscountTyped /\ Counted
  BY DEF DiscountInv
<1>2. Subtotal(o) \in Nat /\ Taken(Given(o)) \in Nat /\ due \in Int /\ due >= 0
  BY <1>1, SubtotalNat, GivenTyped DEF Counted
<1>3. worth \in Nat /\ worth <= due
  <2>1. AtLeastZero(due) = due
    BY <1>2 DEF AtLeastZero
  <2>2. worth = Smaller(Smaller(Rule(c, o), SumOf(Applicable(c, o))), AtLeastZero(due))
    BY DEF CalculateDiscount
  <2>3. Rule(c, o) \in Int /\ SumOf(Applicable(c, o)) \in Int
    BY RuleInt
  <2>4. worth > 0
    BY DEF ApplyToOrder
  <2> HIDE DEF worth, due
  <2> QED BY <1>2, <2>1, <2>2, <2>3, <2>4 DEF Smaller
<1> HIDE DEF worth
<1>4. /\ applied' = applied \cup {row}
      /\ coupon' = [coupon EXCEPT ![c].count = @ + 1]
      /\ sale' = Retotaled(o, applied')
      /\ ~sale[o].paid
      /\ UNCHANGED <<editing, outdated>>
  BY DEF ApplyToOrder, worth, edits
<1>5. Given(o) \cap Uses(c) = {}
  BY DEF ApplyToOrder, Combines
<1>6. row.order = o /\ row.code = c /\ row.user = u /\ row.amount = worth
  OBVIOUS
<1> HIDE DEF row
<1>7. row \notin applied /\ row \notin Given(o) /\ row \notin Uses(c)
  BY <1>5, <1>6 DEF Given, Uses
<1>8. /\ Given(o)' = Given(o) \cup {row}
      /\ \A p \in Sold \ {o} : Given(p)' = Given(p)
      /\ Uses(c)' = Uses(c) \cup {row}
      /\ \A d \in Coupons \ {c} : Uses(d)' = Uses(d)
  BY <1>4, <1>6 DEF Given, Uses
<1>9. Taken(Given(o)') = Taken(Given(o)) + worth
  <2>1. IsFiniteSet(Given(o)) /\ \A r \in Given(o) \cup {row} : r.amount \in Nat
    BY <1>1, <1>3, <1>6, GivenTyped
  <2>2. Taken(Given(o) \cup {row}) = Taken(Given(o)) + row.amount
    BY <2>1, <1>7, TakenAdds
  <2> QED BY <2>2, <1>6, <1>8
<1>10. sale' = [sale EXCEPT ![o] = [@ EXCEPT !.discount = Taken(Given(o)'),
                                             !.total = AtLeastZero(Subtotal(o) - Taken(Given(o)'))]]
  BY <1>4 DEF Retotaled, Given
<1>11. AtLeastZero(Subtotal(o) - Taken(Given(o)')) = due - worth /\ due - worth \in Nat
  BY <1>2, <1>3, <1>9 DEF AtLeastZero
<1>12. /\ sale'[o].total = Subtotal(o) - Taken(Given(o)') /\ sale'[o].total >= 0
       /\ \A p \in Sold \ {o} : sale'[p] = sale[p]
       /\ sale' \in [Sold -> SaleRows]
  <2>1. Taken(Given(o)') \in Int
    BY <1>2, <1>3, <1>9
  <2>2. sale \in [Sold -> SaleRows]
    BY <1>1 DEF DiscountTyped
  <2>3. sale'[o].total = due - worth
    BY <1>10, <1>11, <2>2 DEF SaleRows
  <2>4. due - worth = Subtotal(o) - Taken(Given(o)')
    BY <1>2, <1>3, <1>9
  <2>5. sale' \in [Sold -> SaleRows]
    <3> DEFINE given == Taken(Given(o)')  total == AtLeastZero(Subtotal(o) - given)
    <3>1. given \in Int /\ total \in Int /\ sale' = [sale EXCEPT ![o] = [@ EXCEPT !.discount = given, !.total = total]]
      BY <1>10, <1>11, <2>1
    <3> HIDE DEF given, total
    <3> QED BY <3>1, <2>2, Retotaling
  <2> HIDE DEF due
  <2> QED BY <1>10, <1>11, <2>2, <2>3, <2>4, <2>5
<1>13. /\ coupon' \in [Coupons -> CouponRows]
       /\ coupon'[c].count = coupon[c].count + 1 /\ coupon'[c].limit = coupon[c].limit
       /\ \A d \in Coupons \ {c} : coupon'[d] = coupon[d]
       /\ coupon[c].count \in Nat /\ coupon[c].limit \in Nat
  BY <1>1, <1>4 DEF DiscountTyped, CouponRows
<1>14. DiscountTyped'
  <2>1. IsFiniteSet(applied')
    BY <1>1, <1>4, FS_AddElement DEF DiscountTyped
  <2>2. \A a \in applied' : a.order \in Sold /\ a.code \in Coupons /\ a.amount \in Nat
    BY <1>1, <1>3, <1>4, <1>6 DEF DiscountTyped
  <2> QED BY <2>1, <2>2, <1>1, <1>4, <1>12, <1>13 DEF DiscountTyped
<1>15. ASSUME NEW d \in Coupons
       PROVE  /\ d \notin outdated => coupon'[d].count = Cardinality(Uses(d)')
              /\ Codes[d].perUser # 0 => \A v \in Users :
                   Cardinality({a \in Uses(d)' : a.user = v}) <= Codes[d].perUser
  <2>1. CASE d # c
    BY <2>1, <1>1, <1>8, <1>13 DEF Counted
  <2>2. CASE d = c
    <3>1. c \notin outdated => coupon'[c].count = Cardinality(Uses(c)')
      <4>1. Cardinality(Uses(c) \cup {row}) = Cardinality(Uses(c)) + 1
        BY <1>1, <1>7, UsesTyped, FS_AddElement
      <4> QED BY <4>1, <1>1, <1>8, <1>13 DEF Counted
    <3>2. ASSUME Codes[c].perUser # 0, NEW v \in Users
          PROVE  Cardinality({a \in Uses(c)' : a.user = v}) <= Codes[c].perUser
      <4> DEFINE own == {a \in Uses(c) : a.user = v}
      <4>1. IsFiniteSet(own) /\ Cardinality(own) \in Nat /\ Codes[c].perUser \in Nat
        BY <1>1, UsesTyped, DiscountAssumption
      <4>2. CASE v # u
        <5>1. {a \in Uses(c)' : a.user = v} = own
          BY <4>2, <1>6, <1>8
        <5> QED BY <5>1, <1>1, <3>2 DEF Counted
      <4>3. CASE v = u
        <5>1. {a \in Uses(c)' : a.user = v} = own \cup {row} /\ row \notin own
          BY <4>3, <1>6, <1>7, <1>8
        <5>2. Cardinality(own) < Codes[c].perUser
          BY <4>3, <3>2 DEF ApplyToOrder, Eligible
        <5> HIDE DEF own
        <5>3. Cardinality(own \cup {row}) = Cardinality(own) + 1
          BY <5>1, <4>1, FS_AddElement
        <5>4. Cardinality(own \cup {row}) <= Codes[c].perUser
          BY <4>1, <5>2, <5>3
        <5> QED BY <5>1, <5>4
      <4> QED BY <4>2, <4>3
    <3> QED BY <2>2, <3>1, <3>2
  <2> QED BY <2>1, <2>2
<1>16. ASSUME NEW p \in Sold
       PROVE  /\ sale'[p].total = Subtotal(p) - Taken(Given(p)')
              /\ sale'[p].total >= 0
              /\ \A a, b \in Given(p)' : a # b => Codes[a.code].stackable
  <2>1. CASE p # o
    BY <2>1, <1>1, <1>8, <1>12 DEF Counted
  <2>2. CASE p = o
    <3>1. ASSUME NEW a \in Given(o)', NEW b \in Given(o)', a # b PROVE Codes[a.code].stackable
      <4>1. CASE a \in Given(o)
        BY <4>1 DEF ApplyToOrder, Combines
      <4>2. CASE a = row
        <5>1. b \in Given(o)
          BY <4>2, <3>1, <1>8
        <5> QED BY <5>1, <4>2, <1>6 DEF ApplyToOrder, Combines
      <4> QED BY <4>1, <4>2, <1>8
    <3> QED BY <2>2, <3>1, <1>12
  <2> QED BY <2>1, <2>2
<1>17. Counted'
  BY <1>4, <1>15, <1>16 DEF Counted, Taken
<1>18. WithinLimits
  <2>1. coupon[c].limit = 0 \/ coupon[c].count < coupon[c].limit
    BY DEF ApplyToOrder, Eligible
  <2>2. ASSUME NEW d \in Coupons, coupon'[d].count > coupon[d].count
        PROVE  coupon[d].limit = 0 \/ coupon'[d].count <= coupon[d].limit
    <3>1. d = c
      <4>1. \A n \in Nat : ~(n > n)
        OBVIOUS
      <4>2. coupon[d].count \in Nat
        BY <1>1 DEF DiscountTyped, CouponRows
      <4> QED BY <2>2, <4>1, <4>2, <1>13
    <3> QED BY <3>1, <2>1, <1>13
  <2>3. \A p \in Sold : sale[p].paid => sale'[p].total = sale[p].total
    BY <1>4, <1>12
  <2> QED BY <2>2, <2>3 DEF WithinLimits
<1> QED BY <1>14, <1>17, <1>18 DEF Steady, DiscountInv

LEMMA Removing ==
  ASSUME DiscountInv, NEW x \in applied, RemoveFromOrder(x)
  PROVE  Steady
<1> DEFINE o == x.order  c == x.code
<1>1. DiscountTyped /\ Counted
  BY DEF DiscountInv
<1>2. o \in Sold /\ c \in Coupons /\ x.amount \in Nat /\ Subtotal(o) \in Nat
  BY <1>1, SubtotalNat DEF DiscountTyped
<1>3. /\ applied' = applied \ {x}
      /\ coupon' = [coupon EXCEPT ![c].count = AtLeastZero(@ - 1)]
      /\ sale' = Retotaled(o, applied')
      /\ ~sale[o].paid
      /\ UNCHANGED <<editing, outdated>>
  BY DEF RemoveFromOrder, edits
<1>4. x \in Given(o) /\ x \in Uses(c)
  BY DEF Given, Uses
<1>5. /\ Given(o)' = Given(o) \ {x}
      /\ \A p \in Sold \ {o} : Given(p)' = Given(p)
      /\ Uses(c)' = Uses(c) \ {x}
      /\ \A d \in Coupons \ {c} : Uses(d)' = Uses(d)
  BY <1>3 DEF Given, Uses
<1> HIDE DEF o, c
<1>6. Taken(Given(o)) = Taken(Given(o)') + x.amount /\ Taken(Given(o)') \in Nat
  <2>1. IsFiniteSet(Given(o)) /\ \A r \in Given(o) : r.amount \in Nat
    BY <1>1, GivenTyped
  <2> DEFINE S == Given(o) \ {x}
  <2>2. IsFiniteSet(S) /\ x \notin S /\ S \cup {x} = Given(o)
    BY <2>1, <1>4, FS_RemoveElement
  <2>3. \A r \in S \cup {x} : r.amount \in Nat
    BY <2>1, <2>2
  <2> HIDE DEF S
  <2>4. Taken(S \cup {x}) = Taken(S) + x.amount /\ Taken(S) \in Nat
    BY <2>2, <2>3, TakenAdds
  <2> QED BY <2>2, <2>4, <1>5 DEF S
<1>7. sale' = [sale EXCEPT ![o] = [@ EXCEPT !.discount = Taken(Given(o)'),
                                            !.total = AtLeastZero(Subtotal(o) - Taken(Given(o)'))]]
  BY <1>3 DEF Retotaled, Given
<1>8. /\ AtLeastZero(Subtotal(o) - Taken(Given(o)')) = Subtotal(o) - Taken(Given(o)')
      /\ Subtotal(o) - Taken(Given(o)') \in Nat
  <2>1. sale[o].total = Subtotal(o) - Taken(Given(o)) /\ sale[o].total >= 0
    BY <1>1, <1>2 DEF Counted
  <2> QED BY <2>1, <1>2, <1>6 DEF AtLeastZero
<1>9. /\ sale'[o].total = Subtotal(o) - Taken(Given(o)') /\ sale'[o].total >= 0
      /\ \A p \in Sold \ {o} : sale'[p] = sale[p]
      /\ sale' \in [Sold -> SaleRows]
  <2>1. sale \in [Sold -> SaleRows]
    BY <1>1 DEF DiscountTyped
  <2>2. sale' \in [Sold -> SaleRows]
    <3> DEFINE given == Taken(Given(o)')  total == AtLeastZero(Subtotal(o) - given)
    <3>1. given \in Int /\ total \in Int /\ sale' = [sale EXCEPT ![o] = [@ EXCEPT !.discount = given, !.total = total]]
      BY <1>6, <1>7, <1>8
    <3> HIDE DEF given, total
    <3> QED BY <1>2, <3>1, <2>1, Retotaling
  <2>3. sale'[o] = [sale[o] EXCEPT !.discount = Taken(Given(o)'), !.total = Subtotal(o) - Taken(Given(o)')]
    BY <1>2, <1>7, <1>8, <2>1
  <2>4. sale'[o].total = Subtotal(o) - Taken(Given(o)')
    BY <1>2, <2>1, <2>3 DEF SaleRows
  <2>5. \A p \in Sold \ {o} : sale'[p] = sale[p]
    BY <1>7, <2>1
  <2> QED BY <1>8, <2>2, <2>4, <2>5
<1>10. Cardinality(Uses(c)) = Cardinality(Uses(c)') + 1 /\ Cardinality(Uses(c)') \in Nat
  <2>1. IsFiniteSet(Uses(c))
    BY <1>1, UsesTyped
  <2>2. IsFiniteSet(Uses(c) \ {x}) /\ Cardinality(Uses(c) \ {x}) = Cardinality(Uses(c)) - 1
    BY <2>1, <1>4, FS_RemoveElement
  <2> QED BY <2>1, <2>2, <1>5, FS_CardinalityType
<1>11. /\ coupon' \in [Coupons -> CouponRows]
       /\ c \notin outdated => coupon'[c].count = Cardinality(Uses(c)')
       /\ coupon'[c].count <= coupon[c].count
       /\ \A d \in Coupons \ {c} : coupon'[d] = coupon[d]
  <2> DEFINE less == AtLeastZero(coupon[c].count - 1)
  <2>1. coupon \in [Coupons -> CouponRows] /\ coupon[c] \in CouponRows
    BY <1>1, <1>2 DEF DiscountTyped
  <2>2. coupon[c].count \in Nat
    BY <2>1 DEF CouponRows
  <2>3. less \in Nat /\ less <= coupon[c].count
    BY <2>2 DEF AtLeastZero
  <2>4. c \notin outdated => less = Cardinality(Uses(c)')
    <3>1. c \notin outdated => coupon[c].count = Cardinality(Uses(c))
      BY <1>1, <1>2 DEF Counted
    <3> QED BY <3>1, <2>2, <1>10 DEF AtLeastZero
  <2>5. coupon' = [coupon EXCEPT ![c].count = less]
    BY <1>3
  <2> HIDE DEF less
  <2> QED BY <1>2, <2>1, <2>3, <2>4, <2>5 DEF CouponRows
<1>12. DiscountTyped'
  <2>1. IsFiniteSet(applied')
    BY <1>1, <1>3, FS_RemoveElement DEF DiscountTyped
  <2>2. \A a \in applied' : a.order \in Sold /\ a.code \in Coupons /\ a.amount \in Nat
    BY <1>1, <1>3 DEF DiscountTyped
  <2> QED BY <2>1, <2>2, <1>1, <1>3, <1>9, <1>11 DEF DiscountTyped
<1>13. ASSUME NEW d \in Coupons
       PROVE  /\ d \notin outdated => coupon'[d].count = Cardinality(Uses(d)')
              /\ Codes[d].perUser # 0 => \A v \in Users :
                   Cardinality({a \in Uses(d)' : a.user = v}) <= Codes[d].perUser
  <2>1. CASE d # c
    BY <2>1, <1>1, <1>5, <1>11 DEF Counted
  <2>2. CASE d = c
    <3>1. ASSUME Codes[c].perUser # 0, NEW v \in Users
          PROVE  Cardinality({a \in Uses(c)' : a.user = v}) <= Codes[c].perUser
      <4> DEFINE own == {a \in Uses(c) : a.user = v}  less == {a \in Uses(c)' : a.user = v}
      <4>1. IsFiniteSet(own) /\ Cardinality(own) \in Nat /\ Codes[c].perUser \in Nat
        BY <1>1, <1>2, UsesTyped, DiscountAssumption
      <4>2. less \subseteq own
        BY <1>5
      <4>3. Cardinality(own) <= Codes[c].perUser
        BY <1>1, <1>2, <3>1 DEF Counted
      <4> HIDE DEF own, less
      <4>4. Cardinality(less) <= Cardinality(own) /\ Cardinality(less) \in Nat
        BY <4>1, <4>2, FS_Subset, FS_CardinalityType
      <4>5. Cardinality(less) <= Codes[c].perUser
        BY <4>1, <4>3, <4>4
      <4> QED BY <4>5 DEF less
    <3> QED BY <2>2, <3>1, <1>11
  <2> QED BY <2>1, <2>2
<1>14. ASSUME NEW p \in Sold
       PROVE  /\ sale'[p].total = Subtotal(p) - Taken(Given(p)')
              /\ sale'[p].total >= 0
              /\ \A a, b \in Given(p)' : a # b => Codes[a.code].stackable
  <2>1. CASE p # o
    BY <2>1, <1>1, <1>5, <1>9 DEF Counted
  <2>2. CASE p = o
    <3>1. \A a, b \in Given(o)' : a # b => Codes[a.code].stackable
      BY <1>1, <1>2, <1>5 DEF Counted
    <3> QED BY <2>2, <3>1, <1>9
  <2> QED BY <2>1, <2>2
<1>15. Counted'
  BY <1>3, <1>13, <1>14 DEF Counted, Taken
<1>16. WithinLimits
  <2>1. ASSUME NEW d \in Coupons PROVE ~(coupon'[d].count > coupon[d].count)
    <3>1. coupon[d].count \in Nat /\ coupon'[d].count \in Nat
      BY <1>1, <1>12 DEF DiscountTyped, CouponRows
    <3>2. CASE d = c
      BY <3>1, <3>2, <1>11
    <3>3. CASE d # c
      BY <3>1, <3>3, <1>11
    <3> QED BY <3>2, <3>3
  <2>2. \A p \in Sold : sale[p].paid => sale'[p].total = sale[p].total
    BY <1>3, <1>9
  <2> QED BY <2>1, <2>2 DEF WithinLimits
<1> QED BY <1>12, <1>15, <1>16 DEF Steady, DiscountInv

LEMMA DiscountStep ==
  ASSUME DiscountInv, [DiscountNext]_discountVars
  PROVE  Steady
<1> USE DEF DiscountInv
<1>1. /\ coupon \in [Coupons -> CouponRows] /\ sale \in [Sold -> SaleRows]
      /\ editing \in Editing /\ Limits \subseteq Nat
  BY DiscountAssumption DEF DiscountTyped
<1>2. ASSUME NEW c \in Coupons, CreateCoupon(c) PROVE Steady
  <2>1. PICK n \in Limits : coupon' = [coupon EXCEPT ![c].state = "live", ![c].limit = n]
    BY <1>2 DEF CreateCoupon
  <2>2. coupon' \in [Coupons -> CouponRows] /\ \A d \in Coupons : coupon'[d].count = coupon[d].count
    BY <1>1, <2>1 DEF CouponRows
  <2> QED BY <1>1, <1>2, <2>2, CodeEdited DEF CreateCoupon, edits
<1>6. ASSUME NEW e \in Editors, NEW c \in Coupons, LookToUpdate(e, c) PROVE Steady
  <2>1. [code |-> c, row |-> coupon[c]] \in [code : Coupons, row : CouponRows]
    BY <1>1
  <2>2. editing' \in Editing
    BY <1>1, <1>6, <2>1 DEF LookToUpdate, Editing
  <2> QED BY <1>1, <1>6, <2>2, CodeEdited DEF LookToUpdate
<1>7. ASSUME NEW e \in Editors, UpdateCoupon(e) PROVE Steady
  <2>1. editing[e] \in [code : Coupons, row : CouponRows]
    BY <1>1, <1>7 DEF UpdateCoupon, Editing
  <2> DEFINE c == editing[e].code  row == editing[e].row
  <2>2. c \in Coupons /\ row \in CouponRows
    BY <2>1
  <2>3. PICK n \in Limits : coupon' = [coupon EXCEPT ![c] = [row EXCEPT !.limit = n]]
    BY <1>7 DEF UpdateCoupon
  <2>4. /\ outdated' = IF row.count = coupon[c].count THEN outdated ELSE outdated \cup {c}
        /\ editing' = [editing EXCEPT ![e] = NoEdit] /\ UNCHANGED <<applied, sale>>
    BY <1>7 DEF UpdateCoupon
  <2> HIDE DEF c, row
  <2>5. [row EXCEPT !.limit = n] \in CouponRows /\ [row EXCEPT !.limit = n].count = row.count
    BY <1>1, <2>2 DEF CouponRows
  <2>6. coupon' \in [Coupons -> CouponRows]
    BY <1>1, <2>2, <2>3, <2>5
  <2>7. \A d \in Coupons \ outdated' : coupon'[d].count = coupon[d].count
    BY <1>1, <2>2, <2>3, <2>4, <2>5
  <2>8. editing' \in Editing
    BY <1>1, <2>4 DEF Editing
  <2>9. outdated \subseteq outdated'
    BY <2>4
  <2> QED BY <2>4, <2>6, <2>7, <2>8, <2>9, CodeEdited
<1>3. ASSUME NEW c \in Coupons, ToggleCoupon(c) \/ DeleteCoupon(c) PROVE Steady
  <2>1. PICK row \in {[coupon[c] EXCEPT !.active = ~@], [coupon[c] EXCEPT !.state = "deleted"]} :
          coupon' = [coupon EXCEPT ![c] = row]
    BY <1>3 DEF ToggleCoupon, DeleteCoupon
  <2>2. (~coupon[c].active) \in BOOLEAN
    BY Zenon
  <2>3. row \in CouponRows /\ row.count = coupon[c].count
    BY <1>1, <2>1, <2>2 DEF CouponRows
  <2>4. coupon' \in [Coupons -> CouponRows] /\ \A d \in Coupons : coupon'[d].count = coupon[d].count
    BY <1>1, <2>1, <2>3
  <2> QED BY <1>1, <1>3, <2>4, CodeEdited DEF ToggleCoupon, DeleteCoupon, edits
<1>4. ASSUME NEW o \in Sold, PaySale(o) \/ CancelSale(o) PROVE Steady
  <2>1. PICK row \in {[sale[o] EXCEPT !.paid = TRUE], [sale[o] EXCEPT !.status = "CANCELED"]} :
          sale' = [sale EXCEPT ![o] = row]
    BY <1>4 DEF PaySale, CancelSale
  <2>2. row \in SaleRows /\ row.total = sale[o].total
    BY <1>1, <2>1 DEF SaleRows
  <2>3. sale' \in [Sold -> SaleRows] /\ \A p \in Sold : sale'[p].total = sale[p].total
    BY <1>1, <2>1, <2>2
  <2> QED BY <1>4, <2>3, StatusChanged DEF PaySale, CancelSale
<1>5. CASE PassDay \/ UNCHANGED discountVars
  <2>1. UNCHANGED <<coupon, applied, sale, editing, outdated>>
    BY <1>5 DEF PassDay, discountVars, edits
  <2> QED BY <1>1, <2>1, CodeEdited
<1> QED BY <1>2, <1>3, <1>4, <1>5, <1>6, <1>7, Applying, Removing DEF DiscountNext

(* However codes are created, edited, switched off, deleted, applied to    *)
(* orders and removed from them: the counter of a code is its uses and     *)
(* grows only up to the limit it then has, as long as no edit puts back a  *)
(* counter that has changed since it was read; nobody exceeds their own    *)
(* allowance, and an order's total is what its codes leave of it, is never *)
(* negative and is not touched once the order is paid.                     *)
(* (apply_to_order, remove_from_order)                                     *)
THEOREM DiscountsCounted == DiscountSpec => UsesAreCounted
<1>1. DiscountInv /\ [DiscountNext]_discountVars => DiscountInv'
  BY DiscountStep DEF Steady
<1>2. DiscountInv /\ [DiscountNext]_discountVars
        => [<<coupon, sale>>' # <<coupon, sale>> => Counted' /\ WithinLimits]_discountVars
  BY DiscountStep DEF Steady, DiscountInv
<1> QED BY <1>1, <1>2, DiscountInitial, PTL DEF DiscountSpec, UsesAreCounted
=============================================================================
