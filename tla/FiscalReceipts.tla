--------------------------- MODULE FiscalReceipts ---------------------------
(***************************************************************************)
(* Reporting of sales to the tax authority.  fiscalize_order marks the     *)
(* receipt SENT and commits, calls the provider without a lock, and stores *)
(* the outcome in a second transaction.  It is called when an order is     *)
(* paid, by hand, and by a sweep that retries FAILED receipts after having *)
(* moved receipts left in SENT by a dead process back to FAILED.  Calls    *)
(* for one sale may overlap.                                               *)
(***************************************************************************)
EXTENDS Naturals, FiniteSets, Sequences

CONSTANTS
  Sales,        \* receipts: an order and a receipt type
  Unsettled,    \* those whose tender may be unknown: no payload then
  Callers,      \* processes that fiscalize a sale by payment or by hand
  Sweepers,     \* processes that run retry_failed
  MaxAttempts,  \* MAX_ATTEMPTS
  MaxCalls,     \* bound: calls from outside the sweep
  MaxFaults,    \* bound: processes that die and answers that are lost
  MaxFlips      \* bound: changes of the mode and of the tenders

ASSUME FiscalAssumption ==
  /\ IsFiniteSet(Sales) /\ Unsettled \subseteq Sales /\ Callers \cap Sweepers = {}
  /\ {MaxAttempts, MaxCalls} \subseteq Nat \ {0}
  /\ {MaxFaults, MaxFlips} \subseteq Nat

VARIABLES
  mode,      \* the cached FISCALIZATION_MODE
  obscure,   \* the sales whose tender is unknown
  receipt,   \* receipt[s]: the FiscalReceipt row
  older,     \* <<s, t>>: the row of s was last saved before that of t (updated_at)
  job,       \* job[w]: the call of fiscalize_order process w is in
  queue,     \* queue[w]: what sweeper w has still to retry, in order
  reported,  \* reported[s]: documents the authority holds
  unsure,    \* unsure[s]: documents whose answer no process has stored
  together,  \* together[s]: attempts begun while another was under way
  calls, faults, flips

world == <<mode, obscure, flips>>
counts == <<calls, faults>>
vars == <<world, receipt, older, job, queue, reported, unsure, together, counts>>

Workers == Callers \cup Sweepers
Modes == {"off", "mock", "live"}
Providers == {"mock", "real"}

(* get_provider_name: in mock mode the mock, else what the settings name.  *)
ProviderIn(m) == IF m = "mock" THEN "mock" ELSE "real"

NoReceipt == [status |-> "none", attempts |-> 0, mode |-> "off",
              provider |-> "mock", sign |-> "none", stale |-> FALSE]
Receipt == [status : {"none", "sent", "confirmed", "failed"}, attempts : Nat,
            mode : Modes, provider : Providers, sign : Providers \cup {"none"},
            stale : BOOLEAN]

Idle == [step |-> "idle"]
Job == {Idle} \cup
  [step : {"config", "attempt", "call"}, sale : Sales, mode : Modes, provider : Providers]
  \cup [step : {"finish"}, sale : Sales, provider : Providers, ok : BOOLEAN]

TypeOK ==
  /\ mode \in Modes
  /\ receipt \in [Sales -> Receipt]
  /\ job \in [Workers -> Job]
  /\ obscure \in SUBSET Unsettled /\ older \in SUBSET (Sales \X Sales)
  /\ queue \in [Sweepers -> Seq(Sales)]
  /\ {reported, unsure, together} \subseteq [Sales -> Nat]
  /\ calls \in 0..MaxCalls /\ faults \in 0..MaxFaults /\ flips \in 0..MaxFlips

Init ==
  /\ mode \in Modes /\ obscure \in SUBSET Unsettled
  /\ receipt = [s \in Sales |-> NoReceipt] /\ older = {}
  /\ job = [w \in Workers |-> Idle]
  /\ queue = [w \in Sweepers |-> <<>>]
  /\ reported = [s \in Sales |-> 0] /\ unsure = [s \in Sales |-> 0]
  /\ together = [s \in Sales |-> 0]
  /\ calls = 0 /\ faults = 0 /\ flips = 0

-----------------------------------------------------------------------------
(* fiscalize_order.                                                        *)

At(w, step) == job[w].step = step
Ends(w) == job' = [job EXCEPT ![w] = Idle]

(* A row that is written becomes the last one saved.                       *)
Save(s, row) ==
  /\ receipt' = [receipt EXCEPT ![s] = row]
  /\ older' = {p \in older : s \notin {p[1], p[2]}}
                \cup {<<t, s>> : t \in {x \in Sales \ {s} : receipt[x].status # "none"}}

(* Nothing happens while fiscalization is off; else the mode is read ...   *)
Begin(w, s) ==
  /\ job' = [job EXCEPT ![w] = IF mode = "off" THEN Idle
               ELSE [step |-> "config", sale |-> s, mode |-> mode, provider |-> "mock"]]
  /\ UNCHANGED <<world, receipt, older, reported, unsure, together, faults>>

(* Paid at the till, or asked for by hand.                                 *)
Call(w, s) ==
  /\ w \in Callers /\ At(w, "idle") /\ calls < MaxCalls
  /\ calls' = calls + 1
  /\ Begin(w, s)
  /\ UNCHANGED queue

(* The sweep's own call, for the next of its list: the status and attempts *)
(* it was listed with are not looked at again.                             *)
Retry(w) ==
  /\ w \in Sweepers /\ At(w, "idle") /\ queue[w] # <<>>
  /\ queue' = [queue EXCEPT ![w] = Tail(@)]
  /\ Begin(w, Head(queue[w]))
  /\ UNCHANGED calls

(* ... and the provider in a second read of the mode.                      *)
ReadTenant(w) ==
  /\ At(w, "config")
  /\ job' = [job EXCEPT ![w].step = "attempt", ![w].provider = ProviderIn(mode)]
  /\ UNCHANGED <<world, receipt, older, queue, reported, unsure, together, counts>>

(* The row an attempt commits before the provider is called.  The status   *)
(* PENDING of a new row never outlives this transaction.                   *)
Sent(r, j) ==
  [r EXCEPT !.status = "sent", !.attempts = @ + 1, !.stale = FALSE,
            !.mode = j.mode, !.provider = j.provider]

(* An attempt of the sale between its two transactions.                    *)
UnderWay(w, s) == job[w].step \in {"call", "finish"} /\ job[w].sale = s

InFlight(s) == \E w \in Workers : UnderWay(w, s)

(* The first transaction, under the receipt's lock.                        *)
Send(w, s) ==
  /\ s \notin obscure
  /\ Save(s, Sent(receipt[s], job[w]))
  /\ job' = [job EXCEPT ![w].step = "call"]
  /\ together' = IF InFlight(s) THEN [together EXCEPT ![s] = @ + 1] ELSE together

(* Mutant: also a confirmed receipt is sent.                               *)
AttemptAnyway(w) ==
  /\ At(w, "attempt")
  /\ Send(w, job[w].sale)
  /\ UNCHANGED <<world, queue, reported, unsure, counts>>

Attempt(w) ==
  /\ At(w, "attempt")
  /\ IF receipt[job[w].sale].status = "confirmed"
       THEN Ends(w) /\ UNCHANGED <<receipt, older, together>>
       ELSE Send(w, job[w].sale)
  /\ UNCHANGED <<world, queue, reported, unsure, counts>>

(* The payload cannot be built: the exception undoes the transaction, a    *)
(* new row with it.  Nothing stops it in a sweep, whose list is given up.  *)
Undo(w) ==
  /\ At(w, "attempt") /\ job[w].sale \in obscure
  /\ receipt[job[w].sale].status # "confirmed"
  /\ Ends(w)
  /\ queue' = [v \in Sweepers |-> IF v = w THEN <<>> ELSE queue[v]]
  /\ UNCHANGED <<world, receipt, older, reported, unsure, together, counts>>

(* The provider is external.  It registers the sale or refuses it; the     *)
(* answer to a sale it has registered may be lost.  The mock keeps nothing.*)
Answer(w, ok) ==
  job' = [job EXCEPT ![w] = [step |-> "finish", sale |-> job[w].sale,
                             provider |-> job[w].provider, ok |-> ok]]

Accept(w) ==
  /\ At(w, "call") /\ Answer(w, TRUE)
  /\ reported' = IF job[w].provider = "mock" THEN reported
                 ELSE [reported EXCEPT ![job[w].sale] = @ + 1]
  /\ UNCHANGED <<world, receipt, older, queue, unsure, together, counts>>

RefuseSale(w) ==
  /\ At(w, "call") /\ Answer(w, FALSE)
  /\ UNCHANGED <<world, receipt, older, queue, reported, unsure, together, counts>>

LoseAnswer(w) ==
  /\ At(w, "call") /\ job[w].provider = "real" /\ faults < MaxFaults
  /\ Answer(w, FALSE)
  /\ faults' = faults + 1
  /\ reported' = [reported EXCEPT ![job[w].sale] = @ + 1]
  /\ unsure' = [unsure EXCEPT ![job[w].sale] = @ + 1]
  /\ UNCHANGED <<world, receipt, older, queue, together, calls>>

(* The second transaction writes what this call has heard, whatever the    *)
(* row has become meanwhile.                                               *)
Outcome(r, j) ==
  IF j.ok THEN [r EXCEPT !.status = "confirmed", !.sign = j.provider]
          ELSE [r EXCEPT !.status = "failed"]

Finish(w) ==
  /\ At(w, "finish")
  /\ LET s == job[w].sale
     IN Save(s, [Outcome(receipt[s], job[w]) EXCEPT !.stale = FALSE])
  /\ Ends(w)
  /\ UNCHANGED <<world, queue, reported, unsure, together, counts>>

Crash(w) ==
  /\ ~ At(w, "idle") /\ faults < MaxFaults
  /\ faults' = faults + 1
  /\ Ends(w)
  /\ queue' = [v \in Sweepers |-> IF v = w THEN <<>> ELSE queue[v]]
  /\ unsure' = IF At(w, "finish") /\ job[w].ok /\ job[w].provider = "real"
               THEN [unsure EXCEPT ![job[w].sale] = @ + 1] ELSE unsure
  /\ UNCHANGED <<world, receipt, older, reported, together, calls>>

-----------------------------------------------------------------------------
(* retry_failed.                                                           *)

(* SENT_STALE_SECONDS pass after the last write of a receipt, with or      *)
(* without an answer.                                                      *)
Ages(s) ==
  /\ receipt[s].status = "sent" /\ ~ receipt[s].stale
  /\ receipt' = [receipt EXCEPT ![s].stale = TRUE]
  /\ UNCHANGED <<world, older, job, queue, reported, unsure, together, counts>>

(* Mutant: a stranded receipt is trusted to have been sent.                *)
Promoted(r) == [r EXCEPT !.status = "confirmed", !.stale = FALSE]

(* A receipt with a proof is promoted, another one is tried again.         *)
Reaped(r) ==
  [r EXCEPT !.status = IF r.sign = "none" THEN "failed" ELSE "confirmed", !.stale = FALSE]

(* Mutant: stranded receipts are left alone.                               *)
StrandedNever(s) == FALSE

Stranded(s) == receipt[s].status = "sent" /\ receipt[s].stale

(* One stranded row is reaped, in a transaction of its own.                *)
Reap(w, s) ==
  /\ mode # "off" /\ At(w, "idle") /\ queue[w] = <<>>
  /\ Stranded(s)
  /\ Save(s, Reaped(receipt[s]))
  /\ UNCHANGED <<world, job, queue, reported, unsure, together, counts>>

Due == {s \in Sales : receipt[s].status = "failed" /\ receipt[s].attempts < MaxAttempts}

(* The sweep lists the failed receipts under the cap, in the order in      *)
(* which they were saved.                                                  *)
Sweep(w) ==
  /\ mode # "off" /\ At(w, "idle") /\ queue[w] = <<>> /\ Due # {}
  /\ \E q \in [1..Cardinality(Due) -> Due] :
       /\ \A i, j \in DOMAIN q : i < j => <<q[i], q[j]>> \in older
       /\ queue' = [queue EXCEPT ![w] = q]
  /\ UNCHANGED <<world, receipt, older, job, reported, unsure, together, counts>>

SetMode(m) ==
  /\ m # mode /\ flips < MaxFlips
  /\ mode' = m /\ flips' = flips + 1
  /\ UNCHANGED <<obscure, receipt, older, job, queue, reported, unsure, together, counts>>

(* Payment lines arrive, or no longer account for the order's total.       *)
TurnTender(s) ==
  /\ flips < MaxFlips /\ flips' = flips + 1
  /\ obscure' = IF s \in obscure THEN obscure \ {s} ELSE obscure \cup {s}
  /\ UNCHANGED <<mode, receipt, older, job, queue, reported, unsure, together, counts>>

-----------------------------------------------------------------------------
Step(w) == ReadTenant(w) \/ Attempt(w) \/ Undo(w) \/ Accept(w) \/ RefuseSale(w) \/ Finish(w)

SweepStep(w) == Sweep(w) \/ Retry(w) \/ \E s \in Sales : Reap(w, s)

Next ==
  \/ \E w \in Callers, s \in Sales : Call(w, s)
  \/ \E w \in Workers : Step(w) \/ LoseAnswer(w) \/ Crash(w)
  \/ \E w \in Sweepers : SweepStep(w)
  \/ \E s \in Sales : Ages(s)
  \/ \E m \in Modes : SetMode(m)
  \/ \E s \in Unsettled : TurnTender(s)

Spec == Init /\ [][Next]_vars

(* Calls end, time passes, and the sweep is run again and again.           *)
FairSpec ==
  /\ Spec
  /\ \A w \in Workers : WF_vars(Step(w))
  /\ \A w \in Sweepers : WF_vars(SweepStep(w))
  /\ \A s \in Sales : WF_vars(Ages(s))

-----------------------------------------------------------------------------
(* A confirmed receipt carries a proof, and the authority holds a document *)
(* for a proof of the real provider. (fiscalize_order, _reap_stale_sent)   *)
ConfirmedIsProved ==
  \A s \in Sales : receipt[s].status = "confirmed" =>
    /\ receipt[s].sign # "none"
    /\ receipt[s].sign = "real" => reported[s] > 0

(* A sale is reported more than once only if an answer was lost, a process *)
(* died with it, or an attempt began while another was under way: once a   *)
(* receipt is confirmed no later call sends it. (fiscalize_order,          *)
(* _reap_stale_sent)                                                       *)
NoNeedlessDuplicate == \A s \in Sales : reported[s] <= 1 + unsure[s] + together[s]

(* What the constraint of FiscalReceipt is said to prevent: "a double-tap  *)
(* on pay from fiscalizing the same sale twice" (models.py:59).  It keeps  *)
(* to one row, not to one call of the provider.                            *)
NoDoubleTap == \A s \in Sales : reported[s] <= 1 + unsure[s]

(* Whatever crashes and late answers do to it, a receipt ends up confirmed *)
(* for good, or failed at the cap, unless fiscalization is switched off or *)
(* a receipt under the cap has lost its tender: every sweep then stops at  *)
(* it, and starves what was saved after it. (retry_failed)                 *)
Concluded(s) == \/ receipt[s].status = "confirmed"
                \/ receipt[s].status = "failed" /\ receipt[s].attempts >= MaxAttempts
HoldsUp(s) == s \in obscure /\ s \in Due
Settles ==
  <>[](\/ mode = "off"
       \/ \E s \in Sales : HoldsUp(s)
       \/ \A s \in Sales : receipt[s].status # "none" => Concluded(s))
=============================================================================
