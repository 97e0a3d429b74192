--------------------------- MODULE AtomicCommand ---------------------------
(***************************************************************************)
(* The atomic_command decorator and the execute function of the purchase   *)
(* invoices: the row of the key, the command and the answer to replay are  *)
(* written by one transaction.                                             *)
(*                                                                         *)
(* The unique constraint makes a second insert of the key wait for the     *)
(* transaction that holds it, so of all requests under the key one at a    *)
(* time is between its insert and its commit.  A request that fails or     *)
(* dies takes its row with it.  A client that lost the answer asks again.  *)
(***************************************************************************)
EXTENDS Naturals

CONSTANTS
  Requests,   \* requests that may run at the same time
  Commands,   \* bodies sent under the key
  Refusals,   \* subset of {"kept", "undone"}: what becomes of a refusal
  MaxDeaths   \* bound: transactions that die

ASSUME AtomicCommandAssumption ==
  Refusals \subseteq {"kept", "undone"} /\ "none" \notin Commands /\ MaxDeaths \in Nat

VARIABLES
  row,      \* the committed IdempotencyKey row
  request,  \* request[p]: what request p is doing
  effect,   \* effect[b]: committed executions of command b
  refusal,  \* fixed: which of the two decorators this is
  deaths

atomicVars == <<row, request, effect, refusal, deaths>>

Nobody == "none"
NoRow == [body |-> Nobody, status |-> "none"]
Waiting == [step |-> "idle", body |-> Nobody, got |-> "none"]

AtomicInit ==
  /\ row = NoRow
  /\ request = [p \in Requests |-> Waiting]
  /\ effect = [b \in Commands |-> 0]
  /\ refusal \in Refusals
  /\ deaths = 0

Reply(p, answer) == request' = [request EXCEPT ![p].step = "idle", ![p].got = answer]

Ask(p, b) ==
  /\ request[p].step = "idle"
  /\ request' = [request EXCEPT ![p] = [step |-> "ask", body |-> b, got |-> "none"]]
  /\ UNCHANGED <<row, effect, refusal, deaths>>

(* The insert of p is not made to wait by another one.                     *)
KeyFree == \A p \in Requests : request[p].step \notin {"run", "ran"}

Insert(p) ==
  /\ request[p].step = "ask" /\ KeyFree /\ row = NoRow
  /\ request' = [request EXCEPT ![p].step = "run"]
  /\ UNCHANGED <<row, effect, refusal, deaths>>

Replay(p) == IF row.body # request[p].body THEN "reused" ELSE row.status

(* The row is there: its answer is the answer to the same request.         *)
Repeat(p) ==
  /\ request[p].step = "ask" /\ KeyFree /\ row # NoRow
  /\ Reply(p, Replay(p))
  /\ UNCHANGED <<row, effect, refusal, deaths>>

(* The command has done its work inside the transaction.                   *)
Execute(p) ==
  /\ request[p].step = "run"
  /\ request' = [request EXCEPT ![p].step = "ran"]
  /\ UNCHANGED <<row, effect, refusal, deaths>>

Kept(p, status) == row' = [body |-> request[p].body, status |-> status]
Applied(p) == effect' = [effect EXCEPT ![request[p].body] = @ + 1]

(* Mutant: the command commits by itself, and its answer is saved after.   *)
CommitApart(p) ==
  /\ request[p].step = "ran" /\ effect[request[p].body] < 2
  /\ Applied(p) /\ Reply(p, "ok")
  /\ row' = row \/ Kept(p, "ok")
  /\ UNCHANGED <<refusal, deaths>>

(* Row, effect and answer commit together.                                 *)
Commit(p) ==
  /\ request[p].step = "ran"
  /\ Applied(p) /\ Kept(p, "ok") /\ Reply(p, "ok")
  /\ UNCHANGED <<refusal, deaths>>

(* The command's own savepoint is rolled back; its refusal is kept under   *)
(* the key, or undone with everything else.                                *)
RefuseCommand(p) ==
  /\ request[p].step \in {"run", "ran"}
  /\ Reply(p, "refused")
  /\ IF refusal = "kept" THEN Kept(p, "refused") ELSE UNCHANGED row
  /\ UNCHANGED <<effect, refusal, deaths>>

(* An exception or the end of the process rolls the transaction back.      *)
RollBack(p) ==
  /\ request[p].step \in {"run", "ran"}
  /\ deaths < MaxDeaths /\ deaths' = deaths + 1
  /\ Reply(p, "error")
  /\ UNCHANGED <<row, effect, refusal>>

AtomicNext == \E p \in Requests :
  \/ Insert(p) \/ Repeat(p) \/ Execute(p) \/ Commit(p) \/ RefuseCommand(p) \/ RollBack(p)
  \/ \E b \in Commands : Ask(p, b)

AtomicSpec == AtomicInit /\ [][AtomicNext]_atomicVars

(***************************************************************************)
(* The decorator keeps the promise of OnceCommand: a command and its       *)
(* answer commit together, so no retry, whatever it races or outlives,     *)
(* executes the command again or is told of a success that was undone.     *)
(***************************************************************************)
Atomic == INSTANCE OnceCommand WITH
  Workers <- Requests,
  Bodies <- Commands,
  times <- effect,
  kept <- row,
  told <- [p \in Requests |-> IF request[p].got = "ok" THEN request[p].body ELSE Nobody]

AtomicIsOnce == Atomic!Spec
=============================================================================
