---------------------------- MODULE Idempotency ----------------------------
(***************************************************************************)
(* The idempotent decorator of write endpoints: the requests that carry    *)
(* one idempotency key, and the claim on that key.                         *)
(*                                                                         *)
(* A request claims the key in a short transaction, runs the view in the   *)
(* view's own transactions, and stores the answer in a third one, so that  *)
(* other requests and crashes fall between them.  A claim is held under a  *)
(* lease, its created_at; a claim older than the time to live is taken     *)
(* over from a worker that is thought dead.                                *)
(*                                                                         *)
(* Ages are counted in ticks.  A key the server derives from the request   *)
(* (Generated) is never shared by two bodies; a client's key may be.       *)
(***************************************************************************)
EXTENDS Integers, FiniteSets

CONSTANTS
  Workers,      \* requests that may run at the same time
  Bodies,       \* request bodies (fingerprints) sent under the key
  Ttl,          \* INFLIGHT_TTL_SECONDS
  Recover,      \* recover_inflight_after_seconds; at least Ttl when not given
  Generated,    \* the key is the server's fallback key
  SameAction,   \* the service recognises the action id of a repeated command
  Prompt,       \* every request ends before its claim is Ttl old
  CommitCrash,  \* a worker may fail between the view's commit and its answer
  MaxCrashes    \* bound: workers that die

ASSUME IdempotencyAssumption ==
  /\ Ttl \in Nat \ {0} /\ Recover \in Nat /\ MaxCrashes \in Nat
  /\ {Generated, SameAction, Prompt, CommitCrash} \subseteq BOOLEAN
  /\ Generated => Cardinality(Bodies) = 1
  /\ IsFiniteSet(Workers) /\ "none" \notin Bodies

VARIABLES
  claim,    \* the IdempotencyKey row
  work,     \* work[p]: the request worker p handles
  effects,  \* effects[b]: business commits of body b, counted up to 2
  crashes   \* workers that died so far

vars == <<claim, work, effects, crashes>>

(* Values for primary keys and for leases: one more than can be held.      *)
Token == 0..(Cardinality(Workers) + 2)
NoBody == "none"

NoClaim == [pk |-> 0, lease |-> 0, body |-> NoBody, status |-> "none", age |-> 0]
Claim == {NoClaim} \cup [pk : Token \ {0}, lease : Token \ {0}, body : Bodies,
                         status : {"open", "ok", "refused"}, age : 0..Ttl]

(* What a worker is about to do, what it saw of the claim, and the last    *)
(* answer it gave.                                                         *)
Step == {"idle", "claim", "look", "takeover", "reread", "run", "cache", "drop"}
Answer == {"none", "ok", "refused", "busy", "reused", "error"}
Work == [step : Step, body : Bodies \cup {NoBody}, owns : BOOLEAN, pk : Token,
         lease : Token, result : Answer, got : Answer]
Blank(step, body, got) == [step |-> step, body |-> body, owns |-> FALSE, pk |-> 0,
                           lease |-> 0, result |-> "none", got |-> got]
Idle == Blank("idle", NoBody, "none")

TypeOK ==
  /\ claim \in Claim
  /\ work \in [Workers -> Work]
  /\ effects \in [Bodies -> 0..2]
  /\ crashes \in 0..MaxCrashes

Init ==
  /\ claim = NoClaim
  /\ work = [p \in Workers |-> Idle]
  /\ effects = [b \in Bodies |-> 0]
  /\ crashes = 0

FreshPk == CHOOSE t \in Token \ {0} : t # claim.pk /\ \A p \in Workers : work[p].pk # t
FreshLease == CHOOSE t \in Token \ {0} : t # claim.lease /\ \A p \in Workers : work[p].lease # t

Goes(p, step) == work' = [work EXCEPT ![p].step = step]

(* The request is answered, and its body and answer stay to be looked at.  *)
Answers(p, a) == work' = [work EXCEPT ![p] = Blank("idle", work[p].body, a)]

-----------------------------------------------------------------------------
Arrive(p, b) ==
  /\ work[p].step = "idle"
  /\ work' = [work EXCEPT ![p] = Blank("claim", b, "none")]
  /\ UNCHANGED <<claim, effects, crashes>>

(* The key is free.                                                        *)
ClaimKey(p) ==
  /\ work[p].step = "claim"
  /\ claim = NoClaim
  /\ claim' = [pk |-> FreshPk, lease |-> FreshLease, body |-> work[p].body,
               status |-> "open", age |-> 0]
  /\ work' = [work EXCEPT ![p].step = "run", ![p].owns = TRUE, ![p].pk = FreshPk,
                          ![p].lease = FreshLease]
  /\ UNCHANGED <<effects, crashes>>

(* The unique constraint refuses a second row.                             *)
LoseKey(p) ==
  /\ work[p].step = "claim"
  /\ claim # NoClaim
  /\ Goes(p, "look")
  /\ UNCHANGED <<claim, effects, crashes>>

(* Mutant: the fingerprint of the request is not compared.                 *)
ExactByKey(p) == claim # NoClaim

(* The claim is of this very request, by its fingerprint.                  *)
Exact(p) == claim # NoClaim /\ claim.body = work[p].body

(* Mutant: an abandoned claim is never recognised.                         *)
StaleNever == FALSE

(* The claim is as old as only an abandoned one may be.                    *)
Stale == claim.age >= Ttl

(* What the loser reads decides: gone, another request's, answered, in     *)
(* flight, in flight for long enough to be repeated, or abandoned.         *)
Look(p) ==
  /\ work[p].step = "look"
  /\ \/ claim = NoClaim /\ Answers(p, "busy")
     \/ claim # NoClaim /\ ~Exact(p) /\ Answers(p, "reused")
     \/ Exact(p) /\ claim.status # "open" /\ Answers(p, claim.status)
     \/ /\ Exact(p) /\ claim.status = "open" /\ ~Stale
        /\ IF claim.age < Recover
             THEN Answers(p, "busy")
             ELSE work' = [work EXCEPT ![p].step = "run", ![p].pk = claim.pk]
     \/ /\ Exact(p) /\ claim.status = "open" /\ Stale
        /\ work' = [work EXCEPT ![p].step = "takeover", ![p].pk = claim.pk,
                                ![p].lease = claim.lease]
  /\ UNCHANGED <<claim, effects, crashes>>

(* The claim is the very one this worker read, under the same lease.       *)
Seen(p) == claim.pk = work[p].pk /\ claim.status = "open" /\ claim.lease = work[p].lease

TakeOver(p) ==
  /\ work[p].step = "takeover"
  /\ IF Seen(p)
       THEN /\ claim' = [claim EXCEPT !.lease = FreshLease, !.age = 0]
            /\ work' = [work EXCEPT ![p].step = "run", ![p].owns = TRUE,
                                    ![p].lease = FreshLease]
       ELSE Goes(p, "reread") /\ UNCHANGED claim
  /\ UNCHANGED <<effects, crashes>>

Reread(p) ==
  /\ work[p].step = "reread"
  /\ Answers(p, IF claim.pk = work[p].pk /\ claim.status # "open" THEN claim.status ELSE "busy")
  /\ UNCHANGED <<claim, effects, crashes>>

-----------------------------------------------------------------------------
(* The view.                                                               *)

Done(b) == effects[b] > 0

(* The business transaction commits; a command recognised as done already  *)
(* answers as it did.                                                      *)
Commits(b) ==
  IF (SameAction /\ Done(b)) \/ effects[b] = 2
    THEN UNCHANGED effects
    ELSE effects' = [effects EXCEPT ![b] = @ + 1]

ViewSucceeds(p) ==
  /\ work[p].step = "run"
  /\ Commits(work[p].body)
  /\ work' = [work EXCEPT ![p].step = "cache", ![p].result = "ok"]
  /\ UNCHANGED <<claim, crashes>>

(* A refusal under a client's key is the answer to keep; under a key of    *)
(* the server's the claim is dropped; a repetition leaves both alone.      *)
AfterRefusal(p) == IF ~work[p].owns THEN "idle" ELSE IF Generated THEN "drop" ELSE "cache"

ViewRefuses(p) ==
  /\ work[p].step = "run"
  /\ ~(SameAction /\ Done(work[p].body))
  /\ IF AfterRefusal(p) = "idle"
       THEN Answers(p, "refused")
       ELSE work' = [work EXCEPT ![p].step = AfterRefusal(p), ![p].result = "refused"]
  /\ UNCHANGED <<claim, effects, crashes>>

(* The view raises, before its commit or after it.                         *)
ViewRaises(p) ==
  /\ work[p].step = "run"
  /\ UNCHANGED effects \/ (CommitCrash /\ Commits(work[p].body))
  /\ IF work[p].owns
       THEN work' = [work EXCEPT ![p].step = "drop", ![p].result = "error"]
       ELSE Answers(p, "error")
  /\ UNCHANGED <<claim, crashes>>

(* The answer is stored in the row the worker claimed, if it is there.     *)
Cache(p) ==
  /\ work[p].step = "cache"
  /\ claim' = IF claim.pk = work[p].pk THEN [claim EXCEPT !.status = work[p].result] ELSE claim
  /\ Answers(p, work[p].result)
  /\ UNCHANGED <<effects, crashes>>

(* Only an unanswered claim may be dropped.                                *)
Drops(p) == claim.pk = work[p].pk /\ claim.status = "open"

DropClaim(p) ==
  /\ work[p].step = "drop"
  /\ claim' = IF Drops(p) THEN NoClaim ELSE claim
  /\ Answers(p, work[p].result)
  /\ UNCHANGED <<effects, crashes>>

(* The worker is killed; what it committed stays.                          *)
Die(p) ==
  /\ work[p].step \in {"run", "drop"} \cup (IF CommitCrash THEN {"cache"} ELSE {})
  /\ crashes < MaxCrashes /\ crashes' = crashes + 1
  /\ work' = [work EXCEPT ![p] = Idle]
  /\ UNCHANGED <<claim, effects>>

(* A worker that claimed the key and has not answered yet.                 *)
Owner(p) == work[p].owns /\ work[p].step # "idle"

(* Time passes.                                                            *)
Tick ==
  /\ claim.status = "open" /\ claim.age < Ttl
  /\ Prompt => claim.age + 1 < Ttl \/ \A p \in Workers : ~Owner(p)
  /\ claim' = [claim EXCEPT !.age = @ + 1]
  /\ UNCHANGED <<work, effects, crashes>>

-----------------------------------------------------------------------------
Handles(p) ==
  \/ ClaimKey(p) \/ LoseKey(p) \/ Look(p) \/ TakeOver(p) \/ Reread(p)
  \/ ViewSucceeds(p) \/ ViewRefuses(p) \/ ViewRaises(p) \/ Cache(p) \/ DropClaim(p)

Next == \/ Tick
        \/ \E p \in Workers : \/ Handles(p) \/ Die(p)
                              \/ \E b \in Bodies : Arrive(p, b)

Spec == Init /\ [][Next]_vars

-----------------------------------------------------------------------------
(* Properties.                                                             *)

(***************************************************************************)
(* The decorator keeps the promise of OnceCommand (IdempotencyKey:         *)
(* concurrent retries "fail fast with 409 instead of double-acting"): a    *)
(* command is executed once in whatever order its request is repeated; a   *)
(* late worker neither replaces nor drops the answer that was kept; and    *)
(* success is told of the request's own command, never of another one.     *)
(***************************************************************************)
Leased == INSTANCE OnceCommand WITH
  times <- effects,
  kept <- IF claim.status \in {"ok", "refused"}
            THEN [body |-> claim.body, status |-> claim.status]
            ELSE [body |-> NoBody, status |-> "none"],
  told <- [p \in Workers |-> IF work[p].got = "ok" THEN work[p].body ELSE NoBody]

LeasedIsOnce == Leased!Spec

(* A claim whose worker died does not wedge the key: it ends, by an        *)
(* answer or by its removal, whatever request comes.                       *)
ClaimsEnd == claim.status = "open" ~> claim.status # "open"
=============================================================================
