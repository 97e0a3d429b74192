--------------------------- MODULE CommandProofs ---------------------------
(***************************************************************************)
(* What the commands of the service keep, for any requests, workers,       *)
(* expenses, payments and documents.  The two decorators implement         *)
(* OnceCommand under any number of requests; the filing of expenses keeps  *)
(* its tree and its requests; the money of an office and the accounts of a *)
(* supplier agree with their documents.                                    *)
(***************************************************************************)
EXTENDS Idempotency, AtomicCommand, ExpenseFiling, SupplierDebt, SumProofs

-----------------------------------------------------------------------------
(* One transaction: AtomicCommand.                                         *)

AtomicRow == {NoRow} \cup [body : Commands, status : {"ok", "refused"}]
AtomicRequest == [step : {"idle", "ask", "run", "ran"}, body : Commands \cup {Nobody},
                  got : {"none", "ok", "refused", "reused", "error"}]

AtomicTypeOK ==
  /\ row \in AtomicRow
  /\ request \in [Requests -> AtomicRequest]
  /\ effect \in [Commands -> {0, 1}]

Inside(p) == request[p].step \in {"run", "ran"}

(* A request has a body from its start, and no answer before its end.      *)
Underway(p) == request[p].step # "idle" => request[p].body \in Commands /\ request[p].got = "none"

(* One request at a time is inside, and then no row is committed.          *)
InsideAlone(p) ==
  Inside(p) => row = NoRow /\ \A q \in Requests : Inside(q) => q = p

(* The row is the truth about the effects.                                 *)
RowTrue(b) == effect[b] = 1 <=> row = [body |-> b, status |-> "ok"]

ToldTrue(p) == request[p].got = "ok" => request[p].body \in Commands /\ effect[request[p].body] = 1

AtomicInv ==
  /\ AtomicTypeOK
  /\ \A p \in Requests : Underway(p) /\ InsideAlone(p) /\ ToldTrue(p)
  /\ \A b \in Commands : RowTrue(b)

LEMMA AtomicInitial == AtomicInit => AtomicInv
  BY AtomicCommandAssumption
  DEF AtomicInit, AtomicInv, AtomicTypeOK, AtomicRow, AtomicRequest, Underway, InsideAlone, ToldTrue,
      RowTrue, Inside, NoRow, Waiting, Nobody

LEMMA AtomicStep == AtomicInv /\ [AtomicNext]_atomicVars => AtomicInv'
<1> SUFFICES ASSUME AtomicInv, [AtomicNext]_atomicVars PROVE AtomicInv'
  OBVIOUS
<1> USE AtomicCommandAssumption DEF Nobody
<1> USE DEF AtomicInv, AtomicTypeOK, AtomicRow, AtomicRequest, Underway, InsideAlone, ToldTrue, RowTrue, Inside
<1>1. ASSUME NEW p \in Requests, NEW b \in Commands, Ask(p, b) PROVE AtomicInv'
  BY <1>1 DEF Ask
<1>2. ASSUME NEW p \in Requests, Insert(p) PROVE AtomicInv'
  BY <1>2 DEF Insert, KeyFree
<1>3. ASSUME NEW p \in Requests, Repeat(p) PROVE AtomicInv'
  BY <1>3 DEF Repeat, KeyFree, Reply, Replay, NoRow
<1>4. ASSUME NEW p \in Requests, Execute(p) PROVE AtomicInv'
  BY <1>4 DEF Execute
<1>5. ASSUME NEW p \in Requests, Commit(p) PROVE AtomicInv'
  BY <1>5 DEF Commit, Applied, Kept, Reply, NoRow
<1>6. ASSUME NEW p \in Requests, RefuseCommand(p) PROVE AtomicInv'
  BY <1>6 DEF RefuseCommand, Kept, Reply, NoRow
<1>7. ASSUME NEW p \in Requests, RollBack(p) PROVE AtomicInv'
  BY <1>7 DEF RollBack, Reply
<1>8. CASE UNCHANGED atomicVars
  BY <1>8 DEF atomicVars
<1> QED BY <1>1, <1>2, <1>3, <1>4, <1>5, <1>6, <1>7, <1>8 DEF AtomicNext

(* What the decorator keeps at every moment: the row of the key is the     *)
(* truth about what was executed, whoever is inside.                       *)
THEOREM AtomicInvariant == AtomicSpec => []AtomicInv
BY AtomicInitial, AtomicStep, PTL DEF AtomicSpec

LEMMA AtomicMapsInit == AtomicInit => Atomic!Init
  BY AtomicCommandAssumption
  DEF AtomicInit, Atomic!Init, Atomic!NoAnswer, Atomic!NoBody, NoRow, Waiting, Nobody

LEMMA AtomicMapsStep ==
  AtomicInv /\ AtomicInv' /\ [AtomicNext]_atomicVars => [Atomic!Next]_Atomic!vars
<1> SUFFICES ASSUME AtomicInv, AtomicInv', [AtomicNext]_atomicVars
             PROVE  [Atomic!Next]_Atomic!vars
  OBVIOUS
<1> USE AtomicCommandAssumption DEF Nobody
<1> USE DEF AtomicInv, AtomicTypeOK, AtomicRow, AtomicRequest, ToldTrue, RowTrue
<1> DEFINE told == [p \in Requests |-> IF request[p].got = "ok" THEN request[p].body ELSE Nobody]
(* Whoever is told of a success is told of one that is there.              *)
<1>1. Atomic!Tells
  <2> SUFFICES ASSUME NEW p \in Requests
               PROVE  told'[p] \in {Nobody} \cup {b \in Commands : effect'[b] = 1}
    BY DEF Atomic!Tells, Atomic!NoBody
  <2> QED OBVIOUS
(* Only a commit executes a command, and it keeps the answer with it.      *)
<1>2. ASSUME NEW p \in Requests, Commit(p)
      PROVE  Atomic!Executes /\ Atomic!Keeps
  <2> DEFINE b == request[p].body
  <2>1. b \in Commands /\ row = NoRow /\ row' = [body |-> b, status |-> "ok"]
    BY <1>2 DEF Commit, Kept, Underway, InsideAlone, Inside
  <2>2. effect[b] = 0 /\ effect' = [effect EXCEPT ![b] = 1] /\ effect'[b] = 1
    <3>1. effect[b] = 0
      BY <2>1 DEF NoRow
    <3> QED BY <1>2, <2>1, <3>1 DEF Commit, Applied
  <2>3. Atomic!Executes
    BY <2>1, <2>2 DEF Atomic!Executes, NoRow
  <2>4. Atomic!Keeps
    BY <2>1, <2>2 DEF Atomic!Keeps, Atomic!NoAnswer, Atomic!NoBody, NoRow
  <2> QED BY <2>3, <2>4
(* A refusal that is kept is one of a command that was not executed.       *)
<1>3. ASSUME NEW p \in Requests, RefuseCommand(p)
      PROVE  Atomic!Executes /\ Atomic!Keeps
  <2>1. UNCHANGED effect
    BY <1>3 DEF RefuseCommand
  <2>2. CASE refusal = "kept"
    <3> DEFINE b == request[p].body
    <3>1. b \in Commands /\ row = NoRow /\ row' = [body |-> b, status |-> "refused"]
      BY <1>3, <2>2 DEF RefuseCommand, Kept, Underway, InsideAlone, Inside
    <3>2. effect'[b] # 1
      BY <2>1, <3>1 DEF NoRow
    <3> QED BY <2>1, <3>1, <3>2 DEF Atomic!Executes, Atomic!Keeps, Atomic!NoAnswer, Atomic!NoBody, NoRow
  <2>3. CASE refusal # "kept"
    BY <1>3, <2>1, <2>3 DEF RefuseCommand, Atomic!Executes, Atomic!Keeps
  <2> QED BY <2>2, <2>3
<1>4. ASSUME UNCHANGED <<row, effect>>
      PROVE  Atomic!Executes /\ Atomic!Keeps
  BY <1>4 DEF Atomic!Executes, Atomic!Keeps
<1>5. Atomic!Executes /\ Atomic!Keeps
  BY <1>2, <1>3, <1>4
  DEF AtomicNext, Ask, Insert, Repeat, Execute, RollBack, atomicVars
<1> QED BY <1>1, <1>5 DEF Atomic!Next

(* The atomic_command decorator and the purchase invoices keep the promise *)
(* of an idempotency key, whatever requests race, are refused or die.      *)
THEOREM AtomicOnce == AtomicSpec => AtomicIsOnce
<1>1. AtomicInv /\ AtomicInv' /\ [AtomicNext]_atomicVars => [Atomic!Next]_Atomic!vars
  BY AtomicMapsStep
<1> QED BY <1>1, AtomicMapsInit, AtomicInvariant, PTL DEF AtomicSpec, AtomicIsOnce, Atomic!Spec

-----------------------------------------------------------------------------
(* Claims under a lease: Idempotency.                                      *)

(* There is always a token that is not in use, for a key or for a lease.   *)
LEMMA FreshToken ==
  ASSUME IsFiniteSet(Workers), NEW used \in [Workers -> Nat], NEW t0
  PROVE  \E t \in Token \ {0} : t # t0 /\ \A p \in Workers : used[p] # t
<1> DEFINE T == {used[p] : p \in Workers}
           n == Cardinality(Workers)
<1>1. n \in Nat
  BY FS_CardinalityType
<1>2. IsFiniteSet(T) /\ Cardinality(T) <= n
  <2>1. [p \in Workers |-> used[p]] \in Surjection(Workers, T)
    BY DEF Surjection
  <2> QED BY <2>1, FS_Surjection
<1>3. IsFiniteSet(T \cup {t0}) /\ Cardinality(T \cup {t0}) <= n + 1
  <2> HIDE DEF T
  <2>1. Cardinality(T) \in Nat
    BY <1>2, FS_CardinalityType
  <2>2. /\ IsFiniteSet(T \cup {t0})
        /\ Cardinality(T \cup {t0}) = IF t0 \in T THEN Cardinality(T) ELSE Cardinality(T) + 1
    BY <1>2, FS_AddElement
  <2> HIDE DEF n
  <2> QED BY <1>1, <1>2, <2>1, <2>2
<1>4. Cardinality(1..(n + 2)) = n + 2
  BY <1>1, FS_Interval
<1>5. ~(1..(n + 2) \subseteq T \cup {t0})
  <2> SUFFICES ASSUME 1..(n + 2) \subseteq T \cup {t0} PROVE FALSE
    OBVIOUS
  <2>1. Cardinality(1..(n + 2)) <= Cardinality(T \cup {t0})
    <3> HIDE DEF T, n
    <3> QED BY <1>3, FS_Subset
  <2>2. Cardinality(T \cup {t0}) \in Nat
    BY <1>3, FS_CardinalityType
  <2> HIDE DEF T, n
  <2> QED BY <1>1, <1>3, <1>4, <2>1, <2>2
<1>6. PICK t \in 1..(n + 2) : t \notin T \cup {t0}
  BY <1>5
<1>7. t \in Token \ {0}
  BY <1>1 DEF Token
<1> QED BY <1>6, <1>7

(* What the promise is made under: every request ends before its claim may *)
(* be taken over, a view's commit and its answer are not torn apart, and a *)
(* repetition is let through no earlier than a takeover.                   *)
Dependable == Prompt = TRUE /\ CommitCrash = FALSE /\ Recover >= Ttl

LeaseTyped ==
  /\ claim \in Claim
  /\ work \in [Workers -> Work]
  /\ effects \in [Bodies -> {0, 1}]

Holding(p) == work[p].step \in {"run", "cache", "drop"}

(* Who runs the view, or has run it, holds the claim, alone and in time.   *)
HoldsClaim(p) == Holding(p) =>
  /\ work[p].owns
  /\ claim.pk = work[p].pk /\ claim.status = "open" /\ claim.age < Ttl
  /\ claim.body = work[p].body
  /\ \A q \in Workers : Holding(q) => q = p
  /\ work[p].step = "cache" => work[p].result \in {"ok", "refused"}
  /\ work[p].step = "drop" => work[p].result # "ok"

(* Who lost the key and looks at it again recognises its own request.      *)
SawOwn(p) == work[p].step \in {"takeover", "reread"} =>
  /\ work[p].pk # 0
  /\ claim.pk = work[p].pk => claim.body = work[p].body

(* A claim that may be taken over was not renewed since it was found old.  *)
SawStale(p) == work[p].step = "takeover" /\ Seen(p) => claim.age >= Ttl

Busy(p) == work[p].step # "idle" => work[p].body \in Bodies /\ work[p].got = "none"

(* A command was executed if its success is kept, or about to be.          *)
Executed(b) ==
  effects[b] = 1 <=>
    \/ claim.status = "ok" /\ claim.body = b
    \/ \E p \in Workers : work[p].step = "cache" /\ work[p].result = "ok" /\ work[p].body = b

AnsweredTrue(p) == work[p].got = "ok" => work[p].body \in Bodies /\ effects[work[p].body] = 1

LeaseInv ==
  /\ LeaseTyped
  /\ \A p \in Workers : HoldsClaim(p) /\ SawOwn(p) /\ SawStale(p) /\ Busy(p) /\ AnsweredTrue(p)
  /\ \A b \in Bodies : Executed(b)

LEMMA FreshTokens ==
  ASSUME LeaseTyped
  PROVE  /\ FreshPk \in Token \ {0} /\ FreshPk # claim.pk
         /\ \A p \in Workers : work[p].pk # FreshPk
         /\ FreshLease \in Token \ {0} /\ FreshLease # claim.lease
         /\ \A p \in Workers : work[p].lease # FreshLease
<1>1. IsFiniteSet(Workers) /\ Token \subseteq Nat
  BY IdempotencyAssumption, FS_CardinalityType DEF Token
<1>2. \E t \in Token \ {0} : t # claim.pk /\ \A p \in Workers : work[p].pk # t
  <2> DEFINE used == [p \in Workers |-> work[p].pk]
  <2>1. used \in [Workers -> Nat]
    BY <1>1 DEF LeaseTyped, Work
  <2>2. \E t \in Token \ {0} : t # claim.pk /\ \A p \in Workers : used[p] # t
    <3> HIDE DEF used
    <3> QED BY <1>1, <2>1, FreshToken
  <2> QED BY <2>2
<1>3. \E t \in Token \ {0} : t # claim.lease /\ \A p \in Workers : work[p].lease # t
  <2> DEFINE used == [p \in Workers |-> work[p].lease]
  <2>1. used \in [Workers -> Nat]
    BY <1>1 DEF LeaseTyped, Work
  <2>2. \E t \in Token \ {0} : t # claim.lease /\ \A p \in Workers : used[p] # t
    <3> HIDE DEF used
    <3> QED BY <1>1, <2>1, FreshToken
  <2> QED BY <2>2
<1> QED BY <1>2, <1>3 DEF FreshPk, FreshLease

LEMMA NoToken == 0 \in Token
  BY IdempotencyAssumption, FS_CardinalityType DEF Token

LEMMA TakesOver ==
  ASSUME NEW w \in Work, NEW k \in Token, NEW l \in Token
  PROVE  [w EXCEPT !.step = "takeover", !.pk = k, !.lease = l] \in Work
  BY DEF Work, Step

LEMMA LeaseInitial == Init => LeaseInv
  BY IdempotencyAssumption, NoToken
  DEF Init, LeaseInv, LeaseTyped, Claim, Work, Step, Answer, Idle, Blank, NoClaim, NoBody, Holding,
      HoldsClaim, SawOwn, SawStale, Busy, Executed, AnsweredTrue, Seen

LEMMA LeaseStep ==
  ASSUME Dependable, LeaseInv, [Next]_vars
  PROVE  LeaseInv'
<1> USE IdempotencyAssumption, NoToken DEF Dependable, NoBody
<1> USE DEF LeaseInv, LeaseTyped, Claim, Work, Step, Answer, Holding, HoldsClaim, SawOwn, SawStale,
            Busy, Executed, AnsweredTrue, Seen
<1>1. ASSUME NEW p \in Workers, NEW b \in Bodies, Arrive(p, b) PROVE LeaseInv'
  BY <1>1 DEF Arrive, Blank
<1>2. ASSUME NEW p \in Workers, ClaimKey(p) PROVE LeaseInv'
  <2>1. /\ work[p].step = "claim" /\ claim = NoClaim /\ UNCHANGED effects
        /\ FreshPk \in Token \ {0} /\ FreshLease \in Token \ {0}
        /\ \A q \in Workers : work[q].pk # FreshPk /\ work[q].lease # FreshLease
    BY <1>2, FreshTokens DEF ClaimKey
  <2>2. LeaseTyped'
    BY <1>2, <2>1 DEF ClaimKey
  <2>3. \A q \in Workers : HoldsClaim(q)'
    BY <1>2, <2>1 DEF ClaimKey, NoClaim
  <2>4. \A q \in Workers : SawOwn(q)' /\ SawStale(q)'
    BY <1>2, <2>1 DEF ClaimKey, NoClaim
  <2>5. \A q \in Workers : Busy(q)' /\ AnsweredTrue(q)'
    BY <1>2, <2>1 DEF ClaimKey, NoClaim
  <2>6. \A b \in Bodies : Executed(b)'
    BY <1>2, <2>1 DEF ClaimKey, NoClaim
  <2> QED BY <2>2, <2>3, <2>4, <2>5, <2>6
<1>3. ASSUME NEW p \in Workers, LoseKey(p) PROVE LeaseInv'
  BY <1>3 DEF LoseKey, Goes
<1>4. ASSUME NEW p \in Workers, Look(p) PROVE LeaseInv'
  <2>1. work[p].step = "look" /\ UNCHANGED <<claim, effects>>
    BY <1>4 DEF Look
  <2>2. ASSUME NEW a \in {"busy", "reused", "refused"}, Answers(p, a) PROVE LeaseInv'
    BY <2>1, <2>2 DEF Answers, Blank
  <2>3. CASE claim = NoClaim /\ Answers(p, "busy")
    BY <2>2, <2>3
  <2>4. CASE claim # NoClaim /\ ~Exact(p) /\ Answers(p, "reused")
    BY <2>2, <2>4
  <2>5. CASE Exact(p) /\ claim.status # "open" /\ Answers(p, claim.status)
    <3>1. claim.status \in {"ok", "refused"} /\ claim.body = work[p].body /\ work[p].body \in Bodies
      BY <2>1, <2>5 DEF Exact
    <3>2. CASE claim.status = "ok"
      <4>1. effects[work[p].body] = 1
        BY <3>1, <3>2
      <4> QED BY <2>1, <2>5, <3>1, <3>2, <4>1 DEF Answers, Blank
    <3> QED BY <2>2, <2>5, <3>1, <3>2
  <2>6. CASE /\ Exact(p) /\ claim.status = "open" /\ ~Stale
             /\ IF claim.age < Recover
                  THEN Answers(p, "busy")
                  ELSE work' = [work EXCEPT ![p].step = "run", ![p].pk = claim.pk]
    <3>1. claim.age < Recover
      BY <2>6 DEF Stale, Exact
    <3> QED BY <2>2, <2>6, <3>1
  <2>7. CASE /\ Exact(p) /\ claim.status = "open" /\ Stale
             /\ work' = [work EXCEPT ![p].step = "takeover", ![p].pk = claim.pk,
                                     ![p].lease = claim.lease]
    <3>1. /\ claim.pk \in Token \ {0} /\ claim.lease \in Token /\ claim.age >= Ttl
          /\ claim.body = work[p].body
      BY <2>7 DEF Exact, Stale, NoClaim
    <3>2. work' \in [Workers -> Work]
      <4>1. work \in [Workers -> Work] /\ claim.pk \in Token /\ claim.lease \in Token
        BY <3>1
      <4> HIDE DEF LeaseInv, LeaseTyped, Claim, Work, Step, Answer
      <4> DEFINE r == [work[p] EXCEPT !.step = "takeover", !.pk = claim.pk, !.lease = claim.lease]
      <4>2. r \in Work
        BY <4>1, TakesOver
      <4>3. work' = [work EXCEPT ![p] = r]
        BY <2>7
      <4> HIDE DEF r
      <4> QED BY <4>1, <4>2, <4>3
    <3>3. \A q \in Workers : HoldsClaim(q)' /\ SawOwn(q)' /\ SawStale(q)'
      BY <2>1, <2>7, <3>1
    <3>4. \A q \in Workers : Busy(q)' /\ AnsweredTrue(q)'
      BY <2>1, <2>7
    <3>5. \A b \in Bodies : Executed(b)'
      BY <2>1, <2>7
    <3> QED BY <2>1, <3>2, <3>3, <3>4, <3>5
  <2> QED BY <1>4, <2>3, <2>4, <2>5, <2>6, <2>7 DEF Look
<1>5. ASSUME NEW p \in Workers, TakeOver(p) PROVE LeaseInv'
  BY <1>5, FreshTokens, SMTT(30) DEF TakeOver, Goes, NoClaim
<1>6. ASSUME NEW p \in Workers, Reread(p) PROVE LeaseInv'
  BY <1>6 DEF Reread, Answers, Blank, NoClaim
<1>7. ASSUME NEW p \in Workers, ViewSucceeds(p) PROVE LeaseInv'
  <2> DEFINE b == work[p].body
  <2>1. b \in Bodies /\ claim.status = "open" /\ UNCHANGED claim
    BY <1>7 DEF ViewSucceeds
  <2>2. \A q \in Workers : work[q].step # "cache"
    BY <1>7 DEF ViewSucceeds
  <2>3. effects[b] = 0
    BY <2>1, <2>2
  <2>4. effects' = [effects EXCEPT ![b] = 1]
    BY <1>7, <2>3 DEF ViewSucceeds, Commits, Done
  <2>5. /\ work' \in [Workers -> Work]
        /\ \A q \in Workers \ {p} : work'[q] = work[q]
        /\ work'[p].step = "cache" /\ work'[p].result = "ok" /\ work'[p].body = b
        /\ work'[p].got = work[p].got
    <3>1. work \in [Workers -> Work] /\ work[p] \in Work
      OBVIOUS
    <3> HIDE DEF LeaseInv, LeaseTyped, Claim, Work, Step, Answer
    <3> DEFINE r == [work[p] EXCEPT !.step = "cache", !.result = "ok"]
    <3>2. /\ r \in Work /\ r.step = "cache" /\ r.result = "ok" /\ r.body = b
          /\ r.got = work[p].got
      BY <3>1 DEF Work, Step, Answer
    <3>3. work' = [work EXCEPT ![p] = r]
      BY <1>7 DEF ViewSucceeds
    <3> HIDE DEF r, b
    <3> QED BY <3>1, <3>2, <3>3
  <2>6. \A c \in Bodies : Executed(c)'
    BY <2>1, <2>2, <2>3, <2>4, <2>5
  <2>7. \A q \in Workers : HoldsClaim(q)' /\ SawOwn(q)' /\ SawStale(q)' /\ Busy(q)'
    BY <1>7, <2>1, <2>5 DEF ViewSucceeds
  <2>8. \A q \in Workers : AnsweredTrue(q)'
    BY <2>1, <2>3, <2>4, <2>5
  <2> QED BY <2>1, <2>4, <2>5, <2>6, <2>7, <2>8
<1>8. ASSUME NEW p \in Workers, ViewRefuses(p) PROVE LeaseInv'
  BY <1>8 DEF ViewRefuses, AfterRefusal, Done
<1>9. ASSUME NEW p \in Workers, ViewRaises(p) PROVE LeaseInv'
  BY <1>9 DEF ViewRaises
<1>10. ASSUME NEW p \in Workers, Cache(p) PROVE LeaseInv'
  BY <1>10 DEF Cache, Answers, Blank, NoClaim
<1>11. ASSUME NEW p \in Workers, DropClaim(p) PROVE LeaseInv'
  BY <1>11 DEF DropClaim, Drops, Answers, Blank, NoClaim
<1>12. ASSUME NEW p \in Workers, Die(p) PROVE LeaseInv'
  BY <1>12 DEF Die, Idle, Blank
<1>13. CASE Tick
  BY <1>13 DEF Tick, Owner, NoClaim
<1>14. CASE UNCHANGED vars
  BY <1>14 DEF vars
<1> QED BY <1>1, <1>2, <1>3, <1>4, <1>5, <1>6, <1>7, <1>8, <1>9, <1>10, <1>11, <1>12, <1>13, <1>14
  DEF Next, Handles

LEMMA LeaseMapsInit == Init => Leased!Init
  BY IdempotencyAssumption
  DEF Init, Leased!Init, Leased!NoAnswer, Leased!NoBody, Idle, Blank, NoClaim, NoBody

LEMMA LeaseMapsStep ==
  ASSUME Dependable, LeaseInv, LeaseInv', [Next]_vars
  PROVE  [Leased!Next]_Leased!vars
<1> USE IdempotencyAssumption DEF Dependable, NoBody
<1> USE DEF LeaseInv, LeaseTyped, Claim, Work, Step, Answer
<1> DEFINE told == [p \in Workers |-> IF work[p].got = "ok" THEN work[p].body ELSE NoBody]
(* Whoever is told of a success is told of one that is there.              *)
<1>1. Leased!Tells
  <2> SUFFICES ASSUME NEW p \in Workers
               PROVE  told'[p] \in {NoBody} \cup {b \in Bodies : effects'[b] = 1}
    BY DEF Leased!Tells, Leased!NoBody
  <2> QED BY DEF AnsweredTrue
(* The view of the worker that holds the claim executes the command, while *)
(* no answer is kept.                                                      *)
<1>2. ASSUME NEW p \in Workers, ViewSucceeds(p)
      PROVE  Leased!Executes /\ Leased!Keeps
  <2> DEFINE b == work[p].body
  <2>1. b \in Bodies /\ claim.status = "open" /\ UNCHANGED claim
    BY <1>2 DEF ViewSucceeds, HoldsClaim, Holding, Busy
  <2>2. \A q \in Workers : work[q].step # "cache"
    BY <1>2 DEF ViewSucceeds, HoldsClaim, Holding
  <2>3. effects[b] = 0
    BY <2>1, <2>2 DEF Executed
  <2>4. effects' = [effects EXCEPT ![b] = 1]
    BY <1>2, <2>3 DEF ViewSucceeds, Commits, Done
  <2> QED BY <2>1, <2>3, <2>4 DEF Leased!Executes, Leased!Keeps
(* Only the holder's answer is kept, the first one, and it is true.        *)
<1>3. ASSUME NEW p \in Workers, Cache(p)
      PROVE  Leased!Executes /\ Leased!Keeps
  <2> DEFINE b == work[p].body
             r == work[p].result
  <2>1. /\ b \in Bodies /\ claim.status = "open" /\ claim.body = b /\ claim.pk = work[p].pk
        /\ r \in {"ok", "refused"}
        /\ \A q \in Workers : work[q].step = "cache" => q = p
    BY <1>3 DEF Cache, HoldsClaim, Holding, Busy
  <2>2. UNCHANGED effects /\ claim' = [claim EXCEPT !.status = r]
    BY <1>3, <2>1 DEF Cache
  <2>3. effects[b] = 1 <=> r = "ok"
    BY <1>3, <2>1 DEF Executed, Cache
  <2>4. claim'.status = r /\ claim'.body = b
    BY <2>1, <2>2 DEF NoClaim
  <2>5. [body |-> claim'.body, status |-> claim'.status]
          = [body |-> b, status |-> IF effects'[b] = 1 THEN "ok" ELSE "refused"]
    BY <2>1, <2>2, <2>3, <2>4
  <2> QED BY <2>1, <2>2, <2>4, <2>5 DEF Leased!Executes, Leased!Keeps, Leased!NoAnswer, Leased!NoBody
(* A kept answer is neither dropped nor taken over.                        *)
<1>4. ASSUME UNCHANGED effects,
             \/ UNCHANGED claim
             \/ claim.status \in {"none", "open"} /\ claim'.status \in {"none", "open"}
      PROVE  Leased!Executes /\ Leased!Keeps
  BY <1>4 DEF Leased!Executes, Leased!Keeps
<1>5. ASSUME NEW p \in Workers, ClaimKey(p) \/ TakeOver(p) \/ DropClaim(p)
      PROVE  Leased!Executes /\ Leased!Keeps
  <2>1. CASE ClaimKey(p)
    BY <1>4, <2>1 DEF ClaimKey, NoClaim
  <2>2. CASE TakeOver(p)
    <3>1. CASE Seen(p)
      <4>1. claim.status = "open" /\ UNCHANGED effects
        BY <2>2, <3>1 DEF TakeOver, Seen
      <4>2. claim'.status = "open"
        BY <2>2, <3>1, <4>1 DEF TakeOver, NoClaim
      <4> HIDE DEF LeaseInv, LeaseTyped, Claim, Work, Step, Answer
      <4> QED BY <1>4, <4>1, <4>2
    <3>2. CASE ~Seen(p)
      BY <1>4, <2>2, <3>2 DEF TakeOver
    <3> QED BY <3>1, <3>2
  <2>3. CASE DropClaim(p)
    BY <1>4, <2>3 DEF DropClaim, Drops, NoClaim
  <2> QED BY <1>5, <2>1, <2>2, <2>3
<1>6. ASSUME NEW p \in Workers, ViewRaises(p)
      PROVE  Leased!Executes /\ Leased!Keeps
  BY <1>4, <1>6 DEF ViewRaises
<1>7. ASSUME Tick
      PROVE  Leased!Executes /\ Leased!Keeps
  <2>1. claim.status = "open" /\ UNCHANGED effects
    BY <1>7 DEF Tick
  <2>2. claim'.status = "open"
    BY <1>7 DEF Tick, NoClaim
  <2> HIDE DEF LeaseInv, LeaseTyped, Claim, Work, Step, Answer
  <2> QED BY <1>4, <2>1, <2>2
<1>8. Leased!Executes /\ Leased!Keeps
  <2> HIDE DEF LeaseInv, LeaseTyped, Claim, Work, Step, Answer
  <2>1. ASSUME UNCHANGED <<claim, effects>> PROVE Leased!Executes /\ Leased!Keeps
    BY <1>4, <2>1
  <2>2. ASSUME NEW p \in Workers,
               \/ LoseKey(p) \/ Look(p) \/ Reread(p) \/ ViewRefuses(p) \/ Die(p)
               \/ \E b \in Bodies : Arrive(p, b)
        PROVE  UNCHANGED <<claim, effects>>
    BY <2>2 DEF LoseKey, Look, Reread, ViewRefuses, Die, Arrive
  <2>3. ASSUME UNCHANGED vars PROVE Leased!Executes /\ Leased!Keeps
    BY <2>1, <2>3 DEF vars
  <2>4. ASSUME NEW p \in Workers, Handles(p) \/ Die(p) \/ \E b \in Bodies : Arrive(p, b)
        PROVE  Leased!Executes /\ Leased!Keeps
    BY <1>2, <1>3, <1>5, <1>6, <2>1, <2>2, <2>4 DEF Handles
  <2> QED BY <1>7, <2>3, <2>4 DEF Next
<1> QED BY <1>1, <1>8 DEF Leased!Next

(* The idempotent decorator keeps the promise of a key for every request   *)
(* that is answered before its claim may be taken over and is not torn     *)
(* from its answer: however requests repeat, race, die and take over.      *)
THEOREM LeasedOnce == Dependable => (Spec => LeasedIsOnce)
<1> SUFFICES ASSUME Dependable PROVE Spec => LeasedIsOnce
  OBVIOUS
<1>1. LeaseInv /\ [Next]_vars => LeaseInv'
  BY LeaseStep
<1>2. LeaseInv /\ LeaseInv' /\ [Next]_vars => [Leased!Next]_Leased!vars
  BY LeaseMapsStep
<1> QED BY <1>1, <1>2, LeaseInitial, LeaseMapsInit, PTL DEF Spec, LeasedIsOnce, Leased!Spec

-----------------------------------------------------------------------------
(* The categories of expenses: ExpenseFiling.                              *)

CategoryRows == [parent : Categories \cup {"root", "none"}, active : BOOLEAN, sources : SUBSET Kinds]

FilingTypeOK ==
  /\ category \in [Categories -> CategoryRows]
  /\ keeping \in [Categories -> CategoryRows]
  /\ filed \in [Expenses -> [category : Categories \cup {"none"}, sources : SUBSET Kinds]]
  /\ moved \in [Moves -> {0, 1}]

(* A category that is there allows something, and its parent is a root.    *)
TwoLevels(c) ==
  There(c) =>
    /\ category[c].sources # {}
    /\ category[c].parent # "root" =>
         /\ category[c].parent \in Categories
         /\ There(category[c].parent)
         /\ category[category[c].parent].parent = "root"

(* A change that keeps the parent finds it as it left it.                  *)
KeepsParent(c) ==
  ~Free(c) =>
    /\ There(c)
    /\ keeping[c].sources # {}
    /\ keeping[c].parent = category[c].parent /\ keeping[c].parent # "root"

FiledRight(e) == filed[e] # NotFiled => Source[e] \in filed[e].sources

FilingInv ==
  /\ FilingTypeOK
  /\ \A c \in Categories : TwoLevels(c) /\ KeepsParent(c)
  /\ \A e \in Expenses : FiledRight(e)

LEMMA FilingInitial == FilingInit => FilingInv
<1> SUFFICES ASSUME FilingInit PROVE FilingInv
  OBVIOUS
<1> DEFINE seeded == CategoryRow("root", TRUE, Kinds)
<1>1. /\ seeded \in CategoryRows /\ NoCategory \in CategoryRows
      /\ seeded.sources # {} /\ seeded.parent = "root"
  BY DEF CategoryRow, CategoryRows, NoCategory, Kinds
<1>2. \A c \in Categories : category[c] \in {seeded, NoCategory} /\ keeping[c] = NoCategory
  BY DEF FilingInit
<1>3. FilingTypeOK
  BY <1>1 DEF FilingInit, FilingTypeOK, NotFiled
<1>4. \A c \in Categories : TwoLevels(c) /\ KeepsParent(c)
  <2> HIDE DEF seeded
  <2> QED BY <1>1, <1>2 DEF TwoLevels, KeepsParent, There, Free
<1>5. \A e \in Expenses : FiledRight(e)
  BY DEF FilingInit, FiledRight
<1> QED BY <1>3, <1>4, <1>5 DEF FilingInv

(* A row that is written keeps the tree two levels deep, if it may stand   *)
(* where it does.                                                          *)
LEMMA WriteKeeps ==
  ASSUME FilingInv, NEW c \in Categories, NEW new \in CategoryRows, new.sources # {},
         category' = [category EXCEPT ![c] = new],
         new.parent # "root" => /\ new.parent \in Categories \ {c} /\ There(new.parent)
                                /\ category[new.parent].parent = "root"
                                /\ Under(c) = {}
  PROVE  /\ category' \in [Categories -> CategoryRows]
         /\ \A d \in Categories : TwoLevels(d)' /\ (There(d) => There(d)')
<1> USE DEF FilingInv, FilingTypeOK
<1>1. category' \in [Categories -> CategoryRows]
  OBVIOUS
<1>2. \A d \in Categories : There(d) => There(d)'
  BY DEF There, NoCategory, CategoryRows
<1>3. ASSUME NEW d \in Categories, There(d)' PROVE TwoLevels(d)'
  <2>1. CASE d = c
    BY <2>1, <1>2 DEF There, TwoLevels
  <2>2. CASE d # c
    <3>1. There(d) /\ category'[d] = category[d] /\ TwoLevels(d)
      BY <1>3, <2>2 DEF There
    <3>2. CASE category[d].parent = "root"
      BY <3>1, <3>2 DEF TwoLevels
    <3>3. CASE category[d].parent # "root"
      <4>1. category[d].parent = c => d \in Under(c)
        BY <3>1 DEF Under
      <4>2. category[d].parent = c => new.parent = "root"
        BY <4>1
      <4> QED BY <1>2, <3>1, <3>3, <4>2 DEF TwoLevels
    <3> QED BY <3>2, <3>3
  <2> QED BY <2>1, <2>2
<1>4. \A d \in Categories : TwoLevels(d)'
  BY <1>3 DEF TwoLevels
<1> QED BY <1>1, <1>2, <1>4

LEMMA FilingStep == FilingInv /\ FilingNext => FilingInv' /\ KeepsFiling
<1> SUFFICES ASSUME FilingInv, FilingNext PROVE FilingInv' /\ KeepsFiling
  OBVIOUS
<1> DEFINE Sources == {{"SAFE"}, Kinds}
<1>t. FilingTypeOK /\ \A c \in Categories : TwoLevels(c) /\ KeepsParent(c)
  BY DEF FilingInv
(* Steps that write a category.                                            *)
<1>a. ASSUME NEW c \in Categories, NEW new \in CategoryRows, new.sources # {},
             category' = [category EXCEPT ![c] = new],
             new.parent # "root" => /\ new.parent \in Categories \ {c} /\ There(new.parent)
                                    /\ category[new.parent].parent = "root"
                                    /\ Under(c) = {},
             \/ Free(c) /\ UNCHANGED keeping
             \/ keeping' = [keeping EXCEPT ![c] = NoCategory],
             UNCHANGED <<filed, moved>>
      PROVE  FilingInv' /\ KeepsFiling
  <2>1. /\ category' \in [Categories -> CategoryRows]
        /\ \A d \in Categories : TwoLevels(d)' /\ (There(d) => There(d)')
    BY <1>a, WriteKeeps
  <2>2. NoCategory \in CategoryRows
    BY DEF NoCategory, CategoryRows
  <2>3. keeping' \in [Categories -> CategoryRows]
    BY <1>a, <1>t, <2>2 DEF FilingTypeOK
  <2>4. ASSUME NEW d \in Categories PROVE KeepsParent(d)'
    <3>1. Free(c)'
      BY <1>a, <1>t DEF FilingTypeOK, Free
    <3>2. CASE d = c
      BY <3>1, <3>2 DEF KeepsParent
    <3>3. CASE d # c
      <4>1. category'[d] = category[d] /\ keeping'[d] = keeping[d]
        BY <1>a, <1>t, <3>3 DEF FilingTypeOK
      <4> QED BY <4>1, <2>1, <1>t DEF KeepsParent, Free
    <3> QED BY <3>2, <3>3
  <2>5. FilingInv'
    BY <1>a, <2>1, <2>3, <2>4 DEF FilingInv, FilingTypeOK, FiledRight
  <2>6. KeepsFiling
    BY <1>a, <2>1, <2>5 DEF FilingInv, FilingTypeOK, FiledRight, KeepsFiling, TwoLevels
  <2> QED BY <2>5, <2>6
(* Steps that leave the tree as it is.                                     *)
<1>b. ASSUME UNCHANGED category, NEW c \in Categories, NEW new \in CategoryRows,
             \/ UNCHANGED keeping
             \/ /\ keeping' = [keeping EXCEPT ![c] = new]
                /\ There(c) /\ new.sources # {} /\ new.parent = category[c].parent
                /\ new.parent # "root"
      PROVE  /\ keeping' \in [Categories -> CategoryRows] /\ category' \in [Categories -> CategoryRows]
             /\ \A d \in Categories : TwoLevels(d)' /\ KeepsParent(d)'
  BY <1>b, <1>t DEF FilingTypeOK, TwoLevels, KeepsParent, There, Free
<1>c. ASSUME UNCHANGED <<category, keeping>>
      PROVE  /\ keeping' \in [Categories -> CategoryRows] /\ category' \in [Categories -> CategoryRows]
             /\ \A d \in Categories : TwoLevels(d)' /\ KeepsParent(d)'
  BY <1>c, <1>t DEF FilingTypeOK, TwoLevels, KeepsParent, There, Free
<1>d. ASSUME /\ keeping' \in [Categories -> CategoryRows] /\ category' \in [Categories -> CategoryRows]
             /\ \A d \in Categories : TwoLevels(d)' /\ KeepsParent(d)',
             /\ filed' \in [Expenses -> [category : Categories \cup {"none"}, sources : SUBSET Kinds]]
             /\ moved' \in [Moves -> {0, 1}]
             /\ \A e \in Expenses : \/ filed'[e] = filed[e]
                                    \/ /\ Source[e] \in filed'[e].sources
                                       /\ expense[e] \in {"NONE", "PENDING"}
      PROVE  FilingInv' /\ KeepsFiling
  BY <1>d DEF FilingInv, FilingTypeOK, FiledRight, KeepsFiling, TwoLevels
<1>1. ASSUME NEW c \in Categories, Deactivate(c) PROVE FilingInv' /\ KeepsFiling
  <2> DEFINE new == [category[c] EXCEPT !.active = FALSE]
  <2>1. new \in CategoryRows /\ new.sources # {} /\ new.parent = category[c].parent
    <3>1. category[c] \in CategoryRows /\ category[c].sources # {}
      BY <1>1, <1>t DEF Deactivate, FilingTypeOK, TwoLevels
    <3> QED BY <3>1 DEF CategoryRows
  <2>2. TwoLevels(c) /\ There(c)
    BY <1>1, <1>t DEF Deactivate
  <2>3. new.parent # "root" => /\ new.parent \in Categories \ {c} /\ There(new.parent)
                               /\ category[new.parent].parent = "root"
                               /\ Under(c) = {}
    BY <2>1, <2>2, <1>t, FilingAssumption DEF TwoLevels, Under
  <2>4. /\ category' = [category EXCEPT ![c] = new] /\ Free(c) /\ UNCHANGED keeping
        /\ UNCHANGED <<filed, moved>>
    BY <1>1 DEF Deactivate, Write
  <2> HIDE DEF new
  <2> QED BY <2>1, <2>3, <2>4, <1>a
<1>2. ASSUME NEW c \in Categories, EndKeep(c) PROVE FilingInv' /\ KeepsFiling
  <2>1. keeping[c] \in CategoryRows /\ KeepsParent(c) /\ ~Free(c) /\ TwoLevels(c) /\ There(c)
    BY <1>2, <1>t DEF EndKeep, FilingTypeOK, KeepsParent
  <2>2. /\ keeping[c].parent \in Categories \ {c} /\ There(keeping[c].parent)
        /\ category[keeping[c].parent].parent = "root"
        /\ Under(c) = {} /\ keeping[c].sources # {}
    BY <2>1, <1>t, FilingAssumption DEF TwoLevels, KeepsParent, Under
  <2>3. /\ category' = [category EXCEPT ![c] = keeping[c]]
        /\ keeping' = [keeping EXCEPT ![c] = NoCategory] /\ UNCHANGED <<filed, moved>>
    BY <1>2 DEF EndKeep, Write
  <2> QED BY <2>1, <2>2, <2>3, <1>a
<1>3. ASSUME NEW c \in Categories, NEW on \in BOOLEAN, NEW sources \in {{"SAFE"}, Kinds},
             BeginKeep(c, on, sources)
      PROVE  FilingInv' /\ KeepsFiling
  <2> DEFINE new == CategoryRow(category[c].parent, on, sources)
  <2>1. new \in CategoryRows /\ new.sources # {} /\ new.parent = category[c].parent
    BY <1>t DEF FilingTypeOK, CategoryRow, CategoryRows, Kinds
  <2>2. /\ keeping' = [keeping EXCEPT ![c] = new] /\ There(c) /\ category[c].parent # "root"
        /\ UNCHANGED <<category, filed, moved>>
    BY <1>3 DEF BeginKeep
  <2> HIDE DEF new
  <2>3. /\ keeping' \in [Categories -> CategoryRows] /\ category' \in [Categories -> CategoryRows]
        /\ \A d \in Categories : TwoLevels(d)' /\ KeepsParent(d)'
    BY <2>1, <2>2, <1>b
  <2> QED BY <2>2, <2>3, <1>t, <1>d DEF FilingTypeOK
<1>4. ASSUME NEW c \in Categories, NEW on \in BOOLEAN, NEW sources \in {{"SAFE"}, Kinds},
             NEW p \in Categories \cup {"root"},
             CreateCategory(c, p, on, sources) \/ UpdateCategory(c, p, on, sources)
      PROVE  FilingInv' /\ KeepsFiling
  <2> DEFINE new == CategoryRow(p, on, sources)
  <2>1. new \in CategoryRows /\ new.sources # {} /\ new.parent = p
    BY DEF CategoryRow, CategoryRows, Kinds
  <2>2. MayBeUnder(c, p, on)
    BY <1>4 DEF CreateCategory, UpdateCategory
  <2>3. new.parent # "root" => /\ new.parent \in Categories \ {c} /\ There(new.parent)
                               /\ category[new.parent].parent = "root"
                               /\ Under(c) = {}
    BY <2>1, <2>2 DEF MayBeUnder
  <2>4. Free(c)
    BY <1>4, <1>t DEF CreateCategory, UpdateCategory, KeepsParent
  <2>5. /\ category' = [category EXCEPT ![c] = new] /\ UNCHANGED keeping /\ UNCHANGED <<filed, moved>>
    BY <1>4 DEF CreateCategory, UpdateCategory, Write
  <2> HIDE DEF new
  <2> QED BY <2>1, <2>3, <2>4, <2>5, <1>a
<1>5. ASSUME NEW e \in Expenses, Decide(e) PROVE FilingInv' /\ KeepsFiling
  <2>1. UNCHANGED <<category, keeping, filed, moved>>
    BY <1>5 DEF Decide, filing, tree
  <2> QED BY <2>1, <1>c, <1>d, <1>t DEF FilingTypeOK
<1>6. ASSUME NEW e \in Expenses, NEW c \in Categories, File(e, c) PROVE FilingInv' /\ KeepsFiling
  <2>1. UNCHANGED <<category, keeping, moved>> /\ filed' = [filed EXCEPT ![e] = Copy(c)]
    BY <1>6 DEF File, tree
  <2>2. Copy(c) \in [category : Categories \cup {"none"}, sources : SUBSET Kinds]
    BY <1>t DEF Copy, FilingTypeOK, CategoryRows
  <2>3. Source[e] \in Copy(c).sources /\ expense[e] = "NONE"
    BY <1>6 DEF File, Allows, Copy, AskFor, Turns
  <2> QED BY <2>1, <2>2, <2>3, <1>c, <1>d, <1>t DEF FilingTypeOK
<1>7. ASSUME NEW q \in Moves, ReclassifyPending(q) PROVE FilingInv' /\ KeepsFiling
  <2> DEFINE es == Moving[q].requests  c == Moving[q].to
  <2>1. /\ UNCHANGED <<category, keeping>> /\ moved' = [moved EXCEPT ![q] = @ + 1]
        /\ filed' = [e \in Expenses |-> IF e \in es THEN Copy(c) ELSE filed[e]]
        /\ moved[q] \in {0, 1} /\ ~(moved[q] > 0)
    BY <1>7, <1>t DEF ReclassifyPending, Refile, tree, Answered, FilingTypeOK
  <2>2. c \in Categories
    BY FilingAssumption
  <2>3. Copy(c) \in [category : Categories \cup {"none"}, sources : SUBSET Kinds]
    BY <1>t, <2>2 DEF Copy, FilingTypeOK, CategoryRows
  <2>4. \A e \in es : Source[e] \in Copy(c).sources /\ expense[e] = "PENDING"
    BY <1>7 DEF ReclassifyPending, Allows, Copy, AllPending
  <2>5. moved' \in [Moves -> {0, 1}]
    BY <2>1, <1>t DEF FilingTypeOK
  <2> HIDE DEF es, c
  <2>6. filed' \in [Expenses -> [category : Categories \cup {"none"}, sources : SUBSET Kinds]]
    BY <2>1, <2>3, <1>t DEF FilingTypeOK
  <2> QED BY <2>1, <2>4, <2>5, <2>6, <1>c, <1>d
<1> QED
  BY <1>1, <1>2, <1>3, <1>4, <1>5, <1>6, <1>7 DEF FilingNext

(* Whatever changes of the tree cross each other and however often a move  *)
(* is sent again, the tree stays two levels deep, requests stand where     *)
(* they were allowed and decided requests stay where they were decided.    *)
THEOREM RequestsStayFiled == FilingSpec => FilingHolds
<1>1. ASSUME FilingInv, UNCHANGED filingVars PROVE FilingInv'
  BY <1>1 DEF filingVars, filing, tree, FilingInv, FilingTypeOK, TwoLevels, KeepsParent, FiledRight,
              There, Free
<1>2. FilingInv /\ [FilingNext]_filingVars => FilingInv'
  BY <1>1, FilingStep
<1>3. FilingInv /\ [FilingNext]_filingVars => [KeepsFiling]_<<filing, expense>>
  BY FilingStep DEF filingVars
<1> QED BY FilingInitial, <1>2, <1>3, PTL DEF FilingSpec, FilingHolds

-----------------------------------------------------------------------------
(* The money of an office: OfficeExpenses and SupplierDebt over Treasury.  *)

PaymentRow ==
  {[status |-> "NONE"]} \cup
  [status : {"POSTED", "REVERSED"}, source : Kinds, on : [Targets -> Nat]]

MoneyTyped ==
  /\ IsFiniteSet(Rows) /\ \A r \in Rows : r.delta \in Int
  /\ balance \in [Kinds -> Int]
  /\ expense \in [Expenses -> ExpenseStatuses]
  /\ payment \in [Payments -> PaymentRow]

(* A request has taken its money once it is paid, and got it back when it  *)
(* is voided; a payment likewise.                                          *)
ExpenseBooked(e) ==
  /\ OfCommand(e, {"EXPENSE"}) = IF expense[e] \in {"PAID", "VOIDED"} THEN {Debit(e)} ELSE {}
  /\ OfCommand(e, {"REVERSAL"}) = IF expense[e] = "VOIDED" THEN {Back(Debit(e))} ELSE {}

Withdrawal(p) == Spent(p, payment[p].source, Debited(p), "SUPPLIER_PAYMENT")

PaymentBooked(p) ==
  /\ OfCommand(p, {"SUPPLIER_PAYMENT"}) =
       IF payment[p].status = "NONE" THEN {} ELSE {Withdrawal(p)}
  /\ OfCommand(p, {"REVERSAL"}) =
       IF payment[p].status = "REVERSED" THEN {Back(Withdrawal(p))} ELSE {}

Booked ==
  /\ \A e \in Expenses : ExpenseBooked(e)
  /\ \A p \in Payments : PaymentBooked(p)

MoneyInv == MoneyTyped /\ Booked /\ MoneyIsDocumented

-----------------------------------------------------------------------------
(* Sums of rows.                                                           *)

LEMMA DeltasInt ==
  ASSUME NEW S, IsFiniteSet(S), \A r \in S : r.delta \in Int
  PROVE  Deltas(S) \in Int
<1> DEFINE f == [r \in S |-> r.delta]
<1>1. \A r \in S : f[r] \in Int
  OBVIOUS
<1> HIDE DEF f
<1>2. SumFunctionOnSet(f, S) \in Int
  BY <1>1, SumInt
<1> QED BY <1>2 DEF Deltas, f

LEMMA DeltasUnion ==
  ASSUME NEW S, IsFiniteSet(S), NEW T, IsFiniteSet(T), S \cap T = {},
         \A r \in S \cup T : r.delta \in Int
  PROVE  Deltas(S \cup T) = Deltas(S) + Deltas(T)
<1> DEFINE f == [r \in S \cup T |-> r.delta]  g == [r \in S |-> r.delta]  h == [r \in T |-> r.delta]
<1>1. /\ \A r \in S \cup T : f[r] \in Int
      /\ \A r \in S : f[r] = g[r]
      /\ \A r \in T : f[r] = h[r]
  OBVIOUS
<1> HIDE DEF f, g, h
<1>2. SumFunctionOnSet(f, S \cup T) = SumFunctionOnSet(f, S) + SumFunctionOnSet(f, T)
  BY <1>1, SumUnion
<1>3. SumFunctionOnSet(f, S) = SumFunctionOnSet(g, S) /\ SumFunctionOnSet(f, T) = SumFunctionOnSet(h, T)
  BY <1>1, SumSame
<1> QED BY <1>2, <1>3 DEF Deltas, f, g, h

LEMMA DeltasNothing == Deltas({}) = 0
  BY SumEmpty DEF Deltas

LEMMA DeltasOne ==
  ASSUME NEW r, r.delta \in Int
  PROVE  Deltas({r}) = r.delta
<1> DEFINE f == [x \in {r} |-> x.delta]
<1>1. f[r] = r.delta
  OBVIOUS
<1> HIDE DEF f
<1>2. SumFunctionOnSet(f, {r}) = r.delta
  BY <1>1, SumOne
<1> QED BY <1>2 DEF Deltas, f

(* What one row moves, in the accounts and of the types one looks at.      *)
LEMMA MovedOne ==
  ASSUME NEW r, r.delta \in Int, NEW k
  PROVE  Moved({r}, k) = IF r.account = k THEN r.delta ELSE 0
<1>1. CASE r.account = k
  <2>1. {x \in {r} : x.account = k} = {r}
    BY <1>1
  <2> QED BY <1>1, <2>1, DeltasOne DEF Moved
<1>2. CASE r.account # k
  <2>1. {x \in {r} : x.account = k} = {}
    BY <1>2
  <2> QED BY <1>2, <2>1, DeltasNothing DEF Moved
<1> QED BY <1>1, <1>2

LEMMA MovedUnion ==
  ASSUME NEW S, IsFiniteSet(S), NEW T, IsFiniteSet(T), S \cap T = {},
         \A r \in S \cup T : r.delta \in Int, NEW k
  PROVE  /\ Moved(S \cup T, k) = Moved(S, k) + Moved(T, k)
         /\ Moved(S, k) \in Int /\ Moved(T, k) \in Int
<1> DEFINE A == {r \in S : r.account = k}  B == {r \in T : r.account = k}
<1>1. IsFiniteSet(A) /\ IsFiniteSet(B)
  BY FS_Subset
<1>2. A \cap B = {} /\ (\A r \in A \cup B : r.delta \in Int) /\ {r \in S \cup T : r.account = k} = A \cup B
  OBVIOUS
<1> HIDE DEF A, B
<1>3. Deltas(A \cup B) = Deltas(A) + Deltas(B) /\ Deltas(A) \in Int /\ Deltas(B) \in Int
  BY <1>1, <1>2, DeltasUnion, DeltasInt
<1> QED BY <1>2, <1>3 DEF Moved, A, B

-----------------------------------------------------------------------------
(* What comes from outside.                                                *)

InTypes == {"SHIFT_DEPOSIT", "TRANSFER_IN", "TRANSFER_OUT"}

(* New rows are written beside the old: the balances move with them, and   *)
(* the inflow by those that come from outside.                             *)
LEMMA RowsApplied ==
  ASSUME MoneyTyped, NEW new, IsFiniteSet(new), new \cap Rows = {},
         \A r \in new : r.delta \in Int, Apply(new)
  PROVE  /\ Rows' = Rows \cup new
         /\ IsFiniteSet(Rows') /\ (\A r \in Rows' : r.delta \in Int)
         /\ balance' \in [Kinds -> Int]
         /\ \A k \in Kinds :
              /\ balance'[k] = balance[k] + Moved(new, k) /\ Moved(new, k) \in Int
              /\ Inflow(k)' = Inflow(k) + Moved({r \in new : r.type \in InTypes}, k)
              /\ Inflow(k) \in Int
<1>1. Rows' = Rows \cup new
  BY DEF Apply, Rows, BagToSet, SetToBag, (+)
<1>2. IsFiniteSet(Rows') /\ \A r \in Rows' : r.delta \in Int
  BY <1>1, FS_Union DEF MoneyTyped
<1>3. ASSUME NEW k \in Kinds PROVE Moved(new, k) \in Int
  <2>1. IsFiniteSet({}) /\ {} \cap new = {} /\ \A r \in {} \cup new : r.delta \in Int
    BY FS_EmptySet
  <2> QED BY <2>1, MovedUnion
<1>4. ASSUME NEW k \in Kinds
      PROVE  /\ Inflow(k)' = Inflow(k) + Moved({r \in new : r.type \in InTypes}, k)
             /\ Inflow(k) \in Int
  <2> DEFINE A == {r \in Rows : r.type \in InTypes}  B == {r \in new : r.type \in InTypes}
  <2>1. IsFiniteSet(A) /\ IsFiniteSet(B)
    BY FS_Subset DEF MoneyTyped
  <2>2. /\ A \cap B = {} /\ (\A r \in A \cup B : r.delta \in Int)
        /\ {r \in Rows' : r.type \in InTypes} = A \cup B
    BY <1>1 DEF MoneyTyped
  <2>3. Inflow(k) = Moved(A, k) /\ Inflow(k)' = Moved({r \in Rows' : r.type \in InTypes}, k)
    BY DEF Inflow, InTypes
  <2> HIDE DEF A, B
  <2> QED BY <2>1, <2>2, <2>3, MovedUnion DEF B
<1>5. balance' = [k \in Kinds |-> balance[k] + Moved(new, k)]
  BY DEF Apply
<1>6. balance' \in [Kinds -> Int] /\ \A k \in Kinds : balance'[k] = balance[k] + Moved(new, k)
  BY <1>3, <1>5 DEF MoneyTyped
<1> QED BY <1>1, <1>2, <1>3, <1>4, <1>6

(* The rows of a command, after others were added.                         *)
LEMMA RowsOf ==
  ASSUME NEW new, Rows' = Rows \cup new, NEW c, NEW types
  PROVE  OfCommand(c, types)' = OfCommand(c, types) \cup {r \in new : r.ref = c /\ r.type \in types}
BY DEF OfCommand

LEMMA BookStays ==
  ASSUME UNCHANGED treasury
  PROVE  Rows' = Rows /\ balance' = balance
         /\ (\A k \in Kinds : Inflow(k)' = Inflow(k))
         /\ (\A c, types : OfCommand(c, types)' = OfCommand(c, types))
BY DEF treasury, Rows, Inflow, OfCommand

-----------------------------------------------------------------------------
(* What is spent.                                                          *)

AllCosts == [e \in Expenses |-> Total(e)]

LEMMA TotalsTyped ==
  /\ \A e \in Expenses : AllCosts[e] \in Int /\ AllCosts[e] = Total(e) /\ Total(e) \in Nat
  /\ \A S \in SUBSET Expenses : IsFiniteSet(S)
<1>1. \A e \in Expenses : Total(e) \in Nat /\ AllCosts[e] = Total(e)
  BY OfficeExpensesAssumption DEF Total, AllCosts
<1>2. \A S \in SUBSET Expenses : IsFiniteSet(S)
  BY OfficeExpensesAssumption, FS_Subset
<1> QED BY <1>1, <1>2

PaidFrom(k) == {e \in Expenses : expense[e] = "PAID" /\ Source[e] = k}

LEMMA SumOfTotals ==
  ASSUME NEW S \in SUBSET Expenses
  PROVE  /\ SumFunctionOnSet([e \in S |-> Total(e)], S) = SumFunctionOnSet(AllCosts, S)
         /\ SumFunctionOnSet(AllCosts, S) \in Int
<1> DEFINE f == [e \in S |-> Total(e)]
<1>1. \A e \in S : f[e] = AllCosts[e] /\ AllCosts[e] \in Int
  BY TotalsTyped
<1>2. IsFiniteSet(S)
  BY TotalsTyped
<1> HIDE DEF f
<1>3. SumFunctionOnSet(f, S) = SumFunctionOnSet(AllCosts, S) /\ SumFunctionOnSet(AllCosts, S) \in Int
  BY <1>1, <1>2, SumSame, SumInt
<1> QED BY <1>3 DEF f

LEMMA SpentIsCosts ==
  ASSUME NEW k
  PROVE  /\ SpentOnExpenses(k) = SumFunctionOnSet(AllCosts, PaidFrom(k))
         /\ SpentOnExpenses(k)' = SumFunctionOnSet(AllCosts, PaidFrom(k)')
         /\ SpentOnExpenses(k) \in Int
<1>1. PaidFrom(k) \in SUBSET Expenses /\ PaidFrom(k)' \in SUBSET Expenses
  BY DEF PaidFrom
<1>2. /\ SpentOnExpenses(k) = SumFunctionOnSet([e \in PaidFrom(k) |-> Total(e)], PaidFrom(k))
      /\ SpentOnExpenses(k)' = SumFunctionOnSet([e \in PaidFrom(k)' |-> Total(e)], PaidFrom(k)')
  BY DEF SpentOnExpenses, PaidFrom, Total
<1> QED BY <1>1, <1>2, SumOfTotals

LEMMA SpentMore ==
  ASSUME NEW k, NEW e \in Expenses, e \notin PaidFrom(k), PaidFrom(k)' = PaidFrom(k) \cup {e}
  PROVE  SpentOnExpenses(k)' = SpentOnExpenses(k) + Total(e)
<1>1. PaidFrom(k) \in SUBSET Expenses
  BY DEF PaidFrom
<1>2. IsFiniteSet(PaidFrom(k)) /\ \A x \in PaidFrom(k) \cup {e} : AllCosts[x] \in Int
  BY <1>1, TotalsTyped
<1>3. SumFunctionOnSet(AllCosts, PaidFrom(k) \cup {e}) = AllCosts[e] + SumFunctionOnSet(AllCosts, PaidFrom(k))
  BY <1>2, SumAdds
<1>4. SpentOnExpenses(k)' = SumFunctionOnSet(AllCosts, PaidFrom(k) \cup {e})
  BY Zenon, SpentIsCosts
<1>5. SpentOnExpenses(k) = SumFunctionOnSet(AllCosts, PaidFrom(k))
  BY Zenon, SpentIsCosts
<1>6. SpentOnExpenses(k) \in Int /\ AllCosts[e] = Total(e) /\ Total(e) \in Nat
  BY SpentIsCosts, TotalsTyped
<1> QED BY <1>3, <1>4, <1>5, <1>6

LEMMA SpentLess ==
  ASSUME NEW k, NEW e \in Expenses, e \in PaidFrom(k), PaidFrom(k)' = PaidFrom(k) \ {e}
  PROVE  SpentOnExpenses(k)' = SpentOnExpenses(k) - Total(e)
<1>1. PaidFrom(k) \in SUBSET Expenses
  BY DEF PaidFrom
<1>2. IsFiniteSet(PaidFrom(k)) /\ \A x \in PaidFrom(k) : AllCosts[x] \in Int
  BY <1>1, TotalsTyped
<1>3. SumFunctionOnSet(AllCosts, PaidFrom(k)) = AllCosts[e] + SumFunctionOnSet(AllCosts, PaidFrom(k) \ {e})
  BY <1>2, SumSplits
<1>4. SumFunctionOnSet(AllCosts, PaidFrom(k) \ {e}) \in Int
  BY <1>1, SumOfTotals
<1>5. SpentOnExpenses(k)' = SumFunctionOnSet(AllCosts, PaidFrom(k) \ {e})
  BY Zenon, SpentIsCosts
<1>6. SpentOnExpenses(k) = SumFunctionOnSet(AllCosts, PaidFrom(k))
  BY Zenon, SpentIsCosts
<1>7. AllCosts[e] = Total(e) /\ Total(e) \in Nat
  BY TotalsTyped
<1> QED BY <1>3, <1>4, <1>5, <1>6, <1>7

-----------------------------------------------------------------------------
(* The same of the supplier's payments.                                    *)

PostedFrom(k) == {p \in Posted : payment[p].source = k}

LEMMA PrincipalsTyped ==
  ASSUME NEW on \in [Targets -> Nat]
  PROVE  Principals(on) \in Nat
BY SupplierDebtAssumption, SumNat DEF Principals

LEMMA PaymentFields ==
  ASSUME NEW r \in PaymentRow, r.status # "NONE"
  PROVE  /\ r \in [status : {"POSTED", "REVERSED"}, source : Kinds, on : [Targets -> Nat]]
         /\ r.source \in Kinds /\ r.on \in [Targets -> Nat] /\ r.status \in {"POSTED", "REVERSED"}
BY DEF PaymentRow

LEMMA DebitTyped ==
  ASSUME NEW r \in PaymentRow, r.status # "NONE"
  PROVE  Principals(r.on) + FeeFrom(r.source) \in Nat
<1>1. r.on \in [Targets -> Nat]
  BY PaymentFields
<1>2. Principals(r.on) \in Nat
  BY <1>1, PrincipalsTyped
<1>3. FeeFrom(r.source) \in Nat
  BY SupplierDebtAssumption DEF FeeFrom
<1> QED BY <1>2, <1>3

LEMMA DebitedTyped ==
  ASSUME MoneyTyped, NEW p \in Payments, payment[p].status # "NONE"
  PROVE  Debited(p) \in Nat
BY DebitTyped DEF Debited, MoneyTyped

LEMMA SpentSupplierStays ==
  ASSUME NEW k, payment' = payment
  PROVE  SpentOnSupplier(k)' = SpentOnSupplier(k)
BY DEF SpentOnSupplier, Posted, Standing, Debited

LEMMA SpentSupplierSame ==
  ASSUME NEW k, PostedFrom(k)' = PostedFrom(k), \A q \in PostedFrom(k) : payment'[q] = payment[q]
  PROVE  SpentOnSupplier(k)' = SpentOnSupplier(k)
<1>1. [q \in PostedFrom(k)' |-> Debited(q)'] = [q \in PostedFrom(k) |-> Debited(q)]
  BY DEF Debited
<1>2. /\ SpentOnSupplier(k) = SumFunctionOnSet([q \in PostedFrom(k) |-> Debited(q)], PostedFrom(k))
      /\ SpentOnSupplier(k)' = SumFunctionOnSet([q \in PostedFrom(k)' |-> Debited(q)'], PostedFrom(k)')
  BY DEF SpentOnSupplier, PostedFrom
<1> QED BY Zenon, <1>1, <1>2

LEMMA SpentSupplierInt ==
  ASSUME MoneyTyped, NEW k
  PROVE  SpentOnSupplier(k) \in Int
<1> DEFINE f == [p \in PostedFrom(k) |-> Debited(p)]
<1>1. SpentOnSupplier(k) = SumFunctionOnSet(f, PostedFrom(k))
  BY DEF SpentOnSupplier, PostedFrom
<1>2. IsFiniteSet(PostedFrom(k))
  BY SupplierDebtAssumption, FS_Subset DEF PostedFrom, Posted, Standing
<1>3. \A p \in PostedFrom(k) : f[p] \in Int
  BY DebitedTyped DEF PostedFrom, Posted, Standing
<1> HIDE DEF f
<1> QED BY <1>1, <1>2, <1>3, SumInt

LEMMA SpentSupplierMore ==
  ASSUME MoneyTyped, payment' \in [Payments -> PaymentRow], NEW k, NEW p \in Payments, p \notin PostedFrom(k),
         PostedFrom(k)' = PostedFrom(k) \cup {p},
         \A q \in Payments \ {p} : payment'[q] = payment[q]
  PROVE  SpentOnSupplier(k)' = SpentOnSupplier(k) + Debited(p)'
<1> DEFINE f == [q \in PostedFrom(k) |-> Debited(q)]
           g == [q \in PostedFrom(k)' |-> Debited(q)']
<1>1. /\ SpentOnSupplier(k) = SumFunctionOnSet(f, PostedFrom(k))
      /\ SpentOnSupplier(k)' = SumFunctionOnSet(g, PostedFrom(k)')
  BY DEF SpentOnSupplier, PostedFrom
<1>2. IsFiniteSet(PostedFrom(k)) /\ PostedFrom(k) \in SUBSET Payments
  BY SupplierDebtAssumption, FS_Subset DEF PostedFrom, Posted, Standing
<1>3. \A q \in PostedFrom(k) : f[q] = g[q]
  BY <1>2 DEF Debited
<1>4. g[p] = Debited(p)'
  OBVIOUS
<1>5. \A q \in PostedFrom(k) \cup {p} : payment'[q].status # "NONE"
  BY DEF PostedFrom, Posted, Standing
<1>6. \A q \in Payments : payment'[q].status # "NONE" => Debited(q)' \in Nat
  BY DebitTyped DEF Debited, MoneyTyped
<1>7. \A q \in PostedFrom(k) \cup {p} : g[q] \in Int
  BY <1>2, <1>5, <1>6
<1> HIDE DEF f, g
<1>8. SumFunctionOnSet(g, PostedFrom(k) \cup {p}) = g[p] + SumFunctionOnSet(g, PostedFrom(k))
  BY <1>2, <1>7, SumAdds
<1>9. SumFunctionOnSet(g, PostedFrom(k)) = SumFunctionOnSet(f, PostedFrom(k))
  BY <1>2, <1>3, SumSame
<1>10. g[p] \in Int /\ SumFunctionOnSet(g, PostedFrom(k)) \in Int
  BY <1>2, <1>7, SumInt
<1> QED BY <1>1, <1>4, <1>8, <1>9, <1>10

LEMMA SpentSupplierLess ==
  ASSUME MoneyTyped, NEW k, NEW p \in PostedFrom(k),
         PostedFrom(k)' = PostedFrom(k) \ {p},
         \A q \in Payments \ {p} : payment'[q] = payment[q]
  PROVE  SpentOnSupplier(k)' = SpentOnSupplier(k) - Debited(p)
<1> DEFINE f == [q \in PostedFrom(k) |-> Debited(q)]
           g == [q \in PostedFrom(k)' |-> Debited(q)']
<1>1. /\ SpentOnSupplier(k) = SumFunctionOnSet(f, PostedFrom(k))
      /\ SpentOnSupplier(k)' = SumFunctionOnSet(g, PostedFrom(k)')
  BY DEF SpentOnSupplier, PostedFrom
<1>2. IsFiniteSet(PostedFrom(k)) /\ PostedFrom(k) \in SUBSET Payments
  BY SupplierDebtAssumption, FS_Subset DEF PostedFrom, Posted, Standing
<1>3. \A q \in PostedFrom(k) \ {p} : f[q] = g[q]
  BY <1>2 DEF Debited
<1>4. f[p] = Debited(p)
  OBVIOUS
<1>5. \A q \in PostedFrom(k) : f[q] \in Int
  BY DebitedTyped DEF PostedFrom, Posted, Standing
<1> HIDE DEF f, g
<1>6. SumFunctionOnSet(f, PostedFrom(k)) = f[p] + SumFunctionOnSet(f, PostedFrom(k) \ {p})
  BY <1>2, <1>5, SumSplits
<1>7. IsFiniteSet(PostedFrom(k) \ {p})
  BY <1>2, FS_Subset
<1>8. SumFunctionOnSet(g, PostedFrom(k) \ {p}) = SumFunctionOnSet(f, PostedFrom(k) \ {p})
  BY <1>3, <1>7, SumSame
<1>9. f[p] \in Int /\ SumFunctionOnSet(f, PostedFrom(k) \ {p}) \in Int
  BY <1>5, <1>7, SumInt
<1> QED BY <1>1, <1>4, <1>6, <1>8, <1>9


-----------------------------------------------------------------------------
(* Money comes in, or moves between the accounts.                          *)

LEMMA UnbookedStays ==
  ASSUME Booked, NEW new, Rows' = Rows \cup new, \A r \in new : r.type \in InTypes,
         UNCHANGED <<expense, payment>>
  PROVE  Booked'
<1>1. \A c : /\ OfCommand(c, {"EXPENSE"})' = OfCommand(c, {"EXPENSE"})
             /\ OfCommand(c, {"REVERSAL"})' = OfCommand(c, {"REVERSAL"})
             /\ OfCommand(c, {"SUPPLIER_PAYMENT"})' = OfCommand(c, {"SUPPLIER_PAYMENT"})
  BY DEF OfCommand, InTypes
<1>2. ASSUME NEW e \in Expenses PROVE ExpenseBooked(e)'
  <2>1. ExpenseBooked(e)
    BY DEF Booked
  <2> QED BY <1>1, <2>1 DEF ExpenseBooked, Debit, Total, Spent
<1>3. ASSUME NEW p \in Payments PROVE PaymentBooked(p)'
  <2>1. PaymentBooked(p)
    BY DEF Booked
  <2>2. Withdrawal(p)' = Withdrawal(p)
    BY DEF Withdrawal, Debited
  <2> QED BY <1>1, <2>1, <2>2 DEF PaymentBooked
<1> QED BY <1>2, <1>3 DEF Booked

LEMMA SpendingStays ==
  ASSUME NEW k, expense' = expense
  PROVE  SpentOnExpenses(k)' = SpentOnExpenses(k)
BY DEF SpentOnExpenses, Total

LEMMA ComesIn ==
  ASSUME MoneyInv, NEW new, IsFiniteSet(new), new \cap Rows = {},
         \A r \in new : r.delta \in Int /\ r.type \in InTypes,
         Apply(new), UNCHANGED <<expense, payment>>
  PROVE  MoneyInv'
<1>1. MoneyTyped /\ Booked /\ MoneyIsDocumented
  BY DEF MoneyInv
<1>2. /\ Rows' = Rows \cup new
      /\ IsFiniteSet(Rows') /\ (\A r \in Rows' : r.delta \in Int)
      /\ balance' \in [Kinds -> Int]
      /\ \A k \in Kinds :
           /\ balance'[k] = balance[k] + Moved(new, k) /\ Moved(new, k) \in Int
           /\ Inflow(k)' = Inflow(k) + Moved({r \in new : r.type \in InTypes}, k)
           /\ Inflow(k) \in Int
  BY <1>1, RowsApplied
<1>3. MoneyTyped'
  BY <1>1, <1>2 DEF MoneyTyped
<1>4. Booked'
  BY <1>1, <1>2, UnbookedStays
<1>5. ASSUME NEW k \in Kinds
      PROVE  balance'[k] = Inflow(k)' - SpentOnExpenses(k)' - SpentOnSupplier(k)'
  <2>1. {r \in new : r.type \in InTypes} = new
    OBVIOUS
  <2>2. Inflow(k)' = Inflow(k) + Moved(new, k) /\ balance'[k] = balance[k] + Moved(new, k)
    BY Zenon, <1>2, <2>1
  <2>3. Inflow(k) \in Int /\ Moved(new, k) \in Int
    BY <1>2
  <2>4. balance[k] = Inflow(k) - SpentOnExpenses(k) - SpentOnSupplier(k)
    BY <1>1 DEF MoneyIsDocumented
  <2>5. SpentOnExpenses(k)' = SpentOnExpenses(k) /\ SpentOnSupplier(k)' = SpentOnSupplier(k)
    BY SpendingStays, SpentSupplierStays
  <2>6. SpentOnExpenses(k) \in Int /\ SpentOnSupplier(k) \in Int
    BY <1>1, SpentIsCosts, SpentSupplierInt
  <2> QED BY <2>2, <2>3, <2>4, <2>5, <2>6
<1> QED BY <1>3, <1>4, <1>5 DEF MoneyInv, MoneyIsDocumented

LEMMA NothingMoves ==
  ASSUME MoneyInv, UNCHANGED <<treasury, expense, payment>>
  PROVE  MoneyInv'
<1>1. MoneyTyped /\ Booked /\ MoneyIsDocumented
  BY DEF MoneyInv
<1>2. /\ Rows' = Rows /\ balance' = balance
      /\ (\A k \in Kinds : Inflow(k)' = Inflow(k))
  BY BookStays
<1>3. MoneyTyped'
  BY <1>1, <1>2 DEF MoneyTyped
<1>4. Booked'
  <2> DEFINE new == {}
  <2>1. Rows' = Rows \cup new /\ (\A r \in new : r.type \in InTypes) /\ UNCHANGED <<expense, payment>>
    BY <1>2
  <2> HIDE DEF new
  <2> QED BY <1>1, <2>1, UnbookedStays
<1>5. \A k : SpentOnExpenses(k)' = SpentOnExpenses(k) /\ SpentOnSupplier(k)' = SpentOnSupplier(k)
  BY SpendingStays, SpentSupplierStays
<1> QED BY <1>1, <1>2, <1>3, <1>4, <1>5 DEF MoneyInv, MoneyIsDocumented

LEMMA SettlementComes ==
  ASSUME MoneyInv, NEW s, NEW amounts \in Amounts, PostSettlement(s, amounts),
         UNCHANGED <<expense, payment>>
  PROVE  MoneyInv'
<1> DEFINE tenders == {m \in DOMAIN amounts : amounts[m] # 0}
           posted == {Deposit(s, m, amounts[m]) : m \in tenders}
           new == posted \ Deposits(s)
<1>1. amounts \in [{"CASH", "CARD"} -> Int]
  BY SupplierDebtAssumption
<1>2. IsFiniteSet(tenders)
  <2>1. IsFiniteSet({"CASH", "CARD"})
    <3>1. IsFiniteSet({"CASH"}) /\ {"CASH", "CARD"} = {"CASH"} \cup {"CARD"}
      BY FS_Singleton
    <3> QED BY <3>1, FS_AddElement
  <2>2. tenders \in SUBSET {"CASH", "CARD"}
    BY <1>1
  <2> QED BY <2>1, <2>2, FS_Subset
<1>3. IsFiniteSet(posted)
  <2> DEFINE f == [m \in tenders |-> Deposit(s, m, amounts[m])]
  <2>1. f \in Surjection(tenders, posted)
    BY DEF Surjection
  <2> HIDE DEF f, tenders, posted
  <2> QED BY <1>2, <2>1, FS_Surjection
<1>4. \A r \in posted : r.delta \in Int /\ r.type = "SHIFT_DEPOSIT" /\ r.ref = s
  BY <1>1 DEF Deposit, Row
<1>5. Apply(new)
  BY DEF PostSettlement
<1>6. new \cap Rows = {}
  BY <1>4 DEF Deposits
<1>7. IsFiniteSet(new)
  <2> HIDE DEF posted
  <2> QED BY <1>3, FS_Subset
<1>8. \A r \in new : r.delta \in Int /\ r.type \in InTypes
  BY <1>4 DEF InTypes
<1> HIDE DEF new
<1> QED BY <1>5, <1>6, <1>7, <1>8, ComesIn

LEMMA TransferComes ==
  ASSUME MoneyInv, NEW c, NEW from \in Kinds, NEW to \in Kinds, NEW amount \in Nat, NEW fee \in Nat,
         Transfer(c, from, to, amount, fee), UNCHANGED <<expense, payment>>
  PROVE  MoneyInv'
<1>1. CASE UNCHANGED treasury
  BY <1>1, NothingMoves
<1>2. CASE /\ OfCommand(c, {"TRANSFER_OUT", "TRANSFER_IN"}) = {}
           /\ Apply({Row(from, "TRANSFER_OUT", -amount, c, "none"),
                     Row(to, "TRANSFER_IN", amount - fee, c, "none")})
  <2> DEFINE out == Row(from, "TRANSFER_OUT", -amount, c, "none")
             in == Row(to, "TRANSFER_IN", amount - fee, c, "none")
             new == {out, in}
  <2>1. /\ out.type = "TRANSFER_OUT" /\ out.ref = c /\ out.delta = -amount
        /\ in.type = "TRANSFER_IN" /\ in.ref = c /\ in.delta = amount - fee
    BY DEF Row
  <2>2. Apply(new)
    BY <1>2
  <2>3. new \cap Rows = {}
    BY <1>2, <2>1 DEF OfCommand
  <2> HIDE DEF out, in
  <2>4. \A r \in new : r.delta \in Int /\ r.type \in InTypes
    BY <2>1 DEF InTypes
  <2>5. IsFiniteSet(new)
    <3>1. IsFiniteSet({out}) /\ new = {out} \cup {in}
      BY FS_Singleton
    <3> HIDE DEF new
    <3> QED BY <3>1, FS_AddElement
  <2> HIDE DEF new
  <2> QED BY <2>2, <2>3, <2>4, <2>5, ComesIn
<1> QED BY <1>1, <1>2 DEF Transfer

LEMMA MoneyComesStep ==
  ASSUME MoneyInv, MoneyComes
  PROVE  MoneyInv'
<1>1. UNCHANGED <<expense, payment>>
  BY DEF MoneyComes, supplier, money
<1>2. Sums \subseteq Nat
  BY SupplierDebtAssumption
<1> QED BY <1>1, <1>2, SettlementComes, TransferComes DEF MoneyComes

-----------------------------------------------------------------------------
(* A row that is neither: a request or a payment takes money, or gives it  *)
(* back.                                                                   *)

LEMMA OneRow ==
  ASSUME MoneyTyped, NEW r, r.delta \in Int, r \notin Rows, r.type \notin InTypes, Apply({r})
  PROVE  /\ Rows' = Rows \cup {r}
         /\ IsFiniteSet(Rows') /\ (\A x \in Rows' : x.delta \in Int)
         /\ balance' \in [Kinds -> Int]
         /\ \A k \in Kinds :
              /\ balance'[k] = balance[k] + (IF r.account = k THEN r.delta ELSE 0)
              /\ Inflow(k)' = Inflow(k) /\ Inflow(k) \in Int
<1> DEFINE new == {r}
<1>1. IsFiniteSet(new) /\ new \cap Rows = {} /\ (\A x \in new : x.delta \in Int) /\ Apply(new)
  BY FS_Singleton
<1>2. {x \in new : x.type \in InTypes} = {}
  OBVIOUS
<1>3. \A k : Moved(new, k) = IF r.account = k THEN r.delta ELSE 0
  BY MovedOne
<1>4. \A k : Moved({}, k) = 0
  <2>1. \A k : {x \in {} : x.account = k} = {}
    OBVIOUS
  <2> QED BY Zenon, <2>1, DeltasNothing DEF Moved
<1> HIDE DEF new
<1>5. /\ Rows' = Rows \cup new
      /\ IsFiniteSet(Rows') /\ (\A x \in Rows' : x.delta \in Int)
      /\ balance' \in [Kinds -> Int]
      /\ \A k \in Kinds :
           /\ balance'[k] = balance[k] + Moved(new, k) /\ Moved(new, k) \in Int
           /\ Inflow(k)' = Inflow(k) + Moved({x \in new : x.type \in InTypes}, k)
           /\ Inflow(k) \in Int
  BY <1>1, RowsApplied
<1>6. ASSUME NEW k \in Kinds
      PROVE  /\ balance'[k] = balance[k] + (IF r.account = k THEN r.delta ELSE 0)
             /\ Inflow(k)' = Inflow(k) /\ Inflow(k) \in Int
  <2>1. balance'[k] = balance[k] + Moved(new, k) /\ Inflow(k) \in Int
    BY <1>5
  <2>2. Inflow(k)' = Inflow(k) + 0
    BY Zenon, <1>2, <1>4, <1>5
  <2>3. Moved(new, k) = IF r.account = k THEN r.delta ELSE 0
    BY Zenon, <1>3
  <2> QED BY <2>1, <2>2, <2>3
<1> QED BY <1>5, <1>6 DEF new

(* The rows of a command after one more.                                   *)
LEMMA RowsOfAfter ==
  ASSUME NEW r, Rows' = Rows \cup {r}, NEW c, NEW type
  PROVE  OfCommand(c, {type})' =
           IF r.ref = c /\ r.type = type THEN OfCommand(c, {type}) \cup {r} ELSE OfCommand(c, {type})
<1>1. CASE r.ref = c /\ r.type = type
  BY <1>1 DEF OfCommand
<1>2. CASE ~(r.ref = c /\ r.type = type)
  BY <1>2 DEF OfCommand
<1> QED BY <1>1, <1>2

(* What one command leaves in the book is no concern of the others.        *)
LEMMA OthersBooked ==
  ASSUME Booked, NEW r, Rows' = Rows \cup {r}
  PROVE  /\ \A e \in Expenses : e # r.ref /\ expense'[e] = expense[e] => ExpenseBooked(e)'
         /\ \A p \in Payments : p # r.ref /\ payment'[p] = payment[p] => PaymentBooked(p)'
<1>1. ASSUME NEW c, NEW type, c # r.ref PROVE OfCommand(c, {type})' = OfCommand(c, {type})
  BY <1>1 DEF OfCommand
<1>2. ASSUME NEW e \in Expenses, e # r.ref, expense'[e] = expense[e] PROVE ExpenseBooked(e)'
  <2>1. ExpenseBooked(e)
    BY DEF Booked
  <2>2. /\ OfCommand(e, {"EXPENSE"})' = OfCommand(e, {"EXPENSE"})
        /\ OfCommand(e, {"REVERSAL"})' = OfCommand(e, {"REVERSAL"})
    BY <1>1, <1>2
  <2> QED BY <1>2, <2>1, <2>2 DEF ExpenseBooked, Debit, Total, Spent
<1>3. ASSUME NEW p \in Payments, p # r.ref, payment'[p] = payment[p] PROVE PaymentBooked(p)'
  <2>1. PaymentBooked(p)
    BY DEF Booked
  <2>2. Withdrawal(p)' = Withdrawal(p)
    BY <1>3 DEF Withdrawal, Debited
  <2>3. /\ OfCommand(p, {"SUPPLIER_PAYMENT"})' = OfCommand(p, {"SUPPLIER_PAYMENT"})
        /\ OfCommand(p, {"REVERSAL"})' = OfCommand(p, {"REVERSAL"})
    BY <1>1, <1>3
  <2> QED BY <1>3, <2>1, <2>2, <2>3 DEF PaymentBooked
<1> QED BY <1>2, <1>3

LEMMA DebitFields ==
  ASSUME NEW e \in Expenses
  PROVE  /\ Debit(e).account = Source[e] /\ Debit(e).type = "EXPENSE"
         /\ Debit(e).delta = - Total(e) /\ Debit(e).ref = e
         /\ Back(Debit(e)).account = Source[e] /\ Back(Debit(e)).type = "REVERSAL"
         /\ Back(Debit(e)).delta = Total(e) /\ Back(Debit(e)).ref = e
         /\ Total(e) \in Nat /\ Source[e] \in Kinds
<1>1. Total(e) \in Nat /\ Source[e] \in Kinds
  BY TotalsTyped, OfficeExpensesAssumption
<1> QED BY <1>1 DEF Debit, Spent, Row, Back

(* A change of status that touches no money.                               *)
LEMMA OnlyTurns ==
  ASSUME MoneyInv, NEW e \in Expenses, NEW to \in ExpenseStatuses \ {"PAID", "VOIDED"},
         expense[e] \notin {"PAID", "VOIDED"}, expense' = [expense EXCEPT ![e] = to],
         UNCHANGED <<treasury, payment>>
  PROVE  MoneyInv'
<1>1. MoneyTyped /\ Booked /\ MoneyIsDocumented
  BY DEF MoneyInv
<1>2. /\ Rows' = Rows /\ balance' = balance
      /\ (\A k \in Kinds : Inflow(k)' = Inflow(k))
      /\ (\A c, types : OfCommand(c, types)' = OfCommand(c, types))
  BY BookStays
<1>3. MoneyTyped'
  BY <1>1, <1>2 DEF MoneyTyped
<1>4. ASSUME NEW x \in Expenses PROVE ExpenseBooked(x)'
  <2>1. ExpenseBooked(x)
    BY <1>1 DEF Booked
  <2>2. /\ expense'[x] \in {"PAID", "VOIDED"} <=> expense[x] \in {"PAID", "VOIDED"}
        /\ expense'[x] = "VOIDED" <=> expense[x] = "VOIDED"
    BY <1>1 DEF MoneyTyped
  <2> QED BY <1>2, <2>1, <2>2 DEF ExpenseBooked, Debit, Total, Spent
<1>5. ASSUME NEW p \in Payments PROVE PaymentBooked(p)'
  <2>1. PaymentBooked(p) /\ Withdrawal(p)' = Withdrawal(p)
    BY <1>1 DEF Booked, Withdrawal, Debited
  <2> QED BY <1>2, <2>1 DEF PaymentBooked
<1>6. ASSUME NEW k PROVE SpentOnExpenses(k)' = SpentOnExpenses(k) /\ SpentOnSupplier(k)' = SpentOnSupplier(k)
  <2>1. PaidFrom(k)' = PaidFrom(k)
    BY <1>1 DEF PaidFrom, MoneyTyped
  <2> QED BY <2>1, SpentIsCosts, SpentSupplierStays
<1> QED BY <1>1, <1>2, <1>3, <1>4, <1>5, <1>6 DEF MoneyInv, MoneyIsDocumented, Booked

LEMMA ExpensePaid ==
  ASSUME MoneyInv, NEW e \in Expenses, expense[e] \notin {"PAID", "VOIDED"},
         expense' = [expense EXCEPT ![e] = "PAID"],
         RecordExpense(e, Source[e], Total(e), "EXPENSE"), UNCHANGED payment
  PROVE  MoneyInv'
<1>1. MoneyTyped /\ Booked /\ MoneyIsDocumented
  BY DEF MoneyInv
<1> DEFINE r == Debit(e)
<1>2. OfCommand(e, {"EXPENSE"}) = {} /\ OfCommand(e, {"REVERSAL"}) = {}
  BY <1>1 DEF Booked, ExpenseBooked
<1>3. Apply({r})
  BY <1>2 DEF RecordExpense, Debit
<1>4. /\ r.account = Source[e] /\ r.type = "EXPENSE" /\ r.delta = - Total(e) /\ r.ref = e
      /\ Total(e) \in Nat /\ Source[e] \in Kinds
  BY DebitFields
<1>5. r \notin Rows
  BY <1>2, <1>4 DEF OfCommand
<1> HIDE DEF r
<1>6. /\ Rows' = Rows \cup {r}
      /\ IsFiniteSet(Rows') /\ (\A x \in Rows' : x.delta \in Int)
      /\ balance' \in [Kinds -> Int]
      /\ \A k \in Kinds :
           /\ balance'[k] = balance[k] + (IF r.account = k THEN r.delta ELSE 0)
           /\ Inflow(k)' = Inflow(k) /\ Inflow(k) \in Int
  <2>1. r.delta \in Int /\ r.type \notin InTypes
    BY <1>4 DEF InTypes
  <2> QED BY <1>1, <1>3, <1>5, <2>1, OneRow
<1>7. MoneyTyped'
  BY <1>1, <1>6 DEF MoneyTyped, ExpenseStatuses
<1>8. expense'[e] = "PAID" /\ \A x \in Expenses : x # e => expense'[x] = expense[x]
  BY <1>1 DEF MoneyTyped
<1>9. ExpenseBooked(e)'
  <2>1. OfCommand(e, {"EXPENSE"})' = {r} /\ OfCommand(e, {"REVERSAL"})' = {}
    <3>1. Rows' = Rows \cup {r} /\ r.ref = e /\ r.type = "EXPENSE"
      BY <1>4, <1>6
    <3>2. OfCommand(e, {"EXPENSE"})' = OfCommand(e, {"EXPENSE"}) \cup {r}
      BY <3>1, RowsOfAfter
    <3>3. OfCommand(e, {"REVERSAL"})' = OfCommand(e, {"REVERSAL"})
      BY <3>1, RowsOfAfter
    <3> QED BY <1>2, <3>2, <3>3
  <2>2. r = Debit(e)'
    BY DEF r, Debit, Total, Spent
  <2> QED BY <1>8, <2>1, <2>2 DEF ExpenseBooked
<1>10. Booked'
  <2>1. \A x \in Expenses : ExpenseBooked(x)'
    BY <1>1, <1>4, <1>6, <1>8, <1>9, OthersBooked
  <2>2. \A p \in Payments : p # e
    BY SupplierDebtAssumption
  <2>3. \A p \in Payments : PaymentBooked(p)'
    BY <1>1, <1>4, <1>6, <2>2, OthersBooked
  <2> QED BY <2>1, <2>3 DEF Booked
<1>11. ASSUME NEW k \in Kinds
       PROVE  balance'[k] = Inflow(k)' - SpentOnExpenses(k)' - SpentOnSupplier(k)'
  <2>1. balance[k] = Inflow(k) - SpentOnExpenses(k) - SpentOnSupplier(k)
    BY <1>1 DEF MoneyIsDocumented
  <2>2. SpentOnExpenses(k) \in Int /\ SpentOnSupplier(k) \in Int /\ SpentOnSupplier(k)' = SpentOnSupplier(k)
    BY <1>1, SpentIsCosts, SpentSupplierInt, SpentSupplierStays
  <2>3. Inflow(k)' = Inflow(k) /\ Inflow(k) \in Int
    BY <1>6
  <2>4. CASE Source[e] = k
    <3>1. e \notin PaidFrom(k) /\ PaidFrom(k)' = PaidFrom(k) \cup {e}
      BY <1>8, <2>4 DEF PaidFrom
    <3>2. SpentOnExpenses(k)' = SpentOnExpenses(k) + Total(e)
      BY <3>1, SpentMore
    <3>3. balance'[k] = balance[k] - Total(e)
      BY <1>4, <1>6, <2>4, <2>1, <2>2, <2>3
    <3> QED BY <1>4, <2>1, <2>2, <2>3, <3>2, <3>3
  <2>5. CASE Source[e] # k
    <3>1. PaidFrom(k)' = PaidFrom(k)
      BY <1>8, <2>5 DEF PaidFrom
    <3>2. SpentOnExpenses(k)' = SpentOnExpenses(k)
      BY <3>1, SpentIsCosts
    <3>3. balance'[k] = balance[k]
      BY <1>4, <1>6, <2>1, <2>2, <2>3, <2>5
    <3> QED BY <2>1, <2>2, <2>3, <3>2, <3>3
  <2> QED BY <2>4, <2>5
<1> QED BY <1>7, <1>10, <1>11 DEF MoneyInv, MoneyIsDocumented

LEMMA ExpenseVoided ==
  ASSUME MoneyInv, NEW e \in Expenses, VoidExpense(e), UNCHANGED payment
  PROVE  MoneyInv'
<1>1. MoneyTyped /\ Booked /\ MoneyIsDocumented
  BY DEF MoneyInv
<1> DEFINE r == Back(Debit(e))
<1>2. /\ expense[e] = "PAID" /\ expense' = [expense EXCEPT ![e] = "VOIDED"]
      /\ OfCommand(e, {"EXPENSE"}) = {Debit(e)} /\ OfCommand(e, {"REVERSAL"}) = {}
  BY <1>1 DEF Booked, ExpenseBooked, VoidExpense, Turns
<1>3. /\ r.account = Source[e] /\ r.type = "REVERSAL" /\ r.delta = Total(e) /\ r.ref = e
      /\ Total(e) \in Nat /\ Source[e] \in Kinds
  BY DebitFields
<1>4. r \notin Rows
  BY <1>2, <1>3 DEF OfCommand
<1>5. Apply({r})
  BY <1>4 DEF VoidExpense, ReverseTransaction
<1> HIDE DEF r
<1>6. /\ Rows' = Rows \cup {r}
      /\ IsFiniteSet(Rows') /\ (\A x \in Rows' : x.delta \in Int)
      /\ balance' \in [Kinds -> Int]
      /\ \A k \in Kinds :
           /\ balance'[k] = balance[k] + (IF r.account = k THEN r.delta ELSE 0)
           /\ Inflow(k)' = Inflow(k) /\ Inflow(k) \in Int
  <2>1. r.delta \in Int /\ r.type \notin InTypes
    BY <1>3 DEF InTypes
  <2> QED BY <1>1, <1>4, <1>5, <2>1, OneRow
<1>7. MoneyTyped'
  BY <1>1, <1>2, <1>6 DEF MoneyTyped, ExpenseStatuses
<1>8. expense'[e] = "VOIDED" /\ \A x \in Expenses : x # e => expense'[x] = expense[x]
  BY <1>1, <1>2 DEF MoneyTyped
<1>9. ExpenseBooked(e)'
  <2>1. OfCommand(e, {"EXPENSE"})' = {Debit(e)} /\ OfCommand(e, {"REVERSAL"})' = {r}
    <3>1. OfCommand(e, {"EXPENSE"})' = OfCommand(e, {"EXPENSE"})
      BY <1>3, <1>6, RowsOfAfter
    <3>2. OfCommand(e, {"REVERSAL"})' = OfCommand(e, {"REVERSAL"}) \cup {r}
      BY <1>3, <1>6, RowsOfAfter
    <3> QED BY <1>2, <3>1, <3>2
  <2>2. r = Back(Debit(e))' /\ Debit(e)' = Debit(e)
    BY DEF r, Debit, Total, Spent, Back
  <2> QED BY <1>8, <2>1, <2>2 DEF ExpenseBooked
<1>10. Booked'
  <2>1. \A x \in Expenses : ExpenseBooked(x)'
    BY <1>1, <1>3, <1>6, <1>8, <1>9, OthersBooked
  <2>2. \A p \in Payments : p # e
    BY SupplierDebtAssumption
  <2>3. \A p \in Payments : PaymentBooked(p)'
    BY <1>1, <1>3, <1>6, <2>2, OthersBooked
  <2> QED BY <2>1, <2>3 DEF Booked
<1>11. ASSUME NEW k \in Kinds
       PROVE  balance'[k] = Inflow(k)' - SpentOnExpenses(k)' - SpentOnSupplier(k)'
  <2>1. balance[k] = Inflow(k) - SpentOnExpenses(k) - SpentOnSupplier(k)
    BY <1>1 DEF MoneyIsDocumented
  <2>2. SpentOnExpenses(k) \in Int /\ SpentOnSupplier(k) \in Int /\ SpentOnSupplier(k)' = SpentOnSupplier(k)
    BY <1>1, SpentIsCosts, SpentSupplierInt, SpentSupplierStays
  <2>3. Inflow(k)' = Inflow(k) /\ Inflow(k) \in Int
    BY <1>6
  <2>4. CASE Source[e] = k
    <3>1. e \in PaidFrom(k) /\ PaidFrom(k)' = PaidFrom(k) \ {e}
      BY <1>2, <1>8, <2>4 DEF PaidFrom
    <3>2. SpentOnExpenses(k)' = SpentOnExpenses(k) - Total(e)
      BY <3>1, SpentLess
    <3>3. balance'[k] = balance[k] + Total(e)
      BY <1>3, <1>6, <2>4
    <3> QED BY <1>3, <2>1, <2>2, <2>3, <3>2, <3>3
  <2>5. CASE Source[e] # k
    <3>1. PaidFrom(k)' = PaidFrom(k)
      BY <1>8, <2>5 DEF PaidFrom
    <3>2. SpentOnExpenses(k)' = SpentOnExpenses(k)
      BY <3>1, SpentIsCosts
    <3>3. balance'[k] = balance[k]
      BY <1>3, <1>6, <2>1, <2>2, <2>3, <2>5
    <3> QED BY <2>1, <2>2, <2>3, <3>2, <3>3
  <2> QED BY <2>4, <2>5
<1> QED BY <1>7, <1>10, <1>11 DEF MoneyInv, MoneyIsDocumented

LEMMA ExpensesStep ==
  ASSUME MoneyInv, ExpensesNext, UNCHANGED payment
  PROVE  MoneyInv'
<1> PICK e \in Expenses : \/ AskFor(e) \/ Approve(e) \/ Reject(e) \/ CancelExpense(e)
                          \/ PayExpense(e) \/ DirectPay(e) \/ VoidExpense(e)
  BY DEF ExpensesNext
<1>1. CASE AskFor(e) \/ Approve(e) \/ Reject(e) \/ CancelExpense(e)
  <2>1. \E to \in ExpenseStatuses \ {"PAID", "VOIDED"} :
          /\ expense[e] \notin {"PAID", "VOIDED"} /\ expense' = [expense EXCEPT ![e] = to]
          /\ UNCHANGED treasury
    BY <1>1 DEF AskFor, Approve, Reject, CancelExpense, Turns, ExpenseStatuses
  <2> QED BY <2>1, OnlyTurns
<1>2. CASE PayExpense(e) \/ DirectPay(e)
  <2>1. /\ expense[e] \notin {"PAID", "VOIDED"} /\ expense' = [expense EXCEPT ![e] = "PAID"]
        /\ RecordExpense(e, Source[e], Total(e), "EXPENSE")
    BY <1>2 DEF PayExpense, DirectPay, Turns
  <2> QED BY <2>1, ExpensePaid
<1>3. CASE VoidExpense(e)
  BY <1>3, ExpenseVoided
<1> QED BY <1>1, <1>2, <1>3

-----------------------------------------------------------------------------
(* The supplier's payments.                                                *)

LEMMA WithdrawalFields ==
  ASSUME MoneyTyped, NEW p \in Payments, payment[p].status # "NONE"
  PROVE  /\ Withdrawal(p).account = payment[p].source /\ Withdrawal(p).type = "SUPPLIER_PAYMENT"
         /\ Withdrawal(p).delta = - Debited(p) /\ Withdrawal(p).ref = p
         /\ Back(Withdrawal(p)).account = payment[p].source /\ Back(Withdrawal(p)).type = "REVERSAL"
         /\ Back(Withdrawal(p)).delta = Debited(p) /\ Back(Withdrawal(p)).ref = p
         /\ Debited(p) \in Nat /\ payment[p].source \in Kinds
<1>1. Debited(p) \in Nat
  BY DebitedTyped
<1>2. payment[p].source \in Kinds
  BY PaymentFields DEF MoneyTyped
<1> QED BY <1>1, <1>2 DEF Withdrawal, Spent, Row, Back

LEMMA SupplierPaid ==
  ASSUME MoneyInv, NEW p \in Payments, NEW k0 \in Kinds, NEW on \in [Targets -> Nat],
         Pay(p, k0, on), expense' = expense
  PROVE  MoneyInv'
<1>1. MoneyTyped /\ Booked /\ MoneyIsDocumented
  BY DEF MoneyInv
<1> DEFINE total == Principals(on) + FeeFrom(k0)
           r == Spent(p, k0, total, "SUPPLIER_PAYMENT")
<1>2. /\ payment[p].status = "NONE" /\ payment' = [payment EXCEPT ![p] = Posting(k0, on)]
      /\ RecordExpense(p, k0, total, "SUPPLIER_PAYMENT")
  BY DEF Pay
<1>3. OfCommand(p, {"SUPPLIER_PAYMENT"}) = {} /\ OfCommand(p, {"REVERSAL"}) = {}
  BY <1>1, <1>2 DEF Booked, PaymentBooked
<1>4. Apply({r})
  BY <1>2, <1>3 DEF RecordExpense
<1>5. total \in Nat
  BY PrincipalsTyped, SupplierDebtAssumption DEF FeeFrom
<1>6. r.account = k0 /\ r.type = "SUPPLIER_PAYMENT" /\ r.delta = - total /\ r.ref = p
  BY DEF Spent, Row
<1>7. Posting(k0, on) \in PaymentRow /\ Posting(k0, on).status = "POSTED"
      /\ Posting(k0, on).source = k0 /\ Posting(k0, on).on = on
  BY DEF Posting, PaymentRow
<1>8. /\ payment'[p] = Posting(k0, on) /\ payment' \in [Payments -> PaymentRow]
      /\ \A q \in Payments : q # p => payment'[q] = payment[q]
  BY <1>1, <1>2, <1>7 DEF MoneyTyped
<1>9. Debited(p)' = total /\ Withdrawal(p)' = r
  BY <1>7, <1>8 DEF Debited, Withdrawal
<1> HIDE DEF r, total
<1>10. r \notin Rows
  BY <1>3, <1>6 DEF OfCommand
<1>11. /\ Rows' = Rows \cup {r}
       /\ IsFiniteSet(Rows') /\ (\A x \in Rows' : x.delta \in Int)
       /\ balance' \in [Kinds -> Int]
       /\ \A k \in Kinds :
            /\ balance'[k] = balance[k] + (IF r.account = k THEN r.delta ELSE 0)
            /\ Inflow(k)' = Inflow(k) /\ Inflow(k) \in Int
  <2>1. r.delta \in Int /\ r.type \notin InTypes
    BY <1>5, <1>6 DEF InTypes
  <2> QED BY <1>1, <1>4, <1>10, <2>1, OneRow
<1>12. MoneyTyped'
  BY <1>1, <1>8, <1>11 DEF MoneyTyped
<1>13. PaymentBooked(p)'
  <2>1. OfCommand(p, {"SUPPLIER_PAYMENT"})' = OfCommand(p, {"SUPPLIER_PAYMENT"}) \cup {r}
    BY <1>6, <1>11, RowsOfAfter
  <2>2. OfCommand(p, {"REVERSAL"})' = OfCommand(p, {"REVERSAL"})
    BY <1>6, <1>11, RowsOfAfter
  <2>3. OfCommand(p, {"SUPPLIER_PAYMENT"})' = {r} /\ OfCommand(p, {"REVERSAL"})' = {}
    BY <1>3, <2>1, <2>2
  <2>4. payment'[p].status = "POSTED"
    BY <1>7, <1>8
  <2> QED BY <1>9, <2>3, <2>4 DEF PaymentBooked
<1>14. Booked'
  <2>1. \A x \in Payments : PaymentBooked(x)'
    BY <1>1, <1>6, <1>8, <1>11, <1>13, OthersBooked
  <2>2. \A e \in Expenses : e # p
    BY SupplierDebtAssumption
  <2>3. \A e \in Expenses : ExpenseBooked(e)'
    BY <1>1, <1>6, <1>11, <2>2, OthersBooked
  <2> QED BY <2>1, <2>3 DEF Booked
<1>15. ASSUME NEW k \in Kinds
       PROVE  balance'[k] = Inflow(k)' - SpentOnExpenses(k)' - SpentOnSupplier(k)'
  <2>1. balance[k] = Inflow(k) - SpentOnExpenses(k) - SpentOnSupplier(k)
    BY <1>1 DEF MoneyIsDocumented
  <2>2. SpentOnExpenses(k) \in Int /\ SpentOnSupplier(k) \in Int /\ SpentOnExpenses(k)' = SpentOnExpenses(k)
    BY <1>1, SpentIsCosts, SpentSupplierInt, SpendingStays
  <2>3. Inflow(k)' = Inflow(k) /\ Inflow(k) \in Int
    BY <1>11
  <2>4. CASE k0 = k
    <3>1. p \notin PostedFrom(k) /\ PostedFrom(k)' = PostedFrom(k) \cup {p}
      BY <1>2, <1>7, <1>8, <2>4 DEF PostedFrom, Posted, Standing
    <3>2. SpentOnSupplier(k)' = SpentOnSupplier(k) + Debited(p)'
      BY <1>1, <1>8, <3>1, SpentSupplierMore
    <3>3. SpentOnSupplier(k)' = SpentOnSupplier(k) + total
      BY <1>9, <3>2
    <3>4. balance'[k] = balance[k] - total
      BY <1>5, <1>6, <1>11, <2>1, <2>2, <2>3, <2>4
    <3> QED BY <1>5, <2>1, <2>2, <2>3, <3>3, <3>4
  <2>5. CASE k0 # k
    <3>1. PostedFrom(k)' = PostedFrom(k)
      BY <1>2, <1>7, <1>8, <2>5 DEF PostedFrom, Posted, Standing
    <3>2. SpentOnSupplier(k)' = SpentOnSupplier(k)
      BY <1>1, <1>2, <1>8, <3>1, SpentSupplierSame DEF PostedFrom, Posted, Standing
    <3>3. balance'[k] = balance[k]
      BY <1>5, <1>6, <1>11, <2>1, <2>2, <2>3, <2>5
    <3> QED BY <2>1, <2>2, <2>3, <3>2, <3>3
  <2> QED BY <2>4, <2>5
<1> QED BY <1>12, <1>14, <1>15 DEF MoneyInv, MoneyIsDocumented

LEMMA SupplierReversed ==
  ASSUME MoneyInv, NEW p \in Payments, ReversePayment(p), expense' = expense
  PROVE  MoneyInv'
<1>1. MoneyTyped /\ Booked /\ MoneyIsDocumented
  BY DEF MoneyInv
<1> DEFINE r == Back(Withdrawal(p))
<1>2. /\ payment[p].status = "POSTED" /\ payment' = [payment EXCEPT ![p].status = "REVERSED"]
      /\ ReverseTransaction(Withdrawal(p))
  BY DEF ReversePayment, Withdrawal
<1>3. OfCommand(p, {"SUPPLIER_PAYMENT"}) = {Withdrawal(p)} /\ OfCommand(p, {"REVERSAL"}) = {}
  BY <1>1, <1>2 DEF Booked, PaymentBooked
<1>4. /\ r.account = payment[p].source /\ r.type = "REVERSAL" /\ r.delta = Debited(p) /\ r.ref = p
      /\ Debited(p) \in Nat /\ payment[p].source \in Kinds
  BY <1>1, <1>2, WithdrawalFields
<1>5. r \notin Rows
  BY <1>3, <1>4 DEF OfCommand
<1>6. Apply({r})
  BY <1>2, <1>5 DEF ReverseTransaction
<1>7. payment[p] \in [status : {"POSTED", "REVERSED"}, source : Kinds, on : [Targets -> Nat]]
  BY <1>1, <1>2, PaymentFields DEF MoneyTyped
<1>8. /\ payment'[p].status = "REVERSED" /\ payment'[p].source = payment[p].source
      /\ payment'[p].on = payment[p].on /\ payment' \in [Payments -> PaymentRow]
      /\ \A q \in Payments : q # p => payment'[q] = payment[q]
  <2> DEFINE now == [payment[p] EXCEPT !.status = "REVERSED"]
  <2>1. /\ now \in PaymentRow /\ now.status = "REVERSED" /\ now.source = payment[p].source
        /\ now.on = payment[p].on
    BY <1>7 DEF PaymentRow
  <2>2. payment' = [payment EXCEPT ![p] = now]
    BY <1>2
  <2> HIDE DEF now
  <2> QED BY <1>1, <2>1, <2>2 DEF MoneyTyped
<1>9. Debited(p)' = Debited(p) /\ Withdrawal(p)' = Withdrawal(p) /\ r = Back(Withdrawal(p))'
  BY <1>8 DEF Debited, Withdrawal, Back
<1> HIDE DEF r
<1>11. /\ Rows' = Rows \cup {r}
       /\ IsFiniteSet(Rows') /\ (\A x \in Rows' : x.delta \in Int)
       /\ balance' \in [Kinds -> Int]
       /\ \A k \in Kinds :
            /\ balance'[k] = balance[k] + (IF r.account = k THEN r.delta ELSE 0)
            /\ Inflow(k)' = Inflow(k) /\ Inflow(k) \in Int
  <2>1. r.delta \in Int /\ r.type \notin InTypes
    BY <1>4 DEF InTypes
  <2> QED BY <1>1, <1>5, <1>6, <2>1, OneRow
<1>12. MoneyTyped'
  BY <1>1, <1>8, <1>11 DEF MoneyTyped
<1>13. PaymentBooked(p)'
  <2>1. OfCommand(p, {"SUPPLIER_PAYMENT"})' = OfCommand(p, {"SUPPLIER_PAYMENT"})
    BY <1>4, <1>11, RowsOfAfter
  <2>2. OfCommand(p, {"REVERSAL"})' = OfCommand(p, {"REVERSAL"}) \cup {r}
    BY <1>4, <1>11, RowsOfAfter
  <2>3. OfCommand(p, {"SUPPLIER_PAYMENT"})' = {Withdrawal(p)} /\ OfCommand(p, {"REVERSAL"})' = {r}
    BY <1>3, <2>1, <2>2
  <2> QED BY <1>8, <1>9, <2>3 DEF PaymentBooked
<1>14. Booked'
  <2>1. \A x \in Payments : PaymentBooked(x)'
    BY <1>1, <1>4, <1>8, <1>11, <1>13, OthersBooked
  <2>2. \A e \in Expenses : e # p
    BY SupplierDebtAssumption
  <2>3. \A e \in Expenses : ExpenseBooked(e)'
    BY <1>1, <1>4, <1>11, <2>2, OthersBooked
  <2> QED BY <2>1, <2>3 DEF Booked
<1>15. ASSUME NEW k \in Kinds
       PROVE  balance'[k] = Inflow(k)' - SpentOnExpenses(k)' - SpentOnSupplier(k)'
  <2>1. balance[k] = Inflow(k) - SpentOnExpenses(k) - SpentOnSupplier(k)
    BY <1>1 DEF MoneyIsDocumented
  <2>2. SpentOnExpenses(k) \in Int /\ SpentOnSupplier(k) \in Int /\ SpentOnExpenses(k)' = SpentOnExpenses(k)
    BY <1>1, SpentIsCosts, SpentSupplierInt, SpendingStays
  <2>3. Inflow(k)' = Inflow(k) /\ Inflow(k) \in Int
    BY <1>11
  <2>4. CASE payment[p].source = k
    <3>1. p \in PostedFrom(k) /\ PostedFrom(k)' = PostedFrom(k) \ {p}
      BY <1>2, <1>8, <2>4 DEF PostedFrom, Posted, Standing
    <3>2. SpentOnSupplier(k)' = SpentOnSupplier(k) - Debited(p)
      BY <1>1, <1>8, <3>1, SpentSupplierLess
    <3>3. balance'[k] = balance[k] + Debited(p)
      BY <1>4, <1>11, <2>4
    <3> QED BY <1>4, <2>1, <2>2, <2>3, <3>2, <3>3
  <2>5. CASE payment[p].source # k
    <3>1. PostedFrom(k)' = PostedFrom(k)
      BY <1>2, <1>8, <2>5 DEF PostedFrom, Posted, Standing
    <3>2. SpentOnSupplier(k)' = SpentOnSupplier(k)
      BY <1>1, <1>8, <2>5, <3>1, SpentSupplierSame DEF PostedFrom, Posted, Standing
    <3>3. balance'[k] = balance[k]
      BY <1>4, <1>11, <2>1, <2>2, <2>3, <2>5
    <3> QED BY <2>1, <2>2, <2>3, <3>2, <3>3
  <2> QED BY <2>4, <2>5
<1> QED BY <1>12, <1>14, <1>15 DEF MoneyInv, MoneyIsDocumented

LEMMA SupplierStep ==
  ASSUME MoneyInv, SupplierNext, expense' = expense
  PROVE  MoneyInv'
<1>1. CASE PaymentRequests
  <2>1. ASSUME NEW p \in Payments, ReversePayment(p) PROVE MoneyInv'
    BY <2>1, SupplierReversed
  <2>2. ASSUME NEW p \in Payments, NEW k \in Kinds, NEW on \in [Targets -> 0..Most], Pay(p, k, on)
        PROVE  MoneyInv'
    <3>1. on \in [Targets -> Nat]
      BY <2>2
    <3> QED BY <2>2, <3>1, SupplierPaid
  <2> QED BY <1>1, <2>1, <2>2 DEF PaymentRequests
<1>2. CASE OrderRequests
  <2>1. UNCHANGED <<treasury, expense, payment>>
    BY <1>2 DEF OrderRequests, CreateOrder, EndChange, BeginChange, money
  <2> QED BY <2>1, NothingMoves
<1>3. CASE ReceivingRequests
  <2>1. UNCHANGED <<treasury, expense, payment>>
    BY <1>3 DEF ReceivingRequests, CreateReceiving, BeginEdit, ApproveOver, Complete, PostReceipt,
                EndEdit, money
  <2> QED BY <2>1, NothingMoves
<1>4. CASE CorrectionRequests
  <2>1. UNCHANGED <<treasury, expense, payment>>
    BY <1>4 DEF CorrectionRequests, RequestCorrection, RejectCorrection, ApproveCorrection, money
  <2> QED BY <2>1, NothingMoves
<1>5. CASE InvoiceRequests
  <2>1. UNCHANGED <<treasury, expense, payment>>
    BY <1>5 DEF InvoiceRequests, ReverseInvoice, ReceiveInvoice, money
  <2> QED BY <2>1, NothingMoves
<1>6. CASE RegisterOpening \/ Consume
  <2>1. UNCHANGED <<treasury, expense, payment>>
    BY <1>6 DEF RegisterOpening, Consume, money
  <2> QED BY <2>1, NothingMoves
<1> QED BY <1>1, <1>2, <1>3, <1>4, <1>5, <1>6 DEF SupplierNext

LEMMA MoneyInitial == OfficeInit => MoneyInv
<1> SUFFICES ASSUME OfficeInit PROVE MoneyInv
  OBVIOUS
<1>1. Rows = {}
  BY DEF OfficeInit, TreasuryInit, Rows, EmptyBag, SetToBag, BagToSet
<1>2. /\ balance = [k \in Kinds |-> 0] /\ expense = [e \in Expenses |-> "NONE"]
      /\ payment = [p \in Payments |-> [status |-> "NONE"]]
  BY DEF OfficeInit, TreasuryInit, ExpensesInit, SupplierInit
<1>3. MoneyTyped
  BY <1>1, <1>2, FS_EmptySet DEF MoneyTyped, ExpenseStatuses, PaymentRow
<1>4. Booked
  BY <1>1, <1>2 DEF Booked, ExpenseBooked, PaymentBooked, OfCommand
<1>5. ASSUME NEW k \in Kinds
      PROVE  balance[k] = 0 /\ Inflow(k) = 0 /\ SpentOnExpenses(k) = 0 /\ SpentOnSupplier(k) = 0
  <2>1. Inflow(k) = 0
    <3>1. {x \in {} : x.account = k} = {}
      OBVIOUS
    <3>2. {x \in Rows : x.type \in InTypes} = {}
      BY <1>1
    <3>3. Inflow(k) = Moved({x \in Rows : x.type \in InTypes}, k)
      BY DEF Inflow, InTypes
    <3> QED BY Zenon, <3>1, <3>2, <3>3, DeltasNothing DEF Moved
  <2>2. PaidFrom(k) = {}
    BY <1>2 DEF PaidFrom
  <2>3. SpentOnExpenses(k) = 0
    BY <2>2, SpentIsCosts, SumEmpty
  <2>4. PostedFrom(k) = {}
    BY <1>2 DEF PostedFrom, Posted, Standing
  <2>5. SpentOnSupplier(k) = 0
    BY Zenon, <2>4, SumEmpty DEF SpentOnSupplier, PostedFrom
  <2> QED BY <1>2, <2>1, <2>3, <2>5
<1> QED BY <1>3, <1>4, <1>5 DEF MoneyInv, MoneyIsDocumented

LEMMA MoneyStep == MoneyInv /\ [OfficeNext]_office => MoneyInv'
<1> SUFFICES ASSUME MoneyInv, [OfficeNext]_office PROVE MoneyInv'
  OBVIOUS
<1>1. CASE MoneyComes
  BY <1>1, MoneyComesStep
<1>2. CASE ExpensesNext /\ UNCHANGED supplier
  <2>1. UNCHANGED payment
    BY <1>2 DEF supplier, money
  <2> QED BY <1>2, <2>1, ExpensesStep
<1>3. CASE SupplierNext /\ UNCHANGED expense
  BY <1>3, SupplierStep
<1>4. CASE UNCHANGED office
  BY <1>4, NothingMoves DEF office, supplier, money
<1> QED BY <1>1, <1>2, <1>3, <1>4 DEF OfficeNext

(* The money that SAFE and BANK hold is what came in, less the requests    *)
(* that stand paid and the supplier payments that stand posted             *)
(* (record_expense, reverse_transaction).                                  *)
THEOREM OfficeMoneyDocumented == OfficeSpec => []MoneyIsDocumented
<1>1. MoneyInv => MoneyIsDocumented
  BY DEF MoneyInv
<1> QED BY <1>1, MoneyInitial, MoneyStep, PTL DEF OfficeSpec

-----------------------------------------------------------------------------
(* What the supplier is owed: SupplierDebt.                                *)

EntryTypes == {"PURCHASE", "RETURN", "PAYMENT", "PAYMENT_REVERSAL", "ADJUSTMENT"}

LedgerRow == [type : EntryTypes, amount : Nat, ref : Documents \cup Payments \cup {"opening"}]

ReceiptRow ==
  [status : {"NONE", "DRAFT", "COMPLETED"}, over : BOOLEAN, value : Nat, items : Nat,
   correction : Corrections, returned : Nat]

LedgerTyped ==
  /\ IsFiniteSet(LedgerRows) /\ LedgerRows \subseteq LedgerRow
  /\ ledger = [line \in LedgerRows |-> 1]

DebtTyped ==
  /\ LedgerTyped
  /\ receipt \in [Documents -> ReceiptRow]
  /\ payment \in [Payments -> PaymentRow]
  /\ debt \in Int

Unwritten(type, ref) == \A line \in LedgerRows : line.ref = ref => line.type # type

(* What is not completed has left no purchase, what is not corrected no    *)
(* return; so neither is written twice.                                    *)
ReceiptRight(d) ==
  /\ receipt[d].status = "COMPLETED" => receipt[d].items > 0 /\ receipt[d].value > 0
  /\ receipt[d].status # "COMPLETED" =>
       receipt[d].value = 0 /\ receipt[d].correction = "none" /\ Unwritten("PURCHASE", d)
  /\ receipt[d].correction # "APPROVED" => receipt[d].returned = 0 /\ Unwritten("RETURN", d)

PaymentRight(p) ==
  /\ payment[p].status = "NONE" => Unwritten("PAYMENT", p)
  /\ payment[p].status # "REVERSED" => Unwritten("PAYMENT_REVERSAL", p)

NothingReturned(D) == \A d \in D : receipt[d].returned = 0

(* Without a return, no more is paid on a target than is owed on it.       *)
NotOverpaid(t) == NothingReturned(DocumentsOf(t)) => CanonicalPaid(t) <= Principal(t)

DebtInv ==
  /\ DebtTyped
  /\ \A d \in Documents : ReceiptRight(d)
  /\ \A p \in Payments : PaymentRight(p)
  /\ DebtIsItsDocuments
  /\ \A t \in Targets : NotOverpaid(t)
  /\ NothingReturned(Documents) => debt >= 0

-----------------------------------------------------------------------------
(* The worth of rows.                                                      *)

LEMMA SignedInt ==
  ASSUME NEW line \in LedgerRow
  PROVE  Signed(line) \in Int
BY DEF LedgerRow, Signed

LEMMA WorthInt ==
  ASSUME NEW S, IsFiniteSet(S), S \subseteq LedgerRow
  PROVE  Worth(S) \in Int
<1> DEFINE f == [line \in S |-> Signed(line)]
<1>1. \A line \in S : f[line] \in Int
  BY SignedInt
<1> HIDE DEF f
<1>2. SumFunctionOnSet(f, S) \in Int
  BY <1>1, SumInt
<1> QED BY <1>2 DEF Worth, f

LEMMA WorthAdds ==
  ASSUME NEW S, IsFiniteSet(S), S \subseteq LedgerRow, NEW line \in LedgerRow, line \notin S
  PROVE  Worth(S \cup {line}) = Worth(S) + Signed(line)
<1> DEFINE f == [x \in S |-> Signed(x)]  g == [x \in S \cup {line} |-> Signed(x)]
<1>1. (\A x \in S : f[x] \in Int /\ g[x] = f[x]) /\ g[line] \in Int /\ g[line] = Signed(line)
  BY SignedInt
<1> HIDE DEF f, g
<1>2. SumFunctionOnSet(g, S \cup {line}) = SumFunctionOnSet(f, S) + g[line]
  BY <1>1, SumJoined
<1> QED BY <1>1, <1>2 DEF Worth, f, g

LEMMA WorthNothing == Worth({}) = 0
  BY SumEmpty DEF Worth

(* Every row of the ledger is there once, so that its balance is its worth.*)
LEMMA OnceEach ==
  ASSUME NEW S, IsFiniteSet(S), S \subseteq LedgerRow, NEW b, b = [line \in S |-> 1]
  PROVE  SumFunctionOnSet([line \in S |-> Signed(line) * b[line]], S) = Worth(S)
<1> DEFINE f == [line \in S |-> Signed(line) * b[line]]  g == [line \in S |-> Signed(line)]
<1>1. \A line \in S : f[line] = g[line]
  <2> SUFFICES ASSUME NEW line \in S PROVE f[line] = g[line]
    OBVIOUS
  <2>1. Signed(line) \in Int /\ b[line] = 1
    BY SignedInt
  <2> QED BY <2>1
<1> HIDE DEF f, g
<1>2. SumFunctionOnSet(f, S) = SumFunctionOnSet(g, S)
  BY <1>1, SumSame
<1> QED BY <1>2 DEF f, g, Worth

LEMMA BalanceIsWorth ==
  /\ LedgerTyped => LedgerBalance = Worth(LedgerRows)
  /\ LedgerTyped' => LedgerBalance' = Worth(LedgerRows')
<1>1. LedgerTyped => LedgerBalance = Worth(LedgerRows)
  BY OnceEach DEF LedgerTyped, LedgerBalance
<1>2. LedgerTyped' => LedgerBalance' = Worth(LedgerRows')
  BY OnceEach DEF LedgerTyped, LedgerBalance
<1> QED BY <1>1, <1>2

PrincipalRows(t) ==
  {line \in LedgerRows : line.type \in {"PURCHASE", "RETURN"} /\ line.ref \in DocumentsOf(t)}

OpeningRows == {line \in LedgerRows : line.ref = "opening"}

LEMMA PrincipalIs ==
  ASSUME NEW t
  PROVE  /\ Principal(t) = IF t = "opening" THEN Opening ELSE AtLeastZero(Worth(PrincipalRows(t)))
         /\ Principal(t)' = IF t = "opening" THEN Opening' ELSE AtLeastZero(Worth(PrincipalRows(t)'))
         /\ Opening = Worth(OpeningRows) /\ Opening' = Worth(OpeningRows')
BY DEF Principal, PrincipalRows, Opening, OpeningRows

LEMMA PartsTyped ==
  ASSUME LedgerTyped, NEW S, S \subseteq LedgerRows
  PROVE  IsFiniteSet(S) /\ S \subseteq LedgerRow /\ Worth(S) \in Int
<1>1. IsFiniteSet(S) /\ S \subseteq LedgerRow
  BY FS_Subset DEF LedgerTyped
<1> QED BY <1>1, WorthInt

(* One more row.                                                           *)
LEMMA RowPosted ==
  ASSUME LedgerTyped, debt \in Int, NEW type \in EntryTypes, NEW amount \in Nat,
         NEW ref \in Documents \cup Payments \cup {"opening"},
         Unwritten(type, ref), PostDebt(type, amount, ref)
  PROVE  LET line == Entry(type, amount, ref)
         IN /\ LedgerRows' = LedgerRows \cup {line} /\ line \notin LedgerRows /\ line \in LedgerRow
            /\ LedgerTyped'
            /\ LedgerBalance' = LedgerBalance + Signed(line)
            /\ LedgerBalance \in Int /\ Signed(line) \in Int /\ debt' \in Int
            /\ debt' = debt + Signed(line)
            /\ debt' - LedgerBalance' = debt - LedgerBalance
<1> DEFINE line == Entry(type, amount, ref)
<1>1. line \in LedgerRow /\ line.type = type /\ line.ref = ref /\ line.amount = amount
  BY DEF Entry, LedgerRow
<1>2. line \notin LedgerRows
  BY <1>1 DEF Unwritten
<1>3. ledger' = ledger (+) SetToBag({line}) /\ debt' = debt + Signed(line)
  BY DEF PostDebt
<1> HIDE DEF line
<1>4. LedgerRows' = LedgerRows \cup {line}
  BY <1>3 DEF LedgerRows, BagToSet, SetToBag, (+)
<1>5. ledger' = [x \in LedgerRows \cup {line} |-> 1]
  <2> DEFINE bag == [x \in {line} |-> 1]
  <2>1. ledger' = [x \in (DOMAIN ledger) \cup (DOMAIN bag) |->
          (IF x \in DOMAIN ledger THEN ledger[x] ELSE 0) + (IF x \in DOMAIN bag THEN bag[x] ELSE 0)]
    BY <1>3 DEF SetToBag, (+)
  <2>2. DOMAIN bag = {line} /\ bag[line] = 1 /\ DOMAIN ledger = LedgerRows
        /\ \A x \in LedgerRows : ledger[x] = 1
    BY DEF LedgerTyped, LedgerRows, BagToSet
  <2> HIDE DEF bag
  <2>3. \A x \in LedgerRows \cup {line} :
          (IF x \in DOMAIN ledger THEN ledger[x] ELSE 0) + (IF x \in DOMAIN bag THEN bag[x] ELSE 0) = 1
    BY <1>2, <2>2
  <2> QED BY <2>1, <2>2, <2>3
<1>6. LedgerTyped'
  <2>1. IsFiniteSet(LedgerRows')
    BY <1>4, FS_AddElement DEF LedgerTyped
  <2> QED BY <1>1, <1>4, <1>5, <2>1 DEF LedgerTyped
<1>7. /\ LedgerBalance = Worth(LedgerRows) /\ LedgerBalance' = Worth(LedgerRows \cup {line})
  BY <1>4, <1>6, BalanceIsWorth
<1>8. Worth(LedgerRows \cup {line}) = Worth(LedgerRows) + Signed(line) /\ Worth(LedgerRows) \in Int
  BY <1>1, <1>2, WorthAdds, WorthInt DEF LedgerTyped
<1>9. Signed(line) \in Int
  BY <1>1, SignedInt
<1>10. /\ LedgerBalance' = LedgerBalance + Signed(line) /\ LedgerBalance \in Int /\ debt' \in Int
       /\ debt' - LedgerBalance' = debt - LedgerBalance
  BY <1>3, <1>7, <1>8, <1>9
<1> QED BY <1>1, <1>2, <1>3, <1>4, <1>6, <1>9, <1>10 DEF line

(* What it is to the targets.                                              *)
LEMMA PrincipalPosted ==
  ASSUME LedgerTyped, NEW line \in LedgerRow, line \notin LedgerRows, LedgerRows' = LedgerRows \cup {line},
         line.ref # "opening"
  PROVE  /\ Opening' = Opening /\ Opening \in Int
         /\ \A t \in Targets :
              /\ Principal(t) \in Int
              /\ ~(line.type \in {"PURCHASE", "RETURN"} /\ line.ref \in DocumentsOf(t))
                   => Principal(t)' = Principal(t)
              /\ line.type = "PURCHASE" => Principal(t)' >= Principal(t) /\ Principal(t)' \in Int
<1>1. OpeningRows' = OpeningRows
  BY DEF OpeningRows
<1>2. Opening' = Opening /\ Opening \in Int
  <2>1. Worth(OpeningRows) \in Int
    BY PartsTyped DEF OpeningRows
  <2> QED BY <1>1, <2>1, PrincipalIs
<1>3. ASSUME NEW t \in Targets
      PROVE  /\ Principal(t) \in Int
             /\ ~(line.type \in {"PURCHASE", "RETURN"} /\ line.ref \in DocumentsOf(t))
                  => Principal(t)' = Principal(t)
             /\ line.type = "PURCHASE" => Principal(t)' >= Principal(t) /\ Principal(t)' \in Int
  <2>1. CASE t = "opening"
    <3>1. Principal(t) = Opening /\ Principal(t)' = Opening'
      BY <2>1, PrincipalIs
    <3> QED BY <1>2, <3>1
  <2>2. CASE t # "opening"
    <3>1. /\ Principal(t) = AtLeastZero(Worth(PrincipalRows(t)))
          /\ Principal(t)' = AtLeastZero(Worth(PrincipalRows(t)'))
      BY <2>2, PrincipalIs
    <3>2. /\ IsFiniteSet(PrincipalRows(t)) /\ PrincipalRows(t) \subseteq LedgerRow
          /\ Worth(PrincipalRows(t)) \in Int /\ line \notin PrincipalRows(t)
      BY PartsTyped DEF PrincipalRows
    <3>3. CASE ~(line.type \in {"PURCHASE", "RETURN"} /\ line.ref \in DocumentsOf(t))
      <4>1. PrincipalRows(t)' = PrincipalRows(t)
        BY <3>3 DEF PrincipalRows, DocumentsOf
      <4>2. Principal(t)' = Principal(t) /\ Principal(t) \in Int
        BY <3>1, <3>2, <4>1 DEF AtLeastZero
      <4> QED BY <4>2
    <3>4. CASE line.type \in {"PURCHASE", "RETURN"} /\ line.ref \in DocumentsOf(t)
      <4>1. PrincipalRows(t)' = PrincipalRows(t) \cup {line}
        BY <3>4 DEF PrincipalRows, DocumentsOf
      <4>2. Worth(PrincipalRows(t)') = Worth(PrincipalRows(t)) + Signed(line)
        BY <3>2, <4>1, WorthAdds
      <4>3. Signed(line) \in Int /\ (line.type = "PURCHASE" => Signed(line) >= 0)
        BY DEF Signed, LedgerRow
      <4> QED BY <3>1, <3>2, <3>4, <4>2, <4>3 DEF AtLeastZero
    <3> QED BY <3>3, <3>4
  <2> QED BY <2>1, <2>2
<1> QED BY <1>2, <1>3

-----------------------------------------------------------------------------
(* The payments that stand.                                                *)

PaidSum(pays) ==
  SumFunctionOnSet([p \in Standing(pays) |-> Principals(pays[p].on)], Standing(pays))

LEMMA StandingFinite ==
  ASSUME NEW pays
  PROVE  IsFiniteSet(Standing(pays)) /\ Standing(pays) \subseteq Payments
BY SupplierDebtAssumption, FS_Subset DEF Standing

LEMMA StandingTyped ==
  ASSUME NEW pays \in [Payments -> PaymentRow], NEW p \in Standing(pays)
  PROVE  pays[p].on \in [Targets -> Nat] /\ Principals(pays[p].on) \in Nat
BY PaymentFields, PrincipalsTyped DEF Standing

LEMMA StandingJoined ==
  ASSUME NEW pays \in [Payments -> PaymentRow], NEW new \in [Payments -> PaymentRow], NEW p \in Payments,
         pays[p].status = "NONE", new[p].status = "POSTED", \A q \in Payments \ {p} : new[q] = pays[q]
  PROVE  /\ PaidSum(new) = PaidSum(pays) + Principals(new[p].on) /\ PaidSum(pays) \in Int
         /\ \A t \in Targets : PaidOn(new, t) = PaidOn(pays, t) + new[p].on[t] /\ PaidOn(pays, t) \in Int
<1> DEFINE S == Standing(pays)
<1>1. Standing(new) = S \cup {p} /\ p \notin S /\ IsFiniteSet(S) /\ S \subseteq Payments
  BY StandingFinite DEF Standing
<1>2. \A q \in S : /\ q # p /\ new[q] = pays[q] /\ pays[q].on \in [Targets -> Nat]
                   /\ Principals(pays[q].on) \in Nat
  BY <1>1, StandingTyped
<1>3. new[p].on \in [Targets -> Nat] /\ Principals(new[p].on) \in Nat
  BY <1>1, StandingTyped
<1> HIDE DEF S
<1>4. PaidSum(new) = PaidSum(pays) + Principals(new[p].on) /\ PaidSum(pays) \in Int
  <2> DEFINE f == [q \in S |-> Principals(pays[q].on)]  g == [q \in S \cup {p} |-> Principals(new[q].on)]
  <2>1. (\A q \in S : f[q] \in Int /\ g[q] = f[q]) /\ g[p] \in Int /\ g[p] = Principals(new[p].on)
    BY <1>2, <1>3
  <2>2. PaidSum(pays) = SumFunctionOnSet(f, S) /\ PaidSum(new) = SumFunctionOnSet(g, S \cup {p})
    BY <1>1 DEF PaidSum, S
  <2> HIDE DEF f, g
  <2>3. SumFunctionOnSet(g, S \cup {p}) = SumFunctionOnSet(f, S) + g[p] /\ SumFunctionOnSet(f, S) \in Int
    BY <1>1, <2>1, SumJoined
  <2> QED BY <2>1, <2>2, <2>3
<1>5. ASSUME NEW t \in Targets
      PROVE  PaidOn(new, t) = PaidOn(pays, t) + new[p].on[t] /\ PaidOn(pays, t) \in Int
  <2> DEFINE f == [q \in S |-> pays[q].on[t]]  g == [q \in S \cup {p} |-> new[q].on[t]]
  <2>1. (\A q \in S : f[q] \in Int /\ g[q] = f[q]) /\ g[p] \in Int /\ g[p] = new[p].on[t]
    BY <1>2, <1>3
  <2>2. PaidOn(pays, t) = SumFunctionOnSet(f, S) /\ PaidOn(new, t) = SumFunctionOnSet(g, S \cup {p})
    BY <1>1 DEF PaidOn, S
  <2> HIDE DEF f, g
  <2>3. SumFunctionOnSet(g, S \cup {p}) = SumFunctionOnSet(f, S) + g[p] /\ SumFunctionOnSet(f, S) \in Int
    BY <1>1, <2>1, SumJoined
  <2> QED BY <2>1, <2>2, <2>3
<1> QED BY <1>4, <1>5

LEMMA StandingLeft ==
  ASSUME NEW pays \in [Payments -> PaymentRow], NEW new \in [Payments -> PaymentRow], NEW p \in Payments,
         pays[p].status = "POSTED", new[p].status = "REVERSED", \A q \in Payments \ {p} : new[q] = pays[q]
  PROVE  /\ PaidSum(new) = PaidSum(pays) - Principals(pays[p].on) /\ PaidSum(pays) \in Int
         /\ Principals(pays[p].on) \in Nat
         /\ \A t \in Targets : /\ PaidOn(new, t) = PaidOn(pays, t) - pays[p].on[t]
                               /\ PaidOn(pays, t) \in Int /\ pays[p].on[t] \in Nat
<1> DEFINE S == Standing(pays)  T == Standing(new)
<1>1. T = S \ {p} /\ p \in S /\ IsFiniteSet(S) /\ S \subseteq Payments
  BY StandingFinite DEF Standing
<1>2. \A q \in S : pays[q].on \in [Targets -> Nat] /\ Principals(pays[q].on) \in Nat
  BY StandingTyped
<1>3. \A q \in T : new[q] = pays[q]
  BY <1>1
<1> HIDE DEF S, T
<1>4. PaidSum(new) = PaidSum(pays) - Principals(pays[p].on) /\ PaidSum(pays) \in Int
  <2> DEFINE f == [q \in S |-> Principals(pays[q].on)]  g == [q \in T |-> Principals(new[q].on)]
  <2>1. (\A q \in S : f[q] \in Int) /\ (\A q \in T : g[q] = f[q]) /\ f[p] = Principals(pays[p].on)
    BY <1>1, <1>2, <1>3
  <2>2. PaidSum(pays) = SumFunctionOnSet(f, S) /\ PaidSum(new) = SumFunctionOnSet(g, T)
    BY <1>1 DEF PaidSum, S, T
  <2> HIDE DEF f, g
  <2>3. IsFiniteSet(S) /\ p \in S /\ T = S \ {p} /\ (\A q \in S : f[q] \in Int) /\ (\A q \in T : g[q] = f[q])
    BY <1>1, <2>1
  <2>4. SumFunctionOnSet(g, T) = SumFunctionOnSet(f, S) - f[p] /\ SumFunctionOnSet(f, S) \in Int
    BY <2>3, SumLeft
  <2> QED BY <2>1, <2>2, <2>4
<1>5. ASSUME NEW t \in Targets
      PROVE  /\ PaidOn(new, t) = PaidOn(pays, t) - pays[p].on[t]
             /\ PaidOn(pays, t) \in Int /\ pays[p].on[t] \in Nat
  <2> DEFINE f == [q \in S |-> pays[q].on[t]]  g == [q \in T |-> new[q].on[t]]
  <2>1. (\A q \in S : f[q] \in Int) /\ (\A q \in T : g[q] = f[q]) /\ f[p] = pays[p].on[t]
    BY <1>1, <1>2, <1>3
  <2>2. PaidOn(pays, t) = SumFunctionOnSet(f, S) /\ PaidOn(new, t) = SumFunctionOnSet(g, T)
    BY <1>1 DEF PaidOn, S, T
  <2> HIDE DEF f, g
  <2>3. IsFiniteSet(S) /\ p \in S /\ T = S \ {p} /\ (\A q \in S : f[q] \in Int) /\ (\A q \in T : g[q] = f[q])
    BY <1>1, <2>1
  <2>4. SumFunctionOnSet(g, T) = SumFunctionOnSet(f, S) - f[p] /\ SumFunctionOnSet(f, S) \in Int
    BY <2>3, SumLeft
  <2>5. pays[p].on[t] \in Nat
    BY <1>1, <1>2
  <2> QED BY <2>1, <2>2, <2>4, <2>5
<1> QED BY <1>1, <1>2, <1>4, <1>5

LEMMA NoneStanding ==
  ASSUME NEW pays, \A p \in Payments : pays[p].status # "POSTED"
  PROVE  PaidSum(pays) = 0 /\ \A t : PaidOn(pays, t) = 0
<1>1. Standing(pays) = {}
  BY DEF Standing
<1> QED BY Zenon, <1>1, SumEmpty DEF PaidSum, PaidOn

LEMMA PaidOnNat ==
  ASSUME NEW pays \in [Payments -> PaymentRow], NEW t \in Targets
  PROVE  PaidOn(pays, t) \in Nat
<1> DEFINE f == [q \in Standing(pays) |-> pays[q].on[t]]
<1>1. \A q \in Standing(pays) : f[q] \in Nat
  BY StandingTyped
<1>2. PaidOn(pays, t) = SumFunctionOnSet(f, Standing(pays)) /\ IsFiniteSet(Standing(pays))
  BY StandingFinite DEF PaidOn
<1> HIDE DEF f
<1> QED BY <1>1, <1>2, SumNat

-----------------------------------------------------------------------------
(* What was received and kept.                                             *)

KeptOf(rs) == [d \in Documents |-> rs[d].value - rs[d].returned]

ReceivedSum(rs) == SumFunctionOnSet(KeptOf(rs), Documents)

LEMMA KeptSame ==
  ASSUME NEW rs, NEW new, \A d \in Documents : new[d].value = rs[d].value /\ new[d].returned = rs[d].returned
  PROVE  ReceivedSum(new) = ReceivedSum(rs)
<1>1. KeptOf(new) = KeptOf(rs)
  BY DEF KeptOf
<1> QED BY Zenon, <1>1 DEF ReceivedSum

LEMMA KeptChanges ==
  ASSUME NEW rs \in [Documents -> ReceiptRow], NEW new \in [Documents -> ReceiptRow], NEW d \in Documents,
         \A x \in Documents \ {d} : new[x].value = rs[x].value /\ new[x].returned = rs[x].returned
  PROVE  /\ ReceivedSum(new) = ReceivedSum(rs) - (rs[d].value - rs[d].returned)
                                 + (new[d].value - new[d].returned)
         /\ ReceivedSum(rs) \in Int
<1> DEFINE f == KeptOf(rs)  g == KeptOf(new)
<1>1. /\ \A x \in Documents : f[x] \in Int /\ g[x] \in Int
      /\ \A x \in Documents \ {d} : g[x] = f[x]
      /\ f[d] = rs[d].value - rs[d].returned /\ g[d] = new[d].value - new[d].returned
  BY DEF KeptOf, ReceiptRow
<1> HIDE DEF f, g
<1>2. SumFunctionOnSet(g, Documents) = SumFunctionOnSet(f, Documents) - f[d] + g[d]
  BY <1>1, SumChanges, SupplierDebtAssumption
<1>3. SumFunctionOnSet(f, Documents) \in Int
  BY <1>1, SumInt, SupplierDebtAssumption
<1> QED BY <1>1, <1>2, <1>3 DEF ReceivedSum, f, g

LEMMA KeptNothing ==
  ASSUME NEW rs, \A d \in Documents : rs[d].value = 0 /\ rs[d].returned = 0
  PROVE  ReceivedSum(rs) = 0
<1> DEFINE f == KeptOf(rs)
<1>1. \A x \in Documents : f[x] = 0
  BY DEF KeptOf
<1> HIDE DEF f
<1>2. SumFunctionOnSet(f, Documents) = SumFunctionOnSet(f, {})
  BY <1>1, SumOver, SupplierDebtAssumption
<1> QED BY <1>2, SumEmpty DEF ReceivedSum, f

LEMMA AccountsAre ==
  DebtIsItsDocuments <=>
    /\ LedgerBalance = ReceivedSum(receipt) + Opening - PaidSum(payment)
    /\ debt - LedgerBalance \in (IF Opening > 0 THEN {0} ELSE {0, Legacy})
    /\ paid = Refreshed(payment)
BY DEF DebtIsItsDocuments, ReceivedSum, KeptOf, PaidSum, Posted

-----------------------------------------------------------------------------
(* The steps.                                                              *)

LEMMA DebtParts ==
  ASSUME DebtInv
  PROVE  /\ LedgerTyped /\ debt \in Int
         /\ receipt \in [Documents -> ReceiptRow] /\ payment \in [Payments -> PaymentRow]
         /\ LedgerBalance = ReceivedSum(receipt) + Opening - PaidSum(payment)
         /\ debt - LedgerBalance \in (IF Opening > 0 THEN {0} ELSE {0, Legacy})
         /\ paid = Refreshed(payment)
BY AccountsAre DEF DebtInv, DebtTyped

LEMMA AccountsAfter ==
  ASSUME LedgerBalance' = ReceivedSum(receipt') + Opening' - PaidSum(payment'),
         debt' - LedgerBalance' \in (IF Opening' > 0 THEN {0} ELSE {0, Legacy}),
         paid' = Refreshed(payment')
  PROVE  DebtIsItsDocuments'
BY DEF DebtIsItsDocuments, ReceivedSum, KeptOf, PaidSum, Posted, Refreshed

LEMMA PaidOnAfter ==
  ASSUME NEW t
  PROVE  CanonicalPaid(t) = PaidOn(payment, t) /\ CanonicalPaid(t)' = PaidOn(payment', t)
BY DEF CanonicalPaid, PaidOn, Standing

(* Neither the debt nor what stands for it moves.                          *)
LEMMA DebtStays ==
  ASSUME DebtInv, UNCHANGED money, receipt' \in [Documents -> ReceiptRow],
         \A d \in Documents :
           /\ receipt'[d].value = receipt[d].value /\ receipt'[d].returned = receipt[d].returned
           /\ receipt'[d].status = "COMPLETED" <=> receipt[d].status = "COMPLETED"
           /\ receipt'[d].correction = "APPROVED" <=> receipt[d].correction = "APPROVED"
           /\ receipt'[d].status # "COMPLETED" => receipt'[d].correction = "none"
           /\ receipt'[d].status = "COMPLETED" => receipt'[d].items > 0
  PROVE  DebtInv'
<1>1. UNCHANGED <<payment, paid, debt, ledger>>
  BY DEF money
<1>2. DebtTyped'
  BY <1>1 DEF DebtInv, DebtTyped, LedgerTyped, LedgerRows
<1>3. \A type, ref : Unwritten(type, ref)' <=> Unwritten(type, ref)
  BY <1>1 DEF Unwritten, LedgerRows
<1>4. \A d \in Documents : ReceiptRight(d)'
  BY <1>3 DEF DebtInv, ReceiptRight
<1>5. \A p \in Payments : PaymentRight(p)'
  BY <1>1, <1>3 DEF DebtInv, PaymentRight
<1>6. LedgerBalance' = LedgerBalance /\ Opening' = Opening /\ \A t : Principal(t)' = Principal(t)
  BY <1>1 DEF LedgerBalance, LedgerRows, Opening, Principal, DocumentsOf
<1>7. ReceivedSum(receipt') = ReceivedSum(receipt)
  BY KeptSame
<1>8. DebtIsItsDocuments'
  BY <1>1, <1>6, <1>7, DebtParts, AccountsAfter
<1>9. \A D \in SUBSET Documents : NothingReturned(D)' <=> NothingReturned(D)
  BY DEF NothingReturned
<1>10. \A t \in Targets : NotOverpaid(t)'
  <2>1. \A t : DocumentsOf(t) \in SUBSET Documents /\ DocumentsOf(t)' = DocumentsOf(t)
    BY DEF DocumentsOf
  <2>2. \A t \in Targets : NotOverpaid(t)
    BY DEF DebtInv
  <2>3. \A t : CanonicalPaid(t)' = CanonicalPaid(t)
    BY <1>1, PaidOnAfter
  <2> QED BY <1>6, <1>9, <2>1, <2>2, <2>3 DEF NotOverpaid
<1>11. (NothingReturned(Documents) => debt >= 0)'
  BY <1>1, <1>9 DEF DebtInv
<1> QED BY <1>2, <1>4, <1>5, <1>8, <1>10, <1>11 DEF DebtInv

LEMMA UnwrittenAfter ==
  ASSUME NEW line, LedgerRows' = LedgerRows \cup {line}, NEW type, NEW ref,
         line.type # type \/ line.ref # ref
  PROVE  Unwritten(type, ref)' <=> Unwritten(type, ref)
BY DEF Unwritten

LEMMA WhoseDocuments ==
  /\ DocumentsOf("opening") = {}
  /\ \A t : DocumentsOf(t) \subseteq Documents /\ DocumentsOf(t)' = DocumentsOf(t)
BY SupplierDebtAssumption DEF DocumentsOf, Payable

(* Goods came, or went back: the ledger, the debt and the document agree.  *)
LEMMA GoodsPosted ==
  ASSUME DebtInv, NEW d \in Documents, NEW type \in {"PURCHASE", "RETURN"}, NEW n \in Nat,
         Unwritten(type, d), PostDebt(type, n, d), UNCHANGED <<payment, paid>>,
         receipt' \in [Documents -> ReceiptRow],
         \A x \in Documents \ {d} : receipt'[x] = receipt[x],
         ReceiptRight(d)',
         type = "PURCHASE" => /\ receipt'[d].value = receipt[d].value + n
                              /\ receipt'[d].returned = receipt[d].returned,
         type = "RETURN" => /\ receipt'[d].value = receipt[d].value
                            /\ receipt[d].returned = 0
                            /\ receipt'[d].returned = n /\ n > 0
  PROVE  DebtInv'
<1> DEFINE line == Entry(type, n, d)
<1>1. line.type = type /\ line.ref = d /\ line.amount = n
      /\ Signed(line) = IF type = "PURCHASE" THEN n ELSE - n
  BY DEF Entry, Signed
<1>2. d # "opening" /\ d \in Documents \cup Payments \cup {"opening"} /\ type \in EntryTypes
  BY SupplierDebtAssumption DEF EntryTypes, Payable
<1>3. LedgerTyped /\ debt \in Int
  BY DebtParts
<1>4. /\ LedgerRows' = LedgerRows \cup {line} /\ line \notin LedgerRows /\ line \in LedgerRow
      /\ LedgerTyped'
      /\ LedgerBalance' = LedgerBalance + Signed(line)
      /\ LedgerBalance \in Int /\ Signed(line) \in Int /\ debt' \in Int
      /\ debt' = debt + Signed(line)
      /\ debt' - LedgerBalance' = debt - LedgerBalance
  BY <1>2, <1>3, RowPosted
<1> HIDE DEF line
<1>5. /\ Opening' = Opening /\ Opening \in Int
      /\ \A t \in Targets :
           /\ Principal(t) \in Int
           /\ ~(line.type \in {"PURCHASE", "RETURN"} /\ line.ref \in DocumentsOf(t))
                => Principal(t)' = Principal(t)
           /\ line.type = "PURCHASE" => Principal(t)' >= Principal(t) /\ Principal(t)' \in Int
  BY <1>1, <1>2, <1>3, <1>4, PrincipalPosted
<1>6. DebtTyped'
  BY <1>4, DebtParts DEF DebtTyped
<1>7. \A x \in Documents : ReceiptRight(x)'
  <2> SUFFICES ASSUME NEW x \in Documents, x # d PROVE ReceiptRight(x)'
    OBVIOUS
  <2>1. \A k : Unwritten(k, x)' <=> Unwritten(k, x)
    BY <1>1, <1>4, UnwrittenAfter
  <2>2. receipt'[x] = receipt[x] /\ ReceiptRight(x)
    BY DEF DebtInv
  <2> QED BY <2>1, <2>2 DEF ReceiptRight
<1>8. \A p \in Payments : PaymentRight(p)'
  <2> SUFFICES ASSUME NEW p \in Payments PROVE PaymentRight(p)'
    OBVIOUS
  <2>1. /\ Unwritten("PAYMENT", p)' <=> Unwritten("PAYMENT", p)
        /\ Unwritten("PAYMENT_REVERSAL", p)' <=> Unwritten("PAYMENT_REVERSAL", p)
    BY <1>1, <1>4, UnwrittenAfter
  <2> QED BY <2>1 DEF PaymentRight, DebtInv
<1>9. ReceivedSum(receipt') = ReceivedSum(receipt) + Signed(line) /\ ReceivedSum(receipt) \in Int
  <2>1. receipt \in [Documents -> ReceiptRow]
    BY DebtParts
  <2>2. /\ ReceivedSum(receipt') = ReceivedSum(receipt) - (receipt[d].value - receipt[d].returned)
                                 + (receipt'[d].value - receipt'[d].returned)
        /\ ReceivedSum(receipt) \in Int
    BY <2>1, KeptChanges
  <2>3. receipt[d].value \in Nat /\ receipt[d].returned \in Nat
        /\ receipt'[d].value \in Nat /\ receipt'[d].returned \in Nat
    BY <2>1 DEF ReceiptRow
  <2> QED BY <1>1, <2>2, <2>3
<1>10. DebtIsItsDocuments'
  <2>1. LedgerBalance = ReceivedSum(receipt) + Opening - PaidSum(payment)
        /\ debt - LedgerBalance \in (IF Opening > 0 THEN {0} ELSE {0, Legacy})
        /\ paid = Refreshed(payment) /\ payment \in [Payments -> PaymentRow]
    BY DebtParts
  <2>2. PaidSum(payment) \in Int
    <3> DEFINE f == [p \in Standing(payment) |-> Principals(payment[p].on)]
    <3>1. \A p \in Standing(payment) : f[p] \in Int
      BY <2>1, StandingTyped
    <3>2. PaidSum(payment) = SumFunctionOnSet(f, Standing(payment))
      BY DEF PaidSum
    <3> HIDE DEF f
    <3> QED BY <3>1, <3>2, StandingFinite, SumInt
  <2>3. LedgerBalance' = ReceivedSum(receipt') + Opening' - PaidSum(payment')
    <3>1. PaidSum(payment') = PaidSum(payment)
      OBVIOUS
    <3> QED BY <1>4, <1>5, <1>9, <2>1, <2>2, <3>1
  <2>4. debt' - LedgerBalance' \in (IF Opening' > 0 THEN {0} ELSE {0, Legacy})
    BY <1>4, <1>5, <2>1
  <2>5. paid' = Refreshed(payment')
    BY <2>1
  <2> QED BY <2>3, <2>4, <2>5, AccountsAfter
<1>11. \A D \in SUBSET Documents : NothingReturned(D)' => NothingReturned(D) /\ (type = "RETURN" => d \notin D)
  <2> SUFFICES ASSUME NEW D \in SUBSET Documents, NothingReturned(D)'
               PROVE  NothingReturned(D) /\ (type = "RETURN" => d \notin D)
    OBVIOUS
  <2>1. \A x \in D : receipt'[x].returned = 0
    BY DEF NothingReturned
  <2>2. type = "RETURN" => d \notin D
    BY <2>1
  <2>3. \A x \in D : receipt[x].returned = 0
    BY <2>1, <2>2
  <2> QED BY <2>2, <2>3 DEF NothingReturned
<1>12. \A t \in Targets : NotOverpaid(t)'
  <2> SUFFICES ASSUME NEW t \in Targets, NothingReturned(DocumentsOf(t))'
               PROVE  CanonicalPaid(t)' <= Principal(t)'
    BY DEF NotOverpaid
  <2>1. DocumentsOf(t) \in SUBSET Documents /\ DocumentsOf(t)' = DocumentsOf(t)
    BY WhoseDocuments
  <2>2. NothingReturned(DocumentsOf(t)) /\ (type = "RETURN" => d \notin DocumentsOf(t))
    BY <1>11, <2>1 DEF NothingReturned
  <2>3. CanonicalPaid(t) <= Principal(t) /\ CanonicalPaid(t)' = CanonicalPaid(t)
    BY <2>2, PaidOnAfter DEF DebtInv, NotOverpaid
  <2>4. CanonicalPaid(t) \in Int
    BY DebtParts, PaidOnNat, PaidOnAfter
  <2>5. CASE type = "RETURN"
    BY <1>1, <1>5, <2>2, <2>3, <2>5
  <2>6. CASE type = "PURCHASE"
    BY <1>1, <1>5, <2>3, <2>4, <2>6
  <2> QED BY <2>5, <2>6
<1>13. (NothingReturned(Documents) => debt >= 0)'
  <2> SUFFICES ASSUME NothingReturned(Documents)' PROVE debt' >= 0
    OBVIOUS
  <2>1. NothingReturned(Documents) /\ type = "PURCHASE"
    BY <1>11 DEF NothingReturned
  <2>2. debt >= 0
    BY <2>1 DEF DebtInv
  <2> QED BY <1>1, <1>3, <1>4, <2>1, <2>2
<1> QED BY <1>6, <1>7, <1>8, <1>10, <1>12, <1>13 DEF DebtInv

(* The commands that only prepare, and the kitchen.                        *)
LEMMA ReceiptStays ==
  ASSUME DebtInv, UNCHANGED money, UNCHANGED receipt
  PROVE  DebtInv'
<1>1. receipt \in [Documents -> ReceiptRow] /\ \A d \in Documents : ReceiptRight(d)
  BY DEF DebtInv, DebtTyped
<1> QED BY <1>1, DebtStays DEF ReceiptRight

LEMMA ReceiptPrepared ==
  ASSUME DebtInv, UNCHANGED money, NEW d \in Documents, NEW new \in ReceiptRow,
         receipt' = [receipt EXCEPT ![d] = new],
         new.value = receipt[d].value, new.returned = receipt[d].returned,
         new.status = "COMPLETED" <=> receipt[d].status = "COMPLETED",
         new.correction = "APPROVED" <=> receipt[d].correction = "APPROVED",
         new.status # "COMPLETED" => new.correction = "none",
         new.status = "COMPLETED" => new.items > 0
  PROVE  DebtInv'
<1>1. receipt \in [Documents -> ReceiptRow] /\ \A x \in Documents : ReceiptRight(x)
  BY DEF DebtInv, DebtTyped
<1>2. receipt' \in [Documents -> ReceiptRow] /\ receipt'[d] = new
      /\ \A x \in Documents \ {d} : receipt'[x] = receipt[x]
  BY <1>1
<1>3. \A x \in Documents \ {d} :
        /\ receipt[x].status # "COMPLETED" => receipt[x].correction = "none"
        /\ receipt[x].status = "COMPLETED" => receipt[x].items > 0
  BY <1>1 DEF ReceiptRight
<1>4. ASSUME NEW x \in Documents
      PROVE  /\ receipt'[x].value = receipt[x].value /\ receipt'[x].returned = receipt[x].returned
             /\ receipt'[x].status = "COMPLETED" <=> receipt[x].status = "COMPLETED"
             /\ receipt'[x].correction = "APPROVED" <=> receipt[x].correction = "APPROVED"
             /\ receipt'[x].status # "COMPLETED" => receipt'[x].correction = "none"
             /\ receipt'[x].status = "COMPLETED" => receipt'[x].items > 0
  <2>1. CASE x = d
    BY <1>2, <2>1
  <2>2. CASE x # d
    BY <1>2, <1>3, <2>2
  <2> QED BY <2>1, <2>2
<1> QED BY <1>2, <1>4, DebtStays

LEMMA Prepared ==
  ASSUME DebtInv, NEW r \in Receivings,
         \/ CreateReceiving(r) \/ BeginEdit(r) \/ ApproveOver(r)
         \/ RequestCorrection(r) \/ RejectCorrection(r)
         \/ \E n \in Quantities : EndEdit(r, n)
  PROVE  DebtInv'
<1>1. r \in Documents /\ receipt \in [Documents -> ReceiptRow] /\ ReceiptRight(r)
  BY DEF DebtInv, DebtTyped, Documents
<1>2. receipt[r] \in ReceiptRow
  BY <1>1
<1>3. CASE CreateReceiving(r)
  <2>1. receipt' = [receipt EXCEPT ![r] = Draft] /\ UNCHANGED money /\ receipt[r].status = "NONE"
    BY <1>3 DEF CreateReceiving
  <2>2. Draft \in ReceiptRow /\ Draft.value = 0 /\ Draft.returned = 0 /\ Draft.status = "DRAFT"
        /\ Draft.correction = "none"
    BY DEF Draft, ReceiptRow, Corrections
  <2>3. receipt[r].value = 0 /\ receipt[r].returned = 0 /\ receipt[r].correction = "none"
    BY <1>1, <2>1 DEF ReceiptRight
  <2> QED BY <1>1, <2>1, <2>2, <2>3, ReceiptPrepared
<1>4. CASE BeginEdit(r)
  BY <1>4, ReceiptStays DEF BeginEdit
<1>5. CASE ApproveOver(r)
  <2> DEFINE new == [receipt[r] EXCEPT !.over = TRUE]
  <2>1. receipt' = [receipt EXCEPT ![r] = new] /\ UNCHANGED money /\ receipt[r].status = "DRAFT"
    BY <1>5 DEF ApproveOver
  <2>2. new \in ReceiptRow /\ new.value = receipt[r].value /\ new.returned = receipt[r].returned
        /\ new.status = receipt[r].status /\ new.correction = receipt[r].correction
    BY <1>2 DEF ReceiptRow
  <2>3. receipt[r].correction = "none"
    BY <1>1, <2>1 DEF ReceiptRight
  <2> HIDE DEF new
  <2> QED BY <1>1, <2>1, <2>2, <2>3, ReceiptPrepared
<1>6. CASE RequestCorrection(r)
  <2> DEFINE new == [receipt[r] EXCEPT !.correction = "PENDING"]
  <2>1. receipt' = [receipt EXCEPT ![r] = new] /\ UNCHANGED money /\ receipt[r].status = "COMPLETED"
        /\ receipt[r].correction \in {"none", "REJECTED"}
    BY <1>6 DEF RequestCorrection
  <2>2. new \in ReceiptRow /\ new.value = receipt[r].value /\ new.returned = receipt[r].returned
        /\ new.status = receipt[r].status /\ new.correction = "PENDING" /\ new.items = receipt[r].items
    BY <1>2 DEF ReceiptRow, Corrections
  <2>3. receipt[r].items > 0
    BY <1>1, <2>1 DEF ReceiptRight
  <2> HIDE DEF new
  <2> QED BY <1>1, <2>1, <2>2, <2>3, ReceiptPrepared
<1>7. CASE RejectCorrection(r)
  <2> DEFINE new == [receipt[r] EXCEPT !.correction = "REJECTED"]
  <2>1. receipt' = [receipt EXCEPT ![r] = new] /\ UNCHANGED money /\ receipt[r].correction = "PENDING"
    BY <1>7 DEF RejectCorrection
  <2>2. new \in ReceiptRow /\ new.value = receipt[r].value /\ new.returned = receipt[r].returned
        /\ new.status = receipt[r].status /\ new.correction = "REJECTED" /\ new.items = receipt[r].items
    BY <1>2 DEF ReceiptRow, Corrections
  <2>3. receipt[r].status = "COMPLETED" /\ receipt[r].items > 0
    BY <1>1, <2>1 DEF ReceiptRight
  <2> HIDE DEF new
  <2> QED BY <1>1, <2>1, <2>2, <2>3, ReceiptPrepared
<1>8. CASE \E n \in Quantities : EndEdit(r, n)
  <2> PICK n \in Quantities : EndEdit(r, n)
    BY <1>8
  <2> DEFINE new == [receipt[r] EXCEPT !.items = n]
  <2>1. receipt' = [receipt EXCEPT ![r] = new] /\ UNCHANGED money
    BY DEF EndEdit
  <2>2. n \in Nat /\ n > 0
    BY SupplierDebtAssumption DEF Quantities
  <2>3. new \in ReceiptRow /\ new.value = receipt[r].value /\ new.returned = receipt[r].returned
        /\ new.status = receipt[r].status /\ new.correction = receipt[r].correction /\ new.items = n
    BY <1>2, <2>2 DEF ReceiptRow
  <2>4. new.status # "COMPLETED" => new.correction = "none"
    BY <1>1, <2>3 DEF ReceiptRight
  <2> HIDE DEF new
  <2> QED BY <1>1, <2>1, <2>2, <2>3, <2>4, ReceiptPrepared
<1> QED BY <1>3, <1>4, <1>5, <1>6, <1>7, <1>8

(* The row a posting leaves for itself.                                    *)
LEMMA PostingRow ==
  ASSUME DebtInv, NEW d \in Documents, NEW type \in {"PURCHASE", "RETURN"}, NEW n \in Nat,
         Unwritten(type, d), PostDebt(type, n, d), NEW other \in {"PURCHASE", "RETURN"}, other # type,
         Unwritten(other, d)
  PROVE  Unwritten(other, d)'
<1>1. d \in Documents \cup Payments \cup {"opening"} /\ type \in EntryTypes
  BY DEF EntryTypes
<1>2. LedgerRows' = LedgerRows \cup {Entry(type, n, d)}
  BY <1>1, DebtParts, RowPosted
<1>3. Entry(type, n, d).type # other
  BY DEF Entry
<1> QED BY <1>2, <1>3, UnwrittenAfter

LEMMA Purchased ==
  ASSUME DebtInv, NEW d \in Documents, NEW n \in Nat, n > 0, NEW new \in ReceiptRow,
         receipt[d].status # "COMPLETED", receipt' = [receipt EXCEPT ![d] = new],
         new.status = "COMPLETED", new.value = n, new.items = n, new.correction = "none", new.returned = 0,
         PostDebt("PURCHASE", n, d), UNCHANGED <<payment, paid>>
  PROVE  DebtInv'
<1>1. receipt \in [Documents -> ReceiptRow] /\ ReceiptRight(d)
  BY DEF DebtInv, DebtTyped
<1>2. receipt[d].value = 0 /\ receipt[d].returned = 0 /\ Unwritten("PURCHASE", d) /\ Unwritten("RETURN", d)
  BY <1>1 DEF ReceiptRight
<1>3. receipt' \in [Documents -> ReceiptRow] /\ receipt'[d] = new
      /\ \A x \in Documents \ {d} : receipt'[x] = receipt[x]
  BY <1>1
<1>4. Unwritten("RETURN", d)'
  BY <1>2, PostingRow
<1>5. ReceiptRight(d)'
  BY <1>3, <1>4 DEF ReceiptRight
<1>6. receipt'[d].value = receipt[d].value + n /\ receipt'[d].returned = receipt[d].returned
  BY <1>2, <1>3
<1> QED BY <1>2, <1>3, <1>5, <1>6, GoodsPosted

LEMMA GoodsReturned ==
  ASSUME DebtInv, NEW d \in Documents, NEW n \in Nat, n > 0, NEW new \in ReceiptRow,
         receipt[d].status = "COMPLETED", receipt[d].correction # "APPROVED",
         receipt' = [receipt EXCEPT ![d] = new],
         new.status = "COMPLETED", new.value = receipt[d].value, new.items = receipt[d].items,
         new.correction = "APPROVED", new.returned = n,
         PostDebt("RETURN", n, d), UNCHANGED <<payment, paid>>
  PROVE  DebtInv'
<1>1. receipt \in [Documents -> ReceiptRow] /\ ReceiptRight(d)
  BY DEF DebtInv, DebtTyped
<1>2. receipt[d].returned = 0 /\ Unwritten("RETURN", d) /\ receipt[d].items > 0 /\ receipt[d].value > 0
  BY <1>1 DEF ReceiptRight
<1>3. receipt' \in [Documents -> ReceiptRow] /\ receipt'[d] = new
      /\ \A x \in Documents \ {d} : receipt'[x] = receipt[x]
  BY <1>1
<1>4. ReceiptRight(d)'
  BY <1>2, <1>3 DEF ReceiptRight
<1>5. receipt'[d].value = receipt[d].value /\ receipt'[d].returned = n
  BY <1>3
<1> QED BY <1>2, <1>3, <1>4, <1>5, GoodsPosted

LEMMA CompleteStep ==
  ASSUME DebtInv, NEW r \in Receivings, Complete(r)
  PROVE  DebtInv'
<1> DEFINE n == receipt[r].items
           new == [receipt[r] EXCEPT !.status = "COMPLETED", !.value = n]
<1>1. r \in Documents /\ receipt \in [Documents -> ReceiptRow] /\ ReceiptRight(r)
  BY DEF DebtInv, DebtTyped, Documents
<1>2. receipt[r] \in ReceiptRow
  BY <1>1
<1>3. receipt[r].status = "DRAFT" /\ n > 0 /\ PostDebt("PURCHASE", n, r) /\ UNCHANGED <<payment, paid>>
  BY DEF Complete, PostReceipt
<1>4. receipt' = [receipt EXCEPT ![r] = new]
  BY <1>1 DEF Complete, PostReceipt
<1>5. new \in ReceiptRow /\ n \in Nat /\ new.status = "COMPLETED" /\ new.value = n /\ new.items = n
      /\ new.correction = receipt[r].correction /\ new.returned = receipt[r].returned
  BY <1>2 DEF ReceiptRow
<1>6. receipt[r].correction = "none" /\ receipt[r].returned = 0
  BY <1>1, <1>3 DEF ReceiptRight
<1> HIDE DEF new, n
<1> QED BY <1>1, <1>3, <1>4, <1>5, <1>6, Purchased

LEMMA CorrectionStep ==
  ASSUME DebtInv, NEW r \in Receivings, ApproveCorrection(r)
  PROVE  DebtInv'
<1> DEFINE n == receipt[r].items
           new == [receipt[r] EXCEPT !.correction = "APPROVED", !.returned = n]
<1>1. r \in Documents /\ receipt \in [Documents -> ReceiptRow] /\ ReceiptRight(r)
  BY DEF DebtInv, DebtTyped, Documents
<1>2. receipt[r] \in ReceiptRow
  BY <1>1
<1>3. receipt[r].correction = "PENDING" /\ PostDebt("RETURN", n, r) /\ UNCHANGED <<payment, paid>>
  BY DEF ApproveCorrection
<1>4. receipt' = [receipt EXCEPT ![r] = new]
  BY <1>1 DEF ApproveCorrection
<1>5. receipt[r].status = "COMPLETED" /\ n > 0
  BY <1>1, <1>3 DEF ReceiptRight
<1>6. new \in ReceiptRow /\ n \in Nat /\ new.status = "COMPLETED" /\ new.value = receipt[r].value
      /\ new.items = receipt[r].items /\ new.correction = "APPROVED" /\ new.returned = n
  BY <1>2, <1>5 DEF ReceiptRow, Corrections
<1> HIDE DEF new, n
<1> QED BY <1>1, <1>3, <1>4, <1>5, <1>6, GoodsReturned

LEMMA InvoiceStep ==
  ASSUME DebtInv, NEW v \in Invoices, NEW n \in Quantities, ReceiveInvoice(v, n)
  PROVE  DebtInv'
<1> DEFINE new == [Draft EXCEPT !.status = "COMPLETED", !.items = n, !.value = n]
<1>1. v \in Documents /\ n \in Nat /\ n > 0
  BY SupplierDebtAssumption DEF Documents, Quantities
<1>2. /\ receipt[v].status # "COMPLETED" /\ PostDebt("PURCHASE", n, v)
      /\ UNCHANGED <<payment, paid>> /\ receipt' = [receipt EXCEPT ![v] = new]
  BY DEF ReceiveInvoice
<1>3. new \in ReceiptRow /\ new.status = "COMPLETED" /\ new.value = n /\ new.items = n
      /\ new.correction = "none" /\ new.returned = 0
  BY <1>1 DEF ReceiptRow, Corrections, Draft
<1> HIDE DEF new
<1> QED BY <1>1, <1>2, <1>3, Purchased

LEMMA InvoiceReversed ==
  ASSUME DebtInv, NEW v \in Invoices, ReverseInvoice(v)
  PROVE  DebtInv'
<1> DEFINE n == receipt[v].value
           new == [receipt[v] EXCEPT !.correction = "APPROVED", !.returned = n]
<1>1. v \in Documents /\ receipt \in [Documents -> ReceiptRow] /\ ReceiptRight(v)
  BY DEF DebtInv, DebtTyped, Documents
<1>2. receipt[v] \in ReceiptRow
  BY <1>1
<1>3. receipt[v].status = "COMPLETED" /\ receipt[v].correction = "none"
      /\ PostDebt("RETURN", n, v) /\ UNCHANGED <<payment, paid>>
  BY DEF ReverseInvoice
<1>4. receipt' = [receipt EXCEPT ![v] = new]
  BY <1>1 DEF ReverseInvoice
<1>5. n > 0
  BY <1>1, <1>3 DEF ReceiptRight
<1>6. new \in ReceiptRow /\ n \in Nat /\ new.status = "COMPLETED" /\ new.value = receipt[v].value
      /\ new.items = receipt[v].items /\ new.correction = "APPROVED" /\ new.returned = n
  BY <1>2, <1>3 DEF ReceiptRow, Corrections
<1> HIDE DEF new, n
<1> QED BY <1>1, <1>3, <1>4, <1>5, <1>6, GoodsReturned

LEMMA ReceivedInt ==
  ASSUME NEW rs \in [Documents -> ReceiptRow]
  PROVE  ReceivedSum(rs) \in Int
<1> DEFINE f == KeptOf(rs)
<1>1. \A x \in Documents : f[x] \in Int
  BY DEF KeptOf, ReceiptRow
<1> HIDE DEF f
<1>2. SumFunctionOnSet(f, Documents) \in Int
  BY <1>1, SumInt, SupplierDebtAssumption
<1> QED BY <1>2 DEF ReceivedSum, f

(* The opening debt comes before any history.                              *)
LEMMA OpeningStep ==
  ASSUME DebtInv, RegisterOpening
  PROVE  DebtInv'
<1> DEFINE line == Entry("ADJUSTMENT", Legacy, "opening")
<1>1. /\ ledger = EmptyBag /\ ledger' = SetToBag({line}) /\ debt' = Legacy
      /\ \A p \in Payments : payment[p].status = "NONE"
      /\ UNCHANGED <<goods, payment, paid>>
  BY DEF RegisterOpening
<1>2. Legacy \in Nat /\ Legacy > 0
  BY SupplierDebtAssumption
<1>3. line \in LedgerRow /\ line.type = "ADJUSTMENT" /\ line.ref = "opening" /\ Signed(line) = Legacy
  BY <1>2 DEF LedgerRow, Entry, EntryTypes, Signed
<1> HIDE DEF line
<1>4. LedgerRows = {} /\ LedgerRows' = {line} /\ ledger' = [x \in {line} |-> 1]
  BY <1>1 DEF LedgerRows, BagToSet, EmptyBag, SetToBag
<1>5. IsFiniteSet({line}) /\ IsFiniteSet({})
  BY FS_Singleton, FS_EmptySet
<1>6. LedgerTyped'
  BY <1>3, <1>4, <1>5 DEF LedgerTyped
<1>7. Worth({line}) = Legacy
  <2>1. {} \subseteq LedgerRow /\ line \notin {} /\ {} \cup {line} = {line}
    OBVIOUS
  <2>2. Worth({} \cup {line}) = Worth({}) + Signed(line)
    BY <1>3, <1>5, <2>1, WorthAdds
  <2> QED BY <1>2, <1>3, <2>1, <2>2, WorthNothing
<1>8. LedgerBalance' = Legacy /\ LedgerBalance = 0
  BY <1>4, <1>6, <1>7, BalanceIsWorth, WorthNothing, DebtParts
<1>9. Opening = 0 /\ Opening' = Legacy
  <2>1. OpeningRows = {} /\ OpeningRows' = {line}
    BY <1>3, <1>4 DEF OpeningRows
  <2> QED BY <1>7, <2>1, PrincipalIs, WorthNothing
<1>10. receipt' = receipt
  BY <1>1 DEF goods
<1>11. DebtTyped'
  BY <1>1, <1>2, <1>6, <1>10, DebtParts DEF DebtTyped
<1>12. \A type, ref : ref # "opening" => Unwritten(type, ref)'
  BY <1>3, <1>4 DEF Unwritten
<1>13. \A d \in Documents : ReceiptRight(d)'
  <2> SUFFICES ASSUME NEW d \in Documents PROVE ReceiptRight(d)'
    OBVIOUS
  <2>1. d # "opening"
    BY SupplierDebtAssumption
  <2>2. Unwritten("PURCHASE", d)' /\ Unwritten("RETURN", d)' /\ ReceiptRight(d)
    BY <1>12, <2>1 DEF DebtInv
  <2> QED BY <1>10, <2>2 DEF ReceiptRight
<1>14. \A p \in Payments : PaymentRight(p)'
  <2> SUFFICES ASSUME NEW p \in Payments PROVE PaymentRight(p)'
    OBVIOUS
  <2>1. p # "opening"
    BY SupplierDebtAssumption
  <2>2. Unwritten("PAYMENT", p)' /\ Unwritten("PAYMENT_REVERSAL", p)'
    BY <1>12, <2>1
  <2> QED BY <2>2 DEF PaymentRight
<1>15. PaidSum(payment) = 0 /\ \A t : PaidOn(payment, t) = 0
  BY <1>1, NoneStanding
<1>16. DebtIsItsDocuments'
  <2>1. LedgerBalance = ReceivedSum(receipt) + Opening - PaidSum(payment) /\ paid = Refreshed(payment)
    BY DebtParts
  <2>2. ReceivedSum(receipt) \in Int
    BY DebtParts, ReceivedInt
  <2>3. LedgerBalance' = ReceivedSum(receipt') + Opening' - PaidSum(payment')
    <3>1. ReceivedSum(receipt) = 0
      BY <1>8, <1>9, <1>15, <2>1, <2>2
    <3>2. ReceivedSum(receipt') = 0 /\ PaidSum(payment') = 0
      BY <1>1, <1>10, <1>15, <3>1
    <3> QED BY <1>2, <1>8, <1>9, <3>2
  <2>4. debt' - LedgerBalance' \in (IF Opening' > 0 THEN {0} ELSE {0, Legacy})
    BY <1>1, <1>2, <1>8, <1>9
  <2>5. paid' = Refreshed(payment')
    BY <1>1, <2>1
  <2> QED BY <2>3, <2>4, <2>5, AccountsAfter
<1>17. \A t \in Targets : NotOverpaid(t)'
  <2> SUFFICES ASSUME NEW t \in Targets PROVE CanonicalPaid(t)' <= Principal(t)'
    BY DEF NotOverpaid
  <2>1. CanonicalPaid(t)' = 0
    BY <1>1, <1>15, PaidOnAfter
  <2>2. Principal(t)' >= 0
    <3>1. CASE t = "opening"
      BY <1>2, <1>9, <3>1, PrincipalIs
    <3>2. CASE t # "opening"
      <4>1. PrincipalRows(t)' = {}
        BY <1>3, <1>4 DEF PrincipalRows
      <4>2. Principal(t)' = AtLeastZero(0)
        BY <3>2, <4>1, PrincipalIs, WorthNothing
      <4> QED BY <4>2 DEF AtLeastZero
    <3> QED BY <3>1, <3>2
  <2> QED BY <2>1, <2>2
<1>18. (NothingReturned(Documents) => debt >= 0)'
  BY <1>1, <1>2
<1> QED BY <1>11, <1>13, <1>14, <1>16, <1>17, <1>18 DEF DebtInv

(* A payment takes no more than is left on each target, nor than is owed.  *)
LEMMA PaymentPosted ==
  ASSUME DebtInv, NEW p \in Payments, NEW type \in {"PAYMENT", "PAYMENT_REVERSAL"}, NEW n \in Nat,
         Unwritten(type, p), PostDebt(type, n, p), UNCHANGED receipt,
         payment' \in [Payments -> PaymentRow], \A q \in Payments \ {p} : payment'[q] = payment[q],
         paid' = Refreshed(payment'),
         payment'[p].status = IF type = "PAYMENT" THEN "POSTED" ELSE "REVERSED",
         type = "PAYMENT" => n <= debt /\ Unwritten("PAYMENT_REVERSAL", p),
         PaidSum(payment') = PaidSum(payment) + (IF type = "PAYMENT" THEN n ELSE - n),
         PaidSum(payment) \in Int,
         \A t \in Targets : NothingReturned(DocumentsOf(t)) => PaidOn(payment', t) <= Principal(t)
  PROVE  DebtInv'
<1> DEFINE line == Entry(type, n, p)
<1>1. line.type = type /\ line.ref = p /\ line.amount = n
      /\ Signed(line) = IF type = "PAYMENT" THEN - n ELSE n
  BY DEF Entry, Signed
<1>2. p # "opening" /\ p \in Documents \cup Payments \cup {"opening"} /\ type \in EntryTypes
  BY SupplierDebtAssumption DEF EntryTypes
<1>3. LedgerTyped /\ debt \in Int
  BY DebtParts
<1>4. /\ LedgerRows' = LedgerRows \cup {line} /\ line \notin LedgerRows /\ line \in LedgerRow
      /\ LedgerTyped'
      /\ LedgerBalance' = LedgerBalance + Signed(line)
      /\ LedgerBalance \in Int /\ Signed(line) \in Int /\ debt' \in Int
      /\ debt' = debt + Signed(line)
      /\ debt' - LedgerBalance' = debt - LedgerBalance
  BY <1>2, <1>3, RowPosted
<1> HIDE DEF line
<1>5. /\ Opening' = Opening /\ Opening \in Int
      /\ \A t \in Targets :
           /\ Principal(t) \in Int
           /\ ~(line.type \in {"PURCHASE", "RETURN"} /\ line.ref \in DocumentsOf(t))
                => Principal(t)' = Principal(t)
           /\ line.type = "PURCHASE" => Principal(t)' >= Principal(t) /\ Principal(t)' \in Int
  BY <1>1, <1>2, <1>3, <1>4, PrincipalPosted
<1>6. DebtTyped'
  BY <1>4, DebtParts DEF DebtTyped
<1>7. \A d \in Documents : ReceiptRight(d)'
  <2> SUFFICES ASSUME NEW d \in Documents PROVE ReceiptRight(d)'
    OBVIOUS
  <2>1. /\ Unwritten("PURCHASE", d)' <=> Unwritten("PURCHASE", d)
        /\ Unwritten("RETURN", d)' <=> Unwritten("RETURN", d)
    BY <1>1, <1>4, UnwrittenAfter
  <2>2. ReceiptRight(d)
    BY DEF DebtInv
  <2> QED BY <2>1, <2>2 DEF ReceiptRight
<1>8. \A q \in Payments : PaymentRight(q)'
  <2>1. ASSUME NEW q \in Payments, q # p PROVE PaymentRight(q)'
    <3>1. \A k : Unwritten(k, q)' <=> Unwritten(k, q)
      BY <1>1, <1>4, <2>1, UnwrittenAfter
    <3>2. PaymentRight(q) /\ payment'[q] = payment[q]
      BY <2>1 DEF DebtInv
    <3> QED BY <3>1, <3>2 DEF PaymentRight
  <2>2. PaymentRight(p)'
    <3>1. type = "PAYMENT" => Unwritten("PAYMENT_REVERSAL", p)'
      BY <1>1, <1>4, UnwrittenAfter
    <3> QED BY <3>1 DEF PaymentRight
  <2> QED BY <2>1, <2>2
<1>9. DebtIsItsDocuments'
  <2>1. LedgerBalance = ReceivedSum(receipt) + Opening - PaidSum(payment)
        /\ debt - LedgerBalance \in (IF Opening > 0 THEN {0} ELSE {0, Legacy})
    BY DebtParts
  <2>2. ReceivedSum(receipt) \in Int /\ ReceivedSum(receipt') = ReceivedSum(receipt)
    BY DebtParts, ReceivedInt
  <2>3. LedgerBalance' = ReceivedSum(receipt') + Opening' - PaidSum(payment')
    BY <1>1, <1>4, <1>5, <2>1, <2>2
  <2>4. debt' - LedgerBalance' \in (IF Opening' > 0 THEN {0} ELSE {0, Legacy})
    BY <1>4, <1>5, <2>1
  <2> QED BY <2>3, <2>4, AccountsAfter
<1>10. \A D : NothingReturned(D)' <=> NothingReturned(D)
  BY DEF NothingReturned
<1>11. \A t \in Targets : NotOverpaid(t)'
  <2> SUFFICES ASSUME NEW t \in Targets, NothingReturned(DocumentsOf(t))'
               PROVE  CanonicalPaid(t)' <= Principal(t)'
    BY DEF NotOverpaid
  <2>1. NothingReturned(DocumentsOf(t))
    BY <1>10, WhoseDocuments DEF NothingReturned
  <2>2. Principal(t)' = Principal(t)
    BY <1>1, <1>5
  <2>3. CanonicalPaid(t)' = PaidOn(payment', t)
    BY PaidOnAfter
  <2> QED BY <2>1, <2>2, <2>3
<1>12. (NothingReturned(Documents) => debt >= 0)'
  <2> SUFFICES ASSUME NothingReturned(Documents)' PROVE debt' >= 0
    OBVIOUS
  <2>1. NothingReturned(Documents)
    BY <1>10
  <2>2. debt >= 0
    BY <2>1 DEF DebtInv
  <2> QED BY <1>1, <1>3, <1>4, <2>2
<1> QED BY <1>6, <1>7, <1>8, <1>9, <1>11, <1>12 DEF DebtInv

LEMMA PrincipalInt ==
  ASSUME LedgerTyped, NEW t
  PROVE  Principal(t) \in Int
<1>1. /\ Worth(OpeningRows) \in Int /\ Worth(PrincipalRows(t)) \in Int
  BY PartsTyped DEF OpeningRows, PrincipalRows
<1> QED BY <1>1, PrincipalIs DEF AtLeastZero

LEMMA PayStep ==
  ASSUME DebtInv, NEW p \in Payments, NEW k \in Kinds, NEW on \in [Targets -> Nat], Pay(p, k, on)
  PROVE  DebtInv'
<1> DEFINE n == Principals(on)
<1>1. /\ payment[p].status = "NONE" /\ n <= debt /\ PostDebt("PAYMENT", n, p)
      /\ \A t \in Targets : on[t] > 0 => on[t] <= Remaining(t)
      /\ payment' = [payment EXCEPT ![p] = Posting(k, on)] /\ paid' = Refreshed(payment')
      /\ UNCHANGED receipt
  BY DEF Pay, CanTake, goods
<1>2. n \in Nat
  BY PrincipalsTyped
<1>3. Posting(k, on) \in PaymentRow /\ Posting(k, on).status = "POSTED" /\ Posting(k, on).on = on
  BY DEF Posting, PaymentRow
<1>4. payment \in [Payments -> PaymentRow] /\ LedgerTyped
  BY DebtParts
<1>5. /\ payment' \in [Payments -> PaymentRow]
      /\ payment'[p].status = "POSTED" /\ payment'[p].on = on
      /\ \A q \in Payments \ {p} : payment'[q] = payment[q]
  BY <1>1, <1>3, <1>4
<1>6. PaidSum(payment') = PaidSum(payment) + n /\ PaidSum(payment) \in Int
      /\ \A t \in Targets : PaidOn(payment', t) = PaidOn(payment, t) + on[t] /\ PaidOn(payment, t) \in Int
  <2>1. /\ PaidSum(payment') = PaidSum(payment) + Principals(payment'[p].on) /\ PaidSum(payment) \in Int
        /\ \A t \in Targets : PaidOn(payment', t) = PaidOn(payment, t) + payment'[p].on[t]
                              /\ PaidOn(payment, t) \in Int
    BY <1>1, <1>4, <1>5, StandingJoined
  <2> QED BY <1>5, <2>1
<1>7. Unwritten("PAYMENT", p) /\ Unwritten("PAYMENT_REVERSAL", p)
  BY <1>1 DEF DebtInv, PaymentRight
<1>8. ASSUME NEW t \in Targets, NothingReturned(DocumentsOf(t))
      PROVE  PaidOn(payment', t) <= Principal(t)
  <2>1. CanonicalPaid(t) = PaidOn(payment, t) /\ CanonicalPaid(t) <= Principal(t)
    BY <1>8, PaidOnAfter DEF DebtInv, NotOverpaid
  <2>2. Principal(t) \in Int /\ on[t] \in Nat
    BY <1>4, PrincipalInt
  <2>3. CASE on[t] = 0
    BY <1>6, <2>1, <2>2, <2>3
  <2>4. CASE on[t] > 0
    <3>1. on[t] <= AtLeastZero(Principal(t) - PaidOn(payment, t))
      BY <1>1, <2>1, <2>4 DEF Remaining
    <3>2. on[t] <= Principal(t) - PaidOn(payment, t)
      BY <1>6, <2>2, <2>4, <3>1 DEF AtLeastZero
    <3> QED BY <1>6, <2>2, <3>2
  <2> QED BY <2>2, <2>3, <2>4
<1> HIDE DEF n
<1> QED BY <1>1, <1>2, <1>5, <1>6, <1>7, <1>8, PaymentPosted

LEMMA ReverseStep ==
  ASSUME DebtInv, NEW p \in Payments, ReversePayment(p)
  PROVE  DebtInv'
<1> DEFINE n == Principals(payment[p].on)
           now == [payment[p] EXCEPT !.status = "REVERSED"]
<1>1. /\ payment[p].status = "POSTED" /\ PostDebt("PAYMENT_REVERSAL", n, p)
      /\ payment' = [payment EXCEPT ![p] = now] /\ paid' = Refreshed(payment')
      /\ UNCHANGED receipt
  BY DEF ReversePayment, goods
<1>2. payment \in [Payments -> PaymentRow]
  BY DebtParts
<1>3. now \in PaymentRow /\ now.status = "REVERSED"
  <2>1. payment[p] \in [status : {"POSTED", "REVERSED"}, source : Kinds, on : [Targets -> Nat]]
    BY <1>1, <1>2, PaymentFields
  <2> QED BY <2>1 DEF PaymentRow
<1> HIDE DEF now
<1>4. /\ payment' \in [Payments -> PaymentRow] /\ payment'[p].status = "REVERSED"
      /\ \A q \in Payments \ {p} : payment'[q] = payment[q]
  BY <1>1, <1>2, <1>3
<1>5. /\ PaidSum(payment') = PaidSum(payment) - n /\ PaidSum(payment) \in Int /\ n \in Nat
      /\ \A t \in Targets : /\ PaidOn(payment', t) = PaidOn(payment, t) - payment[p].on[t]
                            /\ PaidOn(payment, t) \in Int /\ payment[p].on[t] \in Nat
  <2>1. payment \in [Payments -> PaymentRow] /\ payment' \in [Payments -> PaymentRow]
        /\ payment[p].status = "POSTED" /\ payment'[p].status = "REVERSED"
        /\ \A q \in Payments \ {p} : payment'[q] = payment[q]
    BY <1>1, <1>2, <1>4
  <2> QED BY Zenon, <2>1, StandingLeft
<1>6. Unwritten("PAYMENT_REVERSAL", p)
  BY <1>1 DEF DebtInv, PaymentRight
<1>7. ASSUME NEW t \in Targets, NothingReturned(DocumentsOf(t))
      PROVE  PaidOn(payment', t) <= Principal(t)
  <2>1. PaidOn(payment, t) <= Principal(t)
    BY <1>7, PaidOnAfter DEF DebtInv, NotOverpaid
  <2>2. Principal(t) \in Int
    BY DebtParts, PrincipalInt
  <2> QED BY <1>5, <2>1, <2>2
<1> HIDE DEF n
<1>8. PaidSum(payment') = PaidSum(payment) + (- n)
  BY <1>5
<1> QED BY <1>1, <1>4, <1>5, <1>6, <1>7, <1>8, PaymentPosted

LEMMA DebtInitial == OfficeInit => DebtInv
<1> SUFFICES ASSUME OfficeInit PROVE DebtInv
  OBVIOUS
<1> DEFINE none == [Draft EXCEPT !.status = "NONE"]
<1>1. /\ receipt = [d \in Documents |-> none] /\ payment = [p \in Payments |-> [status |-> "NONE"]]
      /\ paid = [t \in Payable |-> 0] /\ debt \in {0, Legacy} /\ ledger = EmptyBag
  BY DEF OfficeInit, SupplierInit
<1>2. none \in ReceiptRow /\ none.value = 0 /\ none.returned = 0 /\ none.status = "NONE"
      /\ none.correction = "none"
  BY DEF Draft, ReceiptRow, Corrections
<1>3. Legacy \in Nat
  BY SupplierDebtAssumption
<1> HIDE DEF none
<1>4. LedgerRows = {} /\ ledger = [x \in {} |-> 1]
  BY <1>1 DEF LedgerRows, BagToSet, EmptyBag, SetToBag
<1>5. DebtTyped
  BY <1>1, <1>2, <1>3, <1>4, FS_EmptySet DEF DebtTyped, LedgerTyped, PaymentRow
<1>6. \A type, ref : Unwritten(type, ref)
  BY <1>4 DEF Unwritten
<1>7. (\A d \in Documents : ReceiptRight(d)) /\ \A p \in Payments : PaymentRight(p)
  BY <1>1, <1>2, <1>6 DEF ReceiptRight, PaymentRight
<1>8. PaidSum(payment) = 0 /\ \A t : PaidOn(payment, t) = 0
  BY <1>1, NoneStanding
<1>9. ReceivedSum(receipt) = 0
  BY <1>1, <1>2, KeptNothing
<1>10. LedgerBalance = 0 /\ Opening = 0
  <2>1. OpeningRows = {}
    BY <1>4 DEF OpeningRows
  <2> QED BY <1>4, <1>5, <2>1, BalanceIsWorth, PrincipalIs, WorthNothing DEF DebtTyped
<1>11. DebtIsItsDocuments
  <2>1. paid = Refreshed(payment)
    BY <1>1, <1>8 DEF Refreshed
  <2>2. debt - LedgerBalance \in (IF Opening > 0 THEN {0} ELSE {0, Legacy})
    BY <1>1, <1>3, <1>10
  <2> QED BY <1>8, <1>9, <1>10, <2>1, <2>2, AccountsAre
<1>12. \A t \in Targets : NotOverpaid(t)
  <2> SUFFICES ASSUME NEW t \in Targets PROVE CanonicalPaid(t) <= Principal(t)
    BY DEF NotOverpaid
  <2>1. CanonicalPaid(t) = 0
    BY <1>8, PaidOnAfter
  <2>2. Principal(t) = 0
    <3>1. PrincipalRows(t) = {}
      BY <1>4 DEF PrincipalRows
    <3> QED BY <1>10, <3>1, PrincipalIs, WorthNothing DEF AtLeastZero
  <2> QED BY <2>1, <2>2
<1>13. debt >= 0
  BY <1>1, <1>3
<1> QED BY <1>5, <1>7, <1>11, <1>12, <1>13 DEF DebtInv

LEMMA DebtStep == DebtInv /\ [OfficeNext]_office => DebtInv'
<1> SUFFICES ASSUME DebtInv, [OfficeNext]_office PROVE DebtInv'
  OBVIOUS
<1>1. CASE UNCHANGED supplier
  BY <1>1, ReceiptStays DEF supplier, goods
<1>2. CASE SupplierNext
  <2>1. CASE OrderRequests
    BY <2>1, ReceiptStays DEF OrderRequests, CreateOrder, EndChange, BeginChange
  <2>2. CASE ReceivingRequests
    BY <2>2, Prepared, CompleteStep DEF ReceivingRequests
  <2>3. CASE CorrectionRequests
    BY <2>3, Prepared, CorrectionStep DEF CorrectionRequests
  <2>4. CASE InvoiceRequests
    BY <2>4, InvoiceReversed, InvoiceStep DEF InvoiceRequests
  <2>5. CASE RegisterOpening
    BY <2>5, OpeningStep
  <2>6. CASE Consume
    BY <2>6, ReceiptStays DEF Consume
  <2>7. CASE PaymentRequests
    <3>1. ASSUME NEW p \in Payments, ReversePayment(p) PROVE DebtInv'
      BY <3>1, ReverseStep
    <3>2. ASSUME NEW p \in Payments, NEW k \in Kinds, NEW on \in [Targets -> 0..Most], Pay(p, k, on)
          PROVE  DebtInv'
      <4>1. on \in [Targets -> Nat]
        BY <3>2
      <4> QED BY <3>2, <4>1, PayStep
    <3> QED BY <2>7, <3>1, <3>2 DEF PaymentRequests
  <2> QED BY <1>2, <2>1, <2>2, <2>3, <2>4, <2>5, <2>6, <2>7 DEF SupplierNext
<1>3. CASE MoneyComes
  BY <1>1, <1>3 DEF MoneyComes
<1> QED BY <1>1, <1>2, <1>3 DEF OfficeNext, office

(* The supplier's accounts hold over any interleaving of deliveries,       *)
(* corrections, invoices, payments and reversals: the debt is its          *)
(* documents, and only goods returned after they were paid make a credit   *)
(* (supplier_debt_service, receiving_service).                             *)
THEOREM SupplierAccountsHold == OfficeSpec => []SupplierAccounts
<1>1. DebtInv => SupplierAccounts
  <2> SUFFICES ASSUME DebtInv PROVE SupplierAccounts
    OBVIOUS
  <2>1. \A d \in Documents : receipt[d].returned \in Nat
    BY DebtParts DEF ReceiptRow
  <2>2. ASSUME NEW t \in Targets, CanonicalPaid(t) > Principal(t)
        PROVE  \E d \in DocumentsOf(t) : receipt[d].returned > 0
    <3>1. CanonicalPaid(t) \in Int /\ Principal(t) \in Int
      BY DebtParts, PaidOnNat, PaidOnAfter, PrincipalInt
    <3>2. ~ NothingReturned(DocumentsOf(t))
      BY <2>2, <3>1 DEF DebtInv, NotOverpaid
    <3>3. DocumentsOf(t) \subseteq Documents
      BY WhoseDocuments
    <3> QED BY <2>1, <3>2, <3>3 DEF NothingReturned
  <2>3. ASSUME debt < 0 PROVE \E d \in Documents : receipt[d].returned > 0
    <3>1. ~ NothingReturned(Documents)
      BY <2>3, DebtParts DEF DebtInv
    <3> QED BY <2>1, <3>1 DEF NothingReturned
  <2>4. DebtIsItsDocuments
    BY DEF DebtInv
  <2> QED BY <2>2, <2>3, <2>4 DEF SupplierAccounts
<1> QED BY <1>1, DebtInitial, DebtStep, PTL DEF OfficeSpec
=============================================================================
