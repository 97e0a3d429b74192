---------------------------- MODULE MCSyncOutbox ----------------------------
(* A parent and its child, pushed by the sync worker; or the parent alone, *)
(* pushed by the worker and, once its lease has expired, by a second push; *)
(* or the users of the terminal and an order of theirs.  A behaviour       *)
(* exercises either the rows or the users.                                 *)
EXTENDS SyncOutbox, Identities, TLC

CONSTANTS r1, r2, p1, p2

ParentAndChild == [r \in {r1, r2} |-> r1]

VARIABLES
  part,
  expired  \* whether the lease of the worker has expired under it

(* Bounds: the second push runs once, while the first is under way, meets  *)
(* one row and two local writes, and takes the place of a lost answer.     *)
Overtaken == sess[p2].phase # "idle"
OneRow == ~local[r2].here /\ slot[r2].gen = 0 /\ hub[r2].ver = 0 /\ hubOps = 0
Expires == expired' = (expired \/ Overtaken')
Bounded ==
  /\ expired' => (OneRow /\ losses = 0 /\ ops <= 2)'
  /\ Overtaken' => Overtaken \/ (~expired /\ sess[p1].phase # "idle")

(* Bounds: the hub may have had a user before, of the first e-mail.        *)
MCInit ==
  /\ Init /\ IdentityInit /\ part \in {"rows", "users"} /\ expired = FALSE
  /\ hubUser[1].email # "e2"
  /\ part = "rows" => hubUser[1] = NoUser /\ protocol = 2

MCNext ==
  \/ part = "rows" /\ Next /\ Expires /\ Bounded /\ UNCHANGED <<identityVars, part>>
  \/ part = "users" /\ IdentityNext /\ UNCHANGED <<vars, part, expired>>

MCSpec == MCInit /\ [][MCNext]_<<vars, identityVars, part, expired>>

(* The sync worker's loop pushes and pulls for ever, the second push runs  *)
(* to its end, and the hub handles the requests it receives.               *)
OfRows(A) == part = "rows" /\ A
OfUsers(A) == part = "users" /\ A

MCFairSpec ==
  /\ MCSpec
  /\ WF_vars(OfRows(PushStep(p1))) /\ WF_vars(OfRows(Overtaken /\ PushStep(p2)))
  /\ WF_vars(OfRows(HubStep)) /\ WF_vars(OfRows(PullStep))
  /\ WF_identityVars(OfUsers(PushIdentity)) /\ WF_identityVars(OfUsers(PullUser))
=============================================================================
