----------------------------- MODULE Identities -----------------------------
(* One person at two places: the hub's user and the user a terminal has    *)
(* made for itself before it heard of the hub's.  A push of the terminal's *)
(* user finds the hub's by e-mail, the hub remembers the old UUID, and the *)
(* terminal re-keys its row; a pull may do the same first.  Meanwhile an   *)
(* order of that user waits, for it names its seller by UUID.              *)
EXTENDS Naturals, Sequences

CONSTANTS
  Ids,          \* UUIDs of users
  Emails,
  MaxWrites,    \* writes of users, at the hub and at the terminal
  MaxLost       \* answers that are lost

ASSUME IdentityAssumption == 1 \in Ids /\ Ids \subseteq Nat \ {0} /\ "none" \notin Emails

NoId == 0
NoEmail == "none"

VARIABLES
  hubUser,      \* [Ids -> [email, del]]: the hub's rows
  feed,         \* Seq(Ids): the hub's rows the terminal has yet to pull, oldest first
  alias,        \* [Ids -> Ids or NoId]: UUIDs the hub remembers for this terminal
  here,         \* [Ids -> [uuid, email, del]]: the terminal's rows by primary key
  userSlot,     \* [Ids -> none, queued or dead]: the queue's slots of the model user, by UUID
  payload,      \* [Ids -> Emails or NoEmail]: the e-mail the last payload of a UUID carried
  order,        \* [by, named, at]: the seller's key, the UUID queued, the UUID at the hub
  session,      \* the push under way
  protocol,     \* the protocol of the terminal: 2 reads canonical UUIDs
  writes, lost

hubside == <<hubUser, feed, alias>>
queue == <<userSlot, payload>>
bounds == <<protocol, writes, lost>>
identityVars == <<hubUser, feed, alias, here, userSlot, payload, order, session, protocol, writes, lost>>

NoUserHere == [uuid |-> NoId, email |-> NoEmail, del |-> FALSE]
NoUser == [email |-> NoEmail, del |-> FALSE]
Idle == [phase |-> "idle", todo |-> {}, changed |-> {}, user |-> NoId, canonical |-> NoId,
         how |-> "none", aliased |-> FALSE]

IdentityInit ==
  /\ \E h \in {NoUser} \cup [email : Emails, del : BOOLEAN] :
       /\ hubUser = [u \in Ids |-> IF u = 1 THEN h ELSE NoUser]
       /\ feed = IF h = NoUser THEN <<>> ELSE <<1>>
  /\ alias = [u \in Ids |-> NoId]
  /\ here = [k \in Ids |-> NoUserHere]
  /\ userSlot = [u \in Ids |-> "none"] /\ payload = [u \in Ids |-> NoEmail]
  /\ order = [by |-> NoId, named |-> NoId, at |-> NoId]
  /\ session = Idle
  /\ protocol \in {1, 2} /\ writes = 0 /\ lost = 0

-----------------------------------------------------------------------------
(* Rows and their keys.                                                    *)
AtHub(u) == hubUser[u].email # NoEmail
KeysOf(u) == {k \in Ids : here[k].uuid = u}
KnownHere(u) == KeysOf(u) # {}
Unused == {u \in Ids : ~AtHub(u) /\ ~KnownHere(u) /\ payload[u] = NoEmail}
Fresh(u) == u \in Unused /\ \A v \in Unused : u <= v
FreeKey(k) == here[k] = NoUserHere /\ \A l \in Ids : here[l] = NoUserHere => k <= l

(* uniq_user_email_active, on either side.                                 *)
LiveAtHub(e) == {u \in Ids : hubUser[u].email = e /\ ~hubUser[u].del}
LiveHere(e) == {k \in Ids : here[k].email = e /\ here[k].uuid # NoId /\ ~here[k].del}

Writes == writes < MaxWrites /\ writes' = writes + 1 /\ UNCHANGED <<protocol, lost>>

Others(u) == SelectSeq(feed, LAMBDA v : v # u)
HubSaves(u, row) ==
  /\ hubUser' = [hubUser EXCEPT ![u] = row] /\ feed' = Append(Others(u), u)

(* The owner's writes at the hub.                                          *)
HubCreates(u, e) ==
  /\ Writes /\ Fresh(u) /\ LiveAtHub(e) = {}
  /\ HubSaves(u, [email |-> e, del |-> FALSE])
  /\ UNCHANGED <<alias, here, queue, order, session>>

HubDeletes(u) ==
  /\ Writes /\ AtHub(u) /\ ~hubUser[u].del
  /\ HubSaves(u, [hubUser[u] EXCEPT !.del = TRUE])
  /\ UNCHANGED <<alias, here, queue, order, session>>

(* The terminal's own writes; each queues the row, as another generation.  *)
Queued(u, e) ==
  /\ userSlot' = [userSlot EXCEPT ![u] = "queued"] /\ payload' = [payload EXCEPT ![u] = e]
  /\ session' = IF session.phase = "idle" THEN session ELSE [session EXCEPT !.changed = @ \cup {u}]

Bootstrap(k, u, e) ==
  /\ Writes /\ Fresh(u) /\ FreeKey(k) /\ \A l \in Ids : here[l].email # e
  /\ here' = [here EXCEPT ![k] = [uuid |-> u, email |-> e, del |-> FALSE]]
  /\ Queued(u, e)
  /\ UNCHANGED <<hubside, order>>

Edit(k) ==
  /\ Writes /\ here[k] # NoUserHere /\ ~here[k].del
  /\ Queued(here[k].uuid, here[k].email)
  /\ UNCHANGED <<hubside, here, order>>

Sell(k) ==
  /\ order.by = NoId /\ here[k] # NoUserHere /\ ~here[k].del
  /\ order' = [order EXCEPT !.by = k, !.named = here[k].uuid]
  /\ UNCHANGED <<hubside, here, queue, session, bounds>>

-----------------------------------------------------------------------------
(* A push: the users, one to a batch, and then the order.                  *)

(* The queued payload of an unsent order follows its row.                  *)
Reconciled == IF order.by # NoId /\ order.at = NoId
                THEN [order EXCEPT !.named = here[order.by].uuid] ELSE order

(* Mutant: payloads already queued are not looked at again.                *)
StartAsQueued ==
  /\ session.phase = "idle"
  /\ LET todo == {u \in Ids : userSlot[u] = "queued"} IN
     /\ todo # {} \/ (order.by # NoId /\ order.at = NoId)
     /\ session' = [Idle EXCEPT !.phase = "users", !.todo = todo]
  /\ UNCHANGED <<hubside, here, queue, order, bounds>>

StartUserPush ==
  /\ session.phase = "idle"
  /\ LET todo == {u \in Ids : userSlot[u] = "queued"} IN
     /\ todo # {} \/ (order.by # NoId /\ order.at = NoId)
     /\ session' = [Idle EXCEPT !.phase = "users", !.todo = todo]
  /\ order' = Reconciled
  /\ UNCHANGED <<hubside, here, queue, bounds>>

Answer(u, how, canonical) ==
  session' = [session EXCEPT !.phase = "answer", !.todo = @ \ {u}, !.user = u, !.how = how,
                             !.canonical = canonical]

(* The hub looks a pushed user up by its UUID, then by its e-mail, and     *)
(* makes a user without rights when it knows neither.                      *)
Mismatch(u) ==
  /\ AtHub(u) /\ (hubUser[u].del \/ hubUser[u].email # payload[u])
  /\ Answer(u, "rejected", NoId) /\ UNCHANGED hubside

Available(u) ==
  /\ AtHub(u) /\ ~hubUser[u].del /\ hubUser[u].email = payload[u]
  /\ Answer(u, "acknowledged", u) /\ UNCHANGED hubside

Remember(u, c) == alias' = [alias EXCEPT ![u] = c]

Canonical(u) ==
  /\ ~AtHub(u)
  /\ \E c \in LiveAtHub(payload[u]) :
       /\ Remember(u, c)
       /\ Answer(u, "acknowledged", IF protocol = 2 THEN c ELSE NoId)
  /\ UNCHANGED <<hubUser, feed>>

Provision(u) ==
  /\ ~AtHub(u) /\ LiveAtHub(payload[u]) = {}
  /\ HubSaves(u, [email |-> payload[u], del |-> FALSE])
  /\ Answer(u, "acknowledged", u) /\ UNCHANGED alias

SendUser(u) ==
  /\ session.phase = "users" /\ u \in session.todo
  /\ Mismatch(u) \/ Available(u) \/ Canonical(u) \/ Provision(u)
  /\ UNCHANGED <<here, queue, order, bounds>>

(* The answer is lost: the whole push stops.                               *)
LoseUserAnswer ==
  /\ session.phase = "answer" /\ lost < MaxLost
  /\ lost' = lost + 1 /\ session' = Idle
  /\ UNCHANGED <<hubside, here, queue, order, protocol, writes>>

(* An answer concerns the payload that was sent, and no later one.         *)
Concludes(to) ==
  LET u == session.user IN
  userSlot' = IF u \in session.changed THEN userSlot ELSE [userSlot EXCEPT ![u] = to]

(* A rejected user is dead-lettered; its dependents wait for another push. *)
TakeRejection ==
  /\ session.phase = "answer" /\ session.how = "rejected"
  /\ Concludes(IF userSlot[session.user] = "queued" THEN "dead" ELSE userSlot[session.user])
  /\ session' = Idle
  /\ UNCHANGED <<hubside, here, payload, order, bounds>>

(* An answer without another UUID: the slot is done.                       *)
TakeAnswer ==
  /\ session.phase = "answer" /\ session.how = "acknowledged"
  /\ session.canonical \in {NoId, session.user}
  /\ Concludes("none")
  /\ session' = [session EXCEPT !.phase = "users"]
  /\ UNCHANGED <<hubside, here, payload, order, bounds>>

(* The terminal's rows once the user old is known to be canonical: the two *)
(* rows are merged, or the one is given the other's UUID.                  *)
Rekeyed(old, canonical) ==
  LET k == CHOOSE k \in KeysOf(old) : TRUE IN
  IF KnownHere(canonical) THEN [here EXCEPT ![k].del = TRUE]
  ELSE [here EXCEPT ![k].uuid = canonical]

MovedOrder(old, canonical) ==
  IF KnownHere(canonical) /\ order.by \in KeysOf(old)
    THEN [order EXCEPT !.by = CHOOSE k \in KeysOf(canonical) : TRUE] ELSE order

ApplyAlias ==
  /\ session.phase = "answer" /\ session.how = "acknowledged"
  /\ session.canonical \notin {NoId, session.user} /\ KnownHere(session.user)
  /\ here' = Rekeyed(session.user, session.canonical)
  /\ order' = MovedOrder(session.user, session.canonical)
  /\ Concludes("none")
  /\ session' = [session EXCEPT !.phase = "users", !.aliased = TRUE]
  /\ UNCHANGED <<hubside, payload, bounds>>

(* A pull has re-keyed the row first: the slot is done, or it is kept and  *)
(* the dependents wait until the canonical row has been pulled.            *)
AliasAlreadyApplied ==
  /\ session.phase = "answer" /\ session.how = "acknowledged"
  /\ session.canonical \notin {NoId, session.user} /\ ~KnownHere(session.user)
  /\ IF KnownHere(session.canonical)
       THEN Concludes("none") /\ session' = [session EXCEPT !.phase = "users", !.aliased = TRUE]
       ELSE session' = Idle /\ UNCHANGED userSlot
  /\ UNCHANGED <<hubside, here, payload, order, bounds>>

ByAlias(u) == {c \in {alias[u]} \ {NoId} : ~hubUser[c].del}
Resolved(u) == IF AtHub(u) THEN {u} ELSE ByAlias(u)

(* The order goes with the UUID its payload names; one the hub cannot      *)
(* resolve is deferred.                                                    *)
SendOrder ==
  /\ session.phase = "users" /\ session.todo = {}
  /\ session' = Idle
  /\ IF order.by = NoId \/ order.at # NoId THEN UNCHANGED order
     ELSE LET sent == IF session.aliased THEN here[order.by].uuid ELSE order.named IN
          order' = [order EXCEPT !.named = sent,
                                 !.at = IF Resolved(sent) = {} THEN NoId
                                        ELSE CHOOSE c \in Resolved(sent) : TRUE]
  /\ UNCHANGED <<hubside, here, queue, bounds>>

-----------------------------------------------------------------------------
(* A pull applies the rows in the order of the feed, each by its UUID, by  *)
(* its e-mail, or as a new one; one whose e-mail another live row holds is *)
(* deferred.                                                               *)
Collides(u) == ~hubUser[u].del /\ LiveHere(hubUser[u].email) \ KeysOf(u) # {}

Deferred(u) == KnownHere(u) /\ Collides(u)

NextInFeed(u) ==
  \E i \in DOMAIN feed : feed[i] = u /\ ~Deferred(u) /\ \A j \in 1..(i - 1) : Deferred(feed[j])

Retired(u) == userSlot' = [userSlot EXCEPT ![u] = "none"] /\ UNCHANGED payload

PullKnown(u) ==
  /\ KnownHere(u)
  /\ here' = [k \in Ids |-> IF k \in KeysOf(u) THEN [here[k] EXCEPT !.del = hubUser[u].del] ELSE here[k]]
  /\ Retired(u)

NaturalOwner(u) == LiveHere(hubUser[u].email)

PullNatural(u) ==
  /\ ~KnownHere(u)
  /\ \E k \in NaturalOwner(u) :
       /\ here' = [here EXCEPT ![k].uuid = u, ![k].del = hubUser[u].del]
       /\ Retired(here[k].uuid)

PullNew(u) ==
  /\ ~KnownHere(u) /\ NaturalOwner(u) = {}
  /\ \E k \in Ids : FreeKey(k) /\
       here' = [here EXCEPT ![k] = [uuid |-> u, email |-> hubUser[u].email, del |-> hubUser[u].del]]
  /\ UNCHANGED queue

PullUser ==
  \E u \in Ids :
    /\ NextInFeed(u) /\ feed' = Others(u)
    /\ PullKnown(u) \/ PullNatural(u) \/ PullNew(u)
    /\ UNCHANGED <<hubUser, alias, order, session, bounds>>

-----------------------------------------------------------------------------
PushIdentity ==
  \/ StartUserPush \/ SendOrder \/ TakeRejection \/ TakeAnswer \/ ApplyAlias \/ AliasAlreadyApplied
  \/ \E u \in Ids : SendUser(u)

IdentityNext ==
  \/ PushIdentity \/ LoseUserAnswer \/ PullUser
  \/ \E u \in Ids : \/ HubDeletes(u)
                    \/ \E e \in Emails : \/ HubCreates(u, e)
                                         \/ \E k \in Ids : Bootstrap(k, u, e)
  \/ \E k \in Ids : Edit(k) \/ Sell(k)

-----------------------------------------------------------------------------
(* Properties.                                                             *)

(* Whatever UUID the terminal gave a user, whichever of push and pull      *)
(* re-keyed the row first, whatever answer was lost, and whether the       *)
(* terminal reads the canonical UUID or relies on the alias: an order rung *)
(* up reaches the hub, and there it is its seller's; and the hub's users   *)
(* end up as the terminal's.                                               *)
IdentitiesMeet ==
  <>[](/\ order.by # NoId =>
            order.at # NoId /\ hubUser[order.at].email = here[order.by].email
       /\ \A u \in Ids : AtHub(u) /\ ~hubUser[u].del => \E k \in KeysOf(u) : ~here[k].del)

=============================================================================
