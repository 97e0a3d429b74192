----------------------------- MODULE SyncOutbox -----------------------------
(***************************************************************************)
(* One terminal's branch-owned rows, its durable outbound queue, the hub,  *)
(* and the two processes that move rows between them.                      *)
(*                                                                         *)
(* A local write stores the row and its queue slot in one transaction.  A  *)
(* push sends the queued payloads, parents first, forgets the slots the    *)
(* hub acknowledged and stamps the rows; a pull applies what the hub       *)
(* publishes.  The lease that keeps pushes apart is not assumed, so that   *)
(* several may run, and a request the terminal stopped waiting for may     *)
(* still be at work on the hub.                                            *)
(*                                                                         *)
(* A payload is reduced to its version, its deletion mark and the last     *)
(* local edit it contains, which stands for the fields only the terminal   *)
(* may write (SYNC_WRITE_DENYLIST).  Version 0 stands for "no such row".   *)
(***************************************************************************)
EXTENDS Integers, FiniteSets

CONSTANTS
  Rows,      \* the rows (model and uuid) of the branch
  ParentOf,  \* [Rows -> Rows]: the row a foreign key points to, or the row itself
  Procs,     \* pushes that may run at the same time
  Known,     \* SUBSET Rows: rows both sides hold at first
  MaxOps,    \* bound: local writes and operator commands
  MaxHubOps, \* bound: writes of the hub's own
  MaxLosses  \* bound: answers the terminal stops waiting for, and crashes

ASSUME SyncOutboxAssumption ==
  /\ ParentOf \in [Rows -> Rows]
  /\ \A r \in Rows : ParentOf[ParentOf[r]] = ParentOf[r]
  /\ Known \subseteq Rows /\ \A r \in Known : ParentOf[r] \in Known
  /\ IsFiniteSet(Procs)
  /\ MaxOps \in Nat /\ MaxHubOps \in Nat /\ MaxLosses \in Nat

VARIABLES
  local,  \* local[r]: the terminal's row
  slot,   \* slot[r]: its place in the outbound queue
  hub,    \* hub[r]: the hub's row
  sess,   \* sess[p]: the push process p runs
  wire,   \* requests at work on the hub
  erased, \* rows that were hard-deleted once (history)
  skipped, \* rows whose tombstone the hub acknowledged and did not store (history)
  page,   \* page[r]: what a pull fetched of r and has not applied
  ops,    \* local writes and operator commands so far
  hubOps, \* hub writes so far
  losses  \* lost answers and crashes so far

vars == <<local, slot, hub, sess, wire, erased, skipped, page, ops, hubOps, losses>>

Payload == [ver : Nat, del : BOOLEAN, edit : 0..MaxOps]
Nothing == [ver |-> 0, del |-> FALSE, edit |-> 0]
First == [ver |-> 1, del |-> FALSE, edit |-> 0]

(* A slot holds a payload and the generation token of that content.        *)
NoSlot == [gen |-> 0, pay |-> Nothing, dead |-> FALSE]
Slot == {NoSlot} \cup [gen : Nat \ {0}, pay : {pay \in Payload : pay.ver # 0}, dead : BOOLEAN]

(* A push: the slots it took, the rows it still has to send, the batch at  *)
(* the hub, and the rows acknowledged, forgotten and left to stamp.        *)
Phase == {"idle", "group", "send", "wait", "ack", "stamp"}
Session == [phase : Phase, snap : [Rows -> Slot], todo : SUBSET Rows,
            batch : SUBSET Rows, acked : SUBSET Rows, stamp : SUBSET Rows]
IdleSession == [phase |-> "idle", snap |-> [r \in Rows |-> NoSlot], todo |-> {},
                batch |-> {}, acked |-> {}, stamp |-> {}]

Request == [by : Procs, live : BOOLEAN, pay : [Rows -> Payload], todo : SUBSET Rows,
            ack : SUBSET Rows, retry : SUBSET Rows, reject : SUBSET Rows]

NoRow == [here |-> FALSE, pay |-> Nothing, pending |-> FALSE]
LocalRow == {NoRow} \cup [here : {TRUE}, pay : {pay \in Payload : pay.ver # 0},
                          pending : BOOLEAN]

TypeOK ==
  /\ local \in [Rows -> LocalRow]
  /\ slot \in [Rows -> Slot]
  /\ hub \in [Rows -> Payload]
  /\ sess \in [Procs -> Session]
  /\ wire \subseteq Request
  /\ erased \subseteq Rows /\ skipped \subseteq Rows
  /\ page \in [Rows -> Payload]
  /\ ops \in 0..MaxOps /\ hubOps \in 0..MaxHubOps /\ losses \in 0..MaxLosses

Init ==
  /\ local = [r \in Rows |-> IF r \in Known
                 THEN [here |-> TRUE, pay |-> First, pending |-> FALSE] ELSE NoRow]
  /\ slot = [r \in Rows |-> NoSlot]
  /\ hub = [r \in Rows |-> IF r \in Known THEN First ELSE Nothing]
  /\ sess = [p \in Procs |-> IdleSession]
  /\ wire = {}
  /\ erased = {} /\ skipped = {}
  /\ page = [r \in Rows |-> Nothing]
  /\ ops = 0 /\ hubOps = 0 /\ losses = 0

Children(r) == {c \in Rows \ {r} : ParentOf[c] = r}

-----------------------------------------------------------------------------
(* The queue.                                                              *)

(* A token no slot or snapshot of the row carries.                         *)
FreshGen(r) == CHOOSE g \in 1..(Cardinality(Procs) + 2) :
                 g # slot[r].gen /\ \A p \in Procs : g # sess[p].snap[r].gen

(* SyncQueue.add: older content never replaces newer content; the same     *)
(* content keeps its token and its retry state; other content gets a new   *)
(* token and starts afresh.                                                *)
Add(r, pay) ==
  IF slot[r].gen # 0 /\ (pay.ver < slot[r].pay.ver \/ pay = slot[r].pay)
  THEN slot[r]
  ELSE [gen |-> FreshGen(r), pay |-> pay, dead |-> FALSE]

Enqueue(r, pay) == slot' = [slot EXCEPT ![r] = Add(r, pay)]

(* Mutant: a slot is forgotten by its uuid, whatever it holds by now.      *)
SameRow(p, r) == slot[r].gen # 0 /\ sess[p].snap[r].gen # 0

(* The slot is still the one the snapshot of p was taken of.               *)
SameGen(p, r) == slot[r].gen # 0 /\ slot[r].gen = sess[p].snap[r].gen

-----------------------------------------------------------------------------
(* Local writes.                                                           *)

Operates == ops < MaxOps /\ ops' = ops + 1
remote == <<hub, sess, wire, skipped, page, hubOps, losses>>

(* The row as this write leaves it: one version up, its edit a new one.    *)
Edited(r, del) == [ver |-> local[r].pay.ver + 1, del |-> del, edit |-> ops + 1]

Stored(r, pay, pending) ==
  local' = [local EXCEPT ![r] = [here |-> TRUE, pay |-> pay, pending |-> pending]]

Create(r) ==
  /\ Operates
  /\ ~local[r].here /\ slot[r].gen = 0 /\ hub[r].ver = 0
  /\ ParentOf[r] # r => local[ParentOf[r]].here
  /\ LET pay == [ver |-> 1, del |-> FALSE, edit |-> ops + 1] IN
       Stored(r, pay, TRUE) /\ Enqueue(r, pay)
  /\ UNCHANGED <<erased, remote>>

Save(r) ==
  /\ Operates
  /\ local[r].here
  /\ Stored(r, Edited(r, local[r].pay.del), TRUE)
  /\ Enqueue(r, Edited(r, local[r].pay.del))
  /\ UNCHANGED <<erased, remote>>

(* A save while sync is switched off, when neither process runs: the row   *)
(* is pending and not queued.                                              *)
SaveUnqueued(r) ==
  /\ Operates
  /\ \A p \in Procs : sess[p].phase = "idle"
  /\ \A q \in Rows : page[q].ver = 0
  /\ local[r].here
  /\ Stored(r, Edited(r, local[r].pay.del), TRUE)
  /\ UNCHANGED <<slot, erased, remote>>

SoftDelete(r) ==
  /\ Operates
  /\ local[r].here /\ ~local[r].pay.del
  /\ Stored(r, Edited(r, TRUE), TRUE)
  /\ Enqueue(r, Edited(r, TRUE))
  /\ UNCHANGED <<erased, remote>>

Tombstone(r) == [ver |-> local[r].pay.ver + 1, del |-> TRUE, edit |-> local[r].pay.edit]

(* The row goes, and its tombstone takes the slot in the same transaction. *)
HardDelete(r) ==
  /\ Operates
  /\ local[r].here
  /\ \A c \in Children(r) : ~local[c].here
  /\ local' = [local EXCEPT ![r] = NoRow]
  /\ Enqueue(r, Tombstone(r))
  /\ erased' = erased \cup {r}
  /\ UNCHANGED remote

-----------------------------------------------------------------------------
(* Operator commands on the queue.                                         *)

(* SyncQueue.clear removes what can be rebuilt.                            *)
Clear ==
  /\ Operates
  /\ \E r \in Rows : slot[r].gen # 0
  /\ slot' = [r \in Rows |-> IF slot[r].pay.del THEN slot[r] ELSE NoSlot]
  /\ UNCHANGED <<local, erased, remote>>

(* resync_dead_letters makes a dead letter eligible again.                 *)
Requeue(r) ==
  /\ Operates
  /\ slot[r].dead
  /\ slot' = [slot EXCEPT ![r].dead = FALSE]
  /\ UNCHANGED <<local, erased, remote>>

(* full_push queues every row as it is before it pushes.                   *)
QueueAll ==
  /\ Operates
  /\ slot' = [r \in Rows |-> IF local[r].here THEN Add(r, local[r].pay) ELSE slot[r]]
  /\ UNCHANGED <<local, erased, remote>>

-----------------------------------------------------------------------------
(* The push.                                                               *)

rest == <<local, erased, skipped, page, ops, hubOps>>

(* Mutant: only what is already queued is pushed.                          *)
StartPushUnreconciled(p) ==
  /\ sess[p].phase = "idle"
  /\ \E r \in Rows : slot[r].gen # 0
  /\ sess' = [sess EXCEPT ![p].phase = "group"]
  /\ UNCHANGED <<slot, hub, wire, losses, rest>>

(* Pending rows whose slot is missing or stale are queued again.           *)
StartPush(p) ==
  /\ sess[p].phase = "idle"
  /\ \E r \in Rows : local[r].pending \/ slot[r].gen # 0
  /\ slot' = [r \in Rows |-> IF local[r].here /\ local[r].pending
                               THEN Add(r, local[r].pay) ELSE slot[r]]
  /\ sess' = [sess EXCEPT ![p].phase = "group"]
  /\ UNCHANGED <<hub, wire, losses, rest>>

(* The push takes what is queued and not dead.                             *)
Group(p) ==
  /\ sess[p].phase = "group"
  /\ LET eligible == {r \in Rows : slot[r].gen # 0 /\ ~slot[r].dead} IN
       sess' = [sess EXCEPT ![p] =
         [phase |-> IF eligible = {} THEN "idle" ELSE "send",
          snap |-> [r \in Rows |-> IF r \in eligible THEN slot[r] ELSE NoSlot],
          todo |-> eligible, batch |-> {}, acked |-> {}, stamp |-> {}]]
  /\ UNCHANGED <<slot, hub, wire, losses, rest>>

(* A batch holds rows of one model; the rows of the parent model go first. *)
IsBatch(B, todo) ==
  /\ B # {}
  /\ \/ B \subseteq {r \in todo : ParentOf[r] = r}
     \/ B \subseteq todo /\ \A r \in todo : ParentOf[r] # r

Sent(p, B) == [by |-> p, live |-> TRUE, todo |-> B, ack |-> {}, retry |-> {}, reject |-> {},
               pay |-> [r \in Rows |-> IF r \in B THEN sess[p].snap[r].pay ELSE Nothing]]

Send(p) ==
  /\ sess[p].phase = "send"
  /\ \E B \in SUBSET sess[p].todo :
       /\ IsBatch(B, sess[p].todo)
       /\ wire' = wire \cup {Sent(p, B)}
       /\ sess' = [sess EXCEPT ![p].phase = "wait", ![p].batch = B, ![p].todo = @ \ B]
  /\ UNCHANGED <<slot, hub, losses, rest>>

(* All sent, or the lease was lost to another push.                        *)
StopSending(p) ==
  /\ sess[p].phase = "send"
  /\ sess[p].todo = {} \/ \E q \in Procs \ {p} : sess[q].phase # "idle"
  /\ sess' = [sess EXCEPT ![p].phase = "ack", ![p].todo = {}]
  /\ UNCHANGED <<slot, hub, wire, losses, rest>>

(* The exact generations that the hub refused are dead-lettered.           *)
DeadLettered(p, refused) ==
  [r \in Rows |-> IF r \in refused /\ SameGen(p, r) THEN [slot[r] EXCEPT !.dead = TRUE] ELSE slot[r]]

(* The hub's answer: rejected generations become dead letters, and a row   *)
(* that was not acknowledged holds back the models that depend on its own. *)
Reply(p, m) ==
  /\ m.by = p /\ m.live /\ m.todo = {}
  /\ wire' = wire \ {m}
  /\ slot' = DeadLettered(p, m.reject)
  /\ LET held == {r \in sess[p].todo : ParentOf[r] # r /\
                    \E q \in m.retry \cup m.reject : ParentOf[q] = q} IN
       sess' = [sess EXCEPT ![p].phase = "send", ![p].batch = {},
                            ![p].todo = @ \ held, ![p].acked = @ \cup m.ack]
  /\ UNCHANGED <<hub, losses, rest>>

(* The answer is lost or late, while the hub may go on with the request:   *)
(* the batch is sent again as it is, or the push stops sending.            *)
LoseAnswer(p, m) ==
  /\ m.by = p /\ m.live
  /\ losses < MaxLosses /\ losses' = losses + 1
  /\ \/ /\ wire' = (wire \ {m}) \cup {[m EXCEPT !.live = FALSE], Sent(p, sess[p].batch)}
        /\ UNCHANGED sess
     \/ /\ wire' = (wire \ {m}) \cup {[m EXCEPT !.live = FALSE]}
        /\ sess' = [sess EXCEPT ![p].phase = "ack", ![p].batch = {}, ![p].todo = {}]
  /\ UNCHANGED <<slot, hub, rest>>

(* Acknowledged generations leave the queue; newer ones stay.              *)
Acknowledge(p) ==
  /\ sess[p].phase = "ack"
  /\ LET gone == {r \in sess[p].acked : SameGen(p, r)} IN
       /\ slot' = [r \in Rows |-> IF r \in gone THEN NoSlot ELSE slot[r]]
       /\ sess' = [sess EXCEPT ![p].phase = "stamp", ![p].stamp = gone]
  /\ UNCHANGED <<hub, wire, losses, rest>>

(* The row is still the version that was sent and has no newer slot.       *)
Stamps(p, r) == /\ local[r].here
                /\ local[r].pay.ver = sess[p].snap[r].pay.ver
                /\ slot[r].gen = 0

StampRow(p, r) ==
  /\ sess[p].phase = "stamp" /\ r \in sess[p].stamp
  /\ local' = IF Stamps(p, r) THEN [local EXCEPT ![r].pending = FALSE] ELSE local
  /\ sess' = [sess EXCEPT ![p].stamp = @ \ {r}]
  /\ UNCHANGED <<slot, hub, wire, erased, skipped, page, ops, hubOps, losses>>

EndPush(p) ==
  /\ sess[p].phase = "stamp" /\ sess[p].stamp = {}
  /\ sess' = [sess EXCEPT ![p] = IdleSession]
  /\ UNCHANGED <<slot, hub, wire, losses, rest>>

(* The terminal's process dies: what is stored stays, its request goes on. *)
Crash(p) ==
  /\ sess[p].phase # "idle"
  /\ losses < MaxLosses /\ losses' = losses + 1
  /\ sess' = [sess EXCEPT ![p] = IdleSession]
  /\ wire' = {IF m.by = p THEN [m EXCEPT !.live = FALSE] ELSE m : m \in wire}
  /\ UNCHANGED <<slot, hub, rest>>

-----------------------------------------------------------------------------
(* The hub: CloudReceiver, one transaction for each record.                *)

ParentMissing(r) == ParentOf[r] # r /\ hub[ParentOf[r]].ver = 0

(* The payload wins the version conflict, and brings no deleted row back.  *)
Wins(r, pay) == pay.ver >= hub[r].ver /\ (hub[r].del => pay.del)

Answered(m, r, how) ==
  wire' = (wire \ {m}) \cup
    {[m EXCEPT !.todo = @ \ {r},
               !.ack = IF how = "ack" THEN @ \cup {r} ELSE @,
               !.retry = IF how = "retry" THEN @ \cup {r} ELSE @,
               !.reject = IF how = "reject" THEN @ \cup {r} ELSE @]}

terminal == <<local, slot, sess, erased, page, ops, hubOps, losses>>

(* The record is created or replaces the hub's, and is acknowledged.       *)
Store(m, r) ==
  /\ r \in m.todo
  /\ IF hub[r].ver = 0 THEN ~ParentMissing(r)
                       ELSE Wins(r, m.pay[r]) /\ (ParentMissing(r) => m.pay[r].del)
  /\ hub' = [hub EXCEPT ![r] = m.pay[r]]
  /\ Answered(m, r, "ack")
  /\ UNCHANGED <<skipped, terminal>>

(* A tombstone of a row the hub has never seen, nor its parent.            *)
SkipTombstone(m, r) ==
  /\ r \in m.todo
  /\ hub[r].ver = 0 /\ ParentMissing(r) /\ m.pay[r].del
  /\ skipped' = skipped \cup {r}
  /\ Answered(m, r, "ack")
  /\ UNCHANGED <<hub, terminal>>

(* Mutant: a record without its parent is acknowledged and not stored.     *)
PostponeAcknowledged(m, r) ==
  /\ r \in m.todo
  /\ ParentMissing(r) /\ ~m.pay[r].del
  /\ Answered(m, r, "ack")
  /\ UNCHANGED <<hub, skipped, terminal>>

(* A live record waits for its parent.                                     *)
Postpone(m, r) ==
  /\ r \in m.todo
  /\ ParentMissing(r) /\ ~m.pay[r].del
  /\ Answered(m, r, "retry")
  /\ UNCHANGED <<hub, skipped, terminal>>

(* The record lost: it is acknowledged if the hub holds the same values,   *)
(* of which this model knows some, and rejected otherwise.                 *)
Refuse(m, r) ==
  /\ r \in m.todo
  /\ hub[r].ver # 0 /\ ~Wins(r, m.pay[r]) /\ ~(ParentMissing(r) /\ ~m.pay[r].del)
  /\ \/ Answered(m, r, "reject")
     \/ /\ m.pay[r].ver < hub[r].ver
        /\ m.pay[r].del = hub[r].del /\ m.pay[r].edit = hub[r].edit
        /\ Answered(m, r, "ack")
  /\ UNCHANGED <<hub, skipped, terminal>>

(* The request nobody waits for ends, or dies with its worker.             *)
Forget(m) ==
  /\ ~m.live
  /\ wire' = wire \ {m}
  /\ UNCHANGED <<hub, skipped, terminal>>

(* The hub's own writes, by an administrator or a command.                 *)
HubWrite(r, del) ==
  /\ hubOps < MaxHubOps /\ hubOps' = hubOps + 1
  /\ hub[r].ver # 0 /\ ~hub[r].del
  /\ hub' = [hub EXCEPT ![r] = [ver |-> @.ver + 1, del |-> del, edit |-> @.edit]]
  /\ UNCHANGED <<local, slot, sess, wire, erased, skipped, page, ops, losses>>

-----------------------------------------------------------------------------
(* The pull: one transaction for each record, SyncMixin.from_sync_dict.    *)

pushing == <<hub, sess, wire, erased, skipped, ops, hubOps, losses>>

FetchRow(r) ==
  /\ page[r].ver = 0 /\ hub[r].ver # 0
  /\ hub[r].ver # local[r].pay.ver \/ ~local[r].here
  /\ page' = [page EXCEPT ![r] = hub[r]]
  /\ UNCHANGED <<local, slot, pushing>>

Taken(r) == page[r].ver # 0 /\ page' = [page EXCEPT ![r] = Nothing]

(* The terminal has the row's parent, or the row has none.                 *)
ParentHere(r) == ParentOf[r] = r \/ local[ParentOf[r]].here

(* A row the terminal does not hold.                                       *)
ApplyNew(r) ==
  /\ Taken(r)
  /\ ~local[r].here /\ ParentHere(r)
  /\ Stored(r, page[r], FALSE)
  /\ UNCHANGED <<slot, pushing>>

(* The record is newer than the terminal's row, and no resurrection.       *)
Outranks(r) == /\ local[r].here
               /\ page[r].ver > local[r].pay.ver
               /\ local[r].pay.del => page[r].del

(* Something of the row has not reached the hub.                           *)
Unsent(r) == local[r].pending \/ slot[r].gen # 0

(* What the hub changed is merged; the terminal's own fields stay.         *)
Merged(r) == [page[r] EXCEPT !.edit = local[r].pay.edit]

ApplyNewer(r) ==
  /\ Taken(r)
  /\ Outranks(r)
  /\ page[r].del \/ ~Unsent(r)
  /\ Stored(r, Merged(r), FALSE)
  /\ UNCHANGED <<slot, pushing>>

(* Unsent local fields become a new local version on top of the hub's.     *)
Rebase(r) ==
  /\ Taken(r)
  /\ Outranks(r)
  /\ ~page[r].del /\ Unsent(r)
  /\ LET pay == [Merged(r) EXCEPT !.ver = @ + 1] IN
       Stored(r, pay, TRUE) /\ Enqueue(r, pay)
  /\ UNCHANGED pushing

(* The record is skipped, or stays deferred until the pull gives up on it. *)
SkipRow(r) ==
  /\ Taken(r)
  /\ ~Outranks(r) /\ (local[r].here \/ ~ParentHere(r))
  /\ UNCHANGED <<local, slot, pushing>>

-----------------------------------------------------------------------------
LocalWrite == \E r \in Rows : Create(r) \/ Save(r) \/ SaveUnqueued(r)
                                \/ SoftDelete(r) \/ HardDelete(r)
Operator == Clear \/ QueueAll \/ \E r \in Rows : Requeue(r)
PushStep(p) == \/ StartPush(p) \/ Group(p) \/ Send(p) \/ StopSending(p)
               \/ Acknowledge(p) \/ EndPush(p)
               \/ \E r \in Rows : StampRow(p, r)
               \/ \E m \in wire : Reply(p, m)
Failure == \E p \in Procs : Crash(p) \/ \E m \in wire : LoseAnswer(p, m)
HubStep == \E m \in wire : \/ Forget(m)
                           \/ \E r \in Rows : \/ Store(m, r) \/ SkipTombstone(m, r)
                                              \/ Postpone(m, r) \/ Refuse(m, r)
HubEdit == \E r \in Rows, del \in BOOLEAN : HubWrite(r, del)
PullStep == \E r \in Rows : FetchRow(r) \/ ApplyNew(r) \/ ApplyNewer(r)
                              \/ Rebase(r) \/ SkipRow(r)

Next == \/ LocalWrite \/ Operator \/ Failure \/ HubStep \/ HubEdit \/ PullStep
        \/ \E p \in Procs : PushStep(p)

Spec == Init /\ [][Next]_vars

(* The sync worker's loop pushes and pulls for ever, and the hub handles   *)
(* the requests it receives.                                               *)
FairSpec == Spec /\ \A p \in Procs : WF_vars(PushStep(p))
                 /\ WF_vars(HubStep) /\ WF_vars(PullStep)
-----------------------------------------------------------------------------
(* Properties.                                                             *)

(* No local edit is lost: a live row that the terminal stamped as synced   *)
(* is at the hub, with every edit of the terminal, whatever the queue      *)
(* holds.  (A row that was hard-deleted may be brought back by a pull and  *)
(* lose edits: models.py:935.)                                             *)
NoLostEdit == \A r \in Rows \ erased :
  (local[r].here /\ ~local[r].pay.del /\ ~local[r].pending)
    => hub[r].ver >= local[r].pay.ver /\ hub[r].edit >= local[r].pay.edit

(* No deletion is lost: a row the terminal no longer holds, and does not   *)
(* queue a tombstone of, is not live at the hub either.  (A tombstone that *)
(* the hub acknowledged and did not store, as it knew neither the row nor  *)
(* its parent, may be outrun by a late request with an older live copy.)   *)
NoLostDeletion == \A r \in Rows \ skipped :
  (~local[r].here /\ ~(slot[r].gen # 0 /\ slot[r].pay.del))
    => hub[r].ver = 0 \/ hub[r].del

(* When writes and losses end, the sync loop brings both sides to agree on *)
(* the version, the deletion and the content of every row, but for a dead  *)
(* letter, which waits for an operator, and for a row that was             *)
(* hard-deleted, which an older live copy may bring back (models.py:935).  *)
Agree(r) == /\ slot[r].gen = 0 /\ ~local[r].pending
            /\ hub[r].ver = local[r].pay.ver /\ hub[r].del = local[r].pay.del
            /\ hub[r].del \/ hub[r].edit = local[r].pay.edit
Converges == <>[](\A r \in Rows \ erased : Agree(r) \/ slot[r].dead)
=============================================================================
