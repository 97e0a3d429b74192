-------------------------- MODULE SyncOutboxProofs --------------------------
(* No edit and no deletion of a terminal is lost, for any rows, pushes and *)
(* bounds.                                                                 *)
(*                                                                         *)
(* The invariant says that whatever exists of a row, at the terminal, in   *)
(* its queue, in the snapshots of the pushes and on the wire, are moments  *)
(* of one history: versions and edits grow together, and a version names   *)
(* one content.  So an acknowledgement of a version is one of its edits.   *)
(* A tombstone is told from what followed it by its token, which is fresh  *)
(* because there are more tokens than slots and snapshots.                 *)
(*                                                                         *)
(* Each step is first shown to be of a few kinds (what it does to the row, *)
(* to its slot, to the hub's row, to the pushes and to the requests), and  *)
(* then steps of those kinds are shown to preserve the invariant.          *)
EXTENDS SyncOutbox, FiniteSetTheorems, TLAPS

-----------------------------------------------------------------------------
(* Slots and their tokens.                                                 *)

LEMMA PayloadOfSlot ==
  ASSUME NEW s \in Slot
  PROVE  /\ s.pay \in Payload /\ s.gen \in Nat /\ s.dead \in BOOLEAN
         /\ s.gen = 0 => s = NoSlot
         /\ s.gen # 0 => s.pay.ver # 0
<1>1. Nothing \in Payload
  BY SyncOutboxAssumption DEF Nothing, Payload
<1>2. CASE s = NoSlot
  BY <1>1, <1>2 DEF NoSlot
<1>3. CASE s \in [gen : Nat \ {0}, pay : {pay \in Payload : pay.ver # 0}, dead : BOOLEAN]
  BY <1>3
<1> QED BY <1>2, <1>3 DEF Slot

LEMMA FreshToken ==
  ASSUME TypeOK, NEW r \in Rows
  PROVE  /\ FreshGen(r) \in Nat \ {0}
         /\ FreshGen(r) # slot[r].gen
         /\ \A p \in Procs : FreshGen(r) # sess[p].snap[r].gen
<1> DEFINE f == [p \in Procs |-> sess[p].snap[r].gen]
           Snapped == {f[p] : p \in Procs}
           Used == Snapped \cup {slot[r].gen}
           n == Cardinality(Procs) + 2
<1>1. IsFiniteSet(Procs) /\ Cardinality(Procs) \in Nat
  BY SyncOutboxAssumption, FS_CardinalityType
<1>2. f \in Surjection(Procs, Snapped)
  BY DEF Surjection
<1>3. IsFiniteSet(Snapped) /\ Cardinality(Snapped) <= Cardinality(Procs)
  BY <1>1, <1>2, FS_Surjection
<1>4. IsFiniteSet(Used) /\ Cardinality(Used) <= Cardinality(Snapped) + 1
  <2> HIDE DEF Snapped
  <2>1. Cardinality(Snapped) \in Nat
    BY <1>3, FS_CardinalityType
  <2>2. /\ IsFiniteSet(Snapped \cup {slot[r].gen})
        /\ Cardinality(Snapped \cup {slot[r].gen}) =
             IF slot[r].gen \in Snapped THEN Cardinality(Snapped) ELSE Cardinality(Snapped) + 1
    BY <1>3, FS_AddElement
  <2> QED BY <2>1, <2>2
<1>5. Cardinality(1..n) = n
  BY <1>1, FS_Interval
<1>6. ~(1..n \subseteq Used)
  <2> SUFFICES ASSUME 1..n \subseteq Used PROVE FALSE
    OBVIOUS
  <2> HIDE DEF Used, Snapped
  <2>1. Cardinality(1..n) <= Cardinality(Used)
    BY <1>4, FS_Subset
  <2>2. Cardinality(Used) \in Nat /\ Cardinality(Snapped) \in Nat
    BY <1>3, <1>4, FS_CardinalityType
  <2> QED BY <2>1, <2>2, <1>1, <1>3, <1>4, <1>5
<1>7. \E g \in 1..n : g # slot[r].gen /\ \A p \in Procs : g # sess[p].snap[r].gen
  BY <1>6
<1>8. /\ FreshGen(r) \in 1..n /\ FreshGen(r) # slot[r].gen
      /\ \A p \in Procs : FreshGen(r) # sess[p].snap[r].gen
  BY <1>7 DEF FreshGen
<1> QED BY <1>1, <1>8

(* A slot keeps its content, or takes the payload under a new token.       *)
LEMMA AddKeepsOrTakes ==
  ASSUME TypeOK, NEW r \in Rows, NEW pay \in Payload, pay.ver # 0
  PROVE  /\ Add(r, pay) \in Slot
         /\ \/ /\ Add(r, pay) = slot[r] /\ slot[r].gen # 0
               /\ pay.ver < slot[r].pay.ver \/ pay = slot[r].pay
            \/ /\ Add(r, pay).gen = FreshGen(r) /\ Add(r, pay).pay = pay
               /\ ~(slot[r].gen # 0 /\ pay.ver < slot[r].pay.ver)
<1>1. [gen |-> FreshGen(r), pay |-> pay, dead |-> FALSE] \in Slot
  BY FreshToken DEF Slot
<1>2. slot[r] \in Slot
  BY DEF TypeOK
<1> QED BY <1>1, <1>2 DEF Add

-----------------------------------------------------------------------------
(* Types.                                                                  *)

LEMMA RowTyped ==
  ASSUME TypeOK, NEW r \in Rows
  PROVE  /\ local[r] \in LocalRow /\ slot[r] \in Slot /\ hub[r] \in Payload /\ page[r] \in Payload
         /\ local[r].pay \in Payload /\ slot[r].pay \in Payload
         /\ local[r].here \in BOOLEAN /\ local[r].pending \in BOOLEAN
         /\ local[r].here => local[r].pay.ver # 0
         /\ ~local[r].here => local[r] = NoRow
<1>1. Nothing \in Payload
  BY SyncOutboxAssumption DEF Nothing, Payload
<1>2. local[r] \in LocalRow /\ slot[r] \in Slot /\ hub[r] \in Payload /\ page[r] \in Payload
  BY DEF TypeOK
<1>3. slot[r].pay \in Payload
  BY <1>2, PayloadOfSlot
<1>4. CASE local[r] = NoRow
  BY <1>1, <1>2, <1>3, <1>4 DEF NoRow
<1>5. CASE local[r] \in [here : {TRUE}, pay : {pay \in Payload : pay.ver # 0}, pending : BOOLEAN]
  BY <1>2, <1>3, <1>5
<1> QED BY <1>2, <1>4, <1>5 DEF LocalRow

LEMMA InitialTypes == Init => TypeOK
<1> SUFFICES ASSUME Init PROVE TypeOK
  OBVIOUS
<1> USE SyncOutboxAssumption
<1>1. Nothing \in Payload /\ First \in Payload /\ First.ver # 0 /\ NoSlot \in Slot
  BY DEF Nothing, First, Payload, Slot
<1>2. \A r \in Rows : local[r] \in LocalRow
  <2> TAKE r \in Rows
  <2>1. CASE r \in Known
    BY <2>1, <1>1 DEF Init, LocalRow
  <2>2. CASE r \notin Known
    BY <2>2 DEF Init, LocalRow
  <2> QED BY <2>1, <2>2
<1>3. local \in [Rows -> LocalRow]
  BY <1>2 DEF Init
<1>4. IdleSession \in Session
  BY <1>1 DEF IdleSession, Session, Phase
<1>5. /\ hub \in [Rows -> Payload] /\ slot \in [Rows -> Slot] /\ page \in [Rows -> Payload]
      /\ sess \in [Procs -> Session]
  BY <1>1, <1>4 DEF Init
<1>6. wire \subseteq Request /\ erased \subseteq Rows /\ skipped \subseteq Rows
  BY DEF Init
<1>7. ops \in 0..MaxOps /\ hubOps \in 0..MaxHubOps /\ losses \in 0..MaxLosses
  BY DEF Init
<1> QED BY <1>3, <1>5, <1>6, <1>7 DEF TypeOK

(* A stored row and a queue that takes it.                                 *)
LEMMA StoredTyped ==
  ASSUME TypeOK, NEW r \in Rows, NEW pay \in Payload, pay.ver # 0, NEW b \in BOOLEAN, Stored(r, pay, b)
  PROVE  local' \in [Rows -> LocalRow]
<1>1. [here |-> TRUE, pay |-> pay, pending |-> b] \in LocalRow
  BY DEF LocalRow
<1> QED BY <1>1 DEF Stored, TypeOK

LEMMA EnqueueTyped ==
  ASSUME TypeOK, NEW r \in Rows, NEW pay \in Payload, pay.ver # 0, Enqueue(r, pay)
  PROVE  slot' \in [Rows -> Slot]
BY AddKeepsOrTakes DEF Enqueue, TypeOK

LEMMA EditedTyped ==
  ASSUME TypeOK, NEW r \in Rows, NEW del \in BOOLEAN, Operates
  PROVE  Edited(r, del) \in Payload /\ Edited(r, del).ver # 0 /\ ops' \in 0..MaxOps
BY RowTyped, SyncOutboxAssumption DEF Edited, Operates, Payload, TypeOK

LEMMA TombstoneTyped ==
  ASSUME TypeOK, NEW r \in Rows
  PROVE  Tombstone(r) \in Payload /\ Tombstone(r).ver # 0 /\ Tombstone(r).del = TRUE
<1>1. \A v \in Nat, e \in 0..MaxOps, d \in BOOLEAN : [ver |-> v, del |-> d, edit |-> e] \in Payload
  BY DEF Payload
<1>2. local[r].pay.ver \in Nat /\ local[r].pay.edit \in 0..MaxOps
  BY RowTyped DEF Payload
<1>3. local[r].pay.ver + 1 \in Nat /\ local[r].pay.ver + 1 # 0
  BY <1>2
<1>4. Tombstone(r) \in Payload
  BY <1>1, <1>2, <1>3, Zenon DEF Tombstone
<1> QED BY <1>3, <1>4 DEF Tombstone

LEMMA LocalWriteTypes == ASSUME TypeOK, LocalWrite PROVE TypeOK'
<1>1. ASSUME NEW r \in Rows, Create(r) PROVE TypeOK'
  <2> DEFINE pay == [ver |-> 1, del |-> FALSE, edit |-> ops + 1]
  <2>1. pay \in Payload /\ pay.ver # 0 /\ ops' \in 0..MaxOps
    BY <1>1, SyncOutboxAssumption DEF Create, Operates, Payload, TypeOK
  <2>2. Stored(r, pay, TRUE) /\ Enqueue(r, pay) /\ UNCHANGED <<erased, remote>>
    BY <1>1 DEF Create
  <2> HIDE DEF pay
  <2> QED BY <2>1, <2>2, StoredTyped, EnqueueTyped DEF TypeOK, remote
<1>2. ASSUME NEW r \in Rows, Save(r) PROVE TypeOK'
  <2>1. local[r].pay.del \in BOOLEAN /\ Operates /\ UNCHANGED <<erased, remote>>
    BY <1>2, RowTyped DEF Save, Payload
  <2>2. local' \in [Rows -> LocalRow] /\ slot' \in [Rows -> Slot]
    BY <1>2, <2>1, StoredTyped, EnqueueTyped, EditedTyped DEF Save
  <2> QED BY <2>1, <2>2, EditedTyped DEF TypeOK, remote
<1>3. ASSUME NEW r \in Rows, SaveUnqueued(r) PROVE TypeOK'
  <2>1. local[r].pay.del \in BOOLEAN /\ Operates /\ UNCHANGED <<slot, erased, remote>>
    BY <1>3, RowTyped DEF SaveUnqueued, Payload
  <2>2. local' \in [Rows -> LocalRow]
    BY <1>3, <2>1, StoredTyped, EditedTyped DEF SaveUnqueued
  <2> QED BY <2>1, <2>2, EditedTyped DEF TypeOK, remote
<1>4. ASSUME NEW r \in Rows, SoftDelete(r) PROVE TypeOK'
  <2>1. Operates /\ UNCHANGED <<erased, remote>>
    BY <1>4 DEF SoftDelete
  <2>2. local' \in [Rows -> LocalRow] /\ slot' \in [Rows -> Slot]
    BY <1>4, <2>1, StoredTyped, EnqueueTyped, EditedTyped DEF SoftDelete
  <2> QED BY <2>1, <2>2, EditedTyped DEF TypeOK, remote
<1>5. ASSUME NEW r \in Rows, HardDelete(r) PROVE TypeOK'
  <2> DEFINE pay == Tombstone(r)
  <2>1. pay \in Payload /\ pay.ver # 0
    BY RowTyped, TombstoneTyped
  <2>2. /\ local' = [local EXCEPT ![r] = NoRow] /\ Enqueue(r, pay)
        /\ erased' = erased \cup {r} /\ Operates /\ UNCHANGED remote
    BY <1>5 DEF HardDelete
  <2> HIDE DEF pay
  <2>3. slot' \in [Rows -> Slot] /\ ops' \in 0..MaxOps
    BY <2>1, <2>2, EnqueueTyped, EditedTyped
  <2>4. local' \in [Rows -> LocalRow]
    BY <2>2 DEF LocalRow, TypeOK
  <2> QED BY <2>2, <2>3, <2>4 DEF TypeOK, remote
<1> QED BY <1>1, <1>2, <1>3, <1>4, <1>5 DEF LocalWrite

LEMMA OperatorTypes == ASSUME TypeOK, Operator PROVE TypeOK'
<1>1. ASSUME Operates, UNCHANGED <<local, erased, remote>>, slot' \in [Rows -> Slot] PROVE TypeOK'
  BY <1>1, EditedTyped, SyncOutboxAssumption DEF TypeOK, remote, Operates
<1>2. CASE Clear
  BY <1>1, <1>2 DEF Clear, TypeOK, Slot
<1>3. CASE QueueAll
  <2>1. \A r \in Rows : local[r].here => Add(r, local[r].pay) \in Slot
    BY RowTyped, AddKeepsOrTakes
  <2> QED BY <1>1, <1>3, <2>1 DEF QueueAll, TypeOK
<1>4. ASSUME NEW r \in Rows, Requeue(r) PROVE TypeOK'
  <2>1. [slot[r] EXCEPT !.dead = FALSE] \in Slot
    <3>1. slot[r] \in Slot /\ slot[r].dead
      BY <1>4 DEF Requeue, TypeOK
    <3>2. slot[r] # NoSlot
      BY <3>1 DEF NoSlot
    <3>3. slot[r] \in [gen : Nat \ {0}, pay : {pay \in Payload : pay.ver # 0}, dead : BOOLEAN]
      BY <3>1, <3>2 DEF Slot
    <3> HIDE DEF Slot
    <3>4. [slot[r] EXCEPT !.dead = FALSE] \in [gen : Nat \ {0}, pay : {pay \in Payload : pay.ver # 0}, dead : BOOLEAN]
      BY <3>3
    <3> QED BY <3>4 DEF Slot
  <2>2. slot' = [slot EXCEPT ![r] = [slot[r] EXCEPT !.dead = FALSE]]
    BY <1>4 DEF Requeue
  <2> QED BY <1>1, <1>4, <2>1, <2>2 DEF Requeue, TypeOK
<1> QED BY <1>2, <1>3, <1>4 DEF Operator

(* How a push moves: the other pushes stay as they are.                    *)
GoesOn(p) == /\ sess' \in [Procs -> Session]
             /\ \A q \in Procs \ {p} : sess'[q] = sess[q]

Keeps(p) == /\ sess'[p].snap = sess[p].snap
            /\ sess'[p].acked = sess[p].acked /\ sess'[p].stamp = sess[p].stamp

LEMMA Moved ==
  ASSUME TypeOK, NEW p \in Procs, NEW s \in Session, sess' = [sess EXCEPT ![p] = s]
  PROVE  GoesOn(p) /\ sess'[p] = s
BY DEF TypeOK, GoesOn

LEMMA StartMoves ==
  ASSUME TypeOK, NEW p \in Procs, StartPush(p)
  PROVE  GoesOn(p) /\ Keeps(p) /\ sess'[p].phase = "group" /\ sess[p].phase = "idle"
         /\ sess'[p].todo = sess[p].todo /\ sess'[p].batch = sess[p].batch
<1> DEFINE s == [sess[p] EXCEPT !.phase = "group"]
<1>1. sess[p] \in Session /\ sess[p].phase = "idle" /\ sess' = [sess EXCEPT ![p] = s]
  BY DEF TypeOK, StartPush
<1>2. /\ s \in Session /\ s.phase = "group" /\ s.snap = sess[p].snap /\ s.todo = sess[p].todo
      /\ s.batch = sess[p].batch /\ s.acked = sess[p].acked /\ s.stamp = sess[p].stamp
  BY <1>1 DEF Session, Phase
<1> HIDE DEF s
<1> QED BY <1>1, <1>2, Moved DEF Keeps

LEMMA GroupMoves ==
  ASSUME TypeOK, NEW p \in Procs, Group(p)
  PROVE  /\ GoesOn(p) /\ sess'[p].phase \in {"idle", "send"} /\ sess[p].phase = "group"
         /\ sess'[p].batch = {} /\ sess'[p].acked = {} /\ sess'[p].stamp = {}
         /\ \A r \in Rows : \/ sess'[p].snap[r] = slot[r] /\ slot[r].gen # 0
                            \/ sess'[p].snap[r] = NoSlot /\ r \notin sess'[p].todo
<1> DEFINE eligible == {r \in Rows : slot[r].gen # 0 /\ ~slot[r].dead}
           first == IF eligible = {} THEN "idle" ELSE "send"
           snap == [r \in Rows |-> IF r \in eligible THEN slot[r] ELSE NoSlot]
           s == [phase |-> first, snap |-> snap, todo |-> eligible,
                 batch |-> {}, acked |-> {}, stamp |-> {}]
<1>1. sess[p].phase = "group" /\ sess' = [sess EXCEPT ![p] = s]
  BY DEF Group
<1>2. snap \in [Rows -> Slot] /\ first \in Phase /\ first \in {"idle", "send"}
  BY DEF TypeOK, Slot, Phase
<1>3. \A r \in Rows : \/ snap[r] = slot[r] /\ slot[r].gen # 0
                      \/ snap[r] = NoSlot /\ r \notin eligible
  OBVIOUS
<1>4. eligible \subseteq Rows
  OBVIOUS
<1> HIDE DEF eligible, first, snap
<1>5. s \in Session
  BY <1>2, <1>4 DEF Session
<1>6. GoesOn(p) /\ sess'[p] = s
  BY <1>1, <1>5, Moved
<1> QED BY <1>1, <1>2, <1>3, <1>6

LEMMA SentTyped ==
  ASSUME TypeOK, NEW p \in Procs, NEW B \in SUBSET Rows
  PROVE  Sent(p, B) \in Request
<1>1. sess[p].snap \in [Rows -> Slot]
  BY DEF TypeOK, Session
<1>2. Nothing \in Payload
  BY SyncOutboxAssumption DEF Nothing, Payload
<1>3. [r \in Rows |-> IF r \in B THEN sess[p].snap[r].pay ELSE Nothing] \in [Rows -> Payload]
  BY <1>1, <1>2, PayloadOfSlot
<1> QED BY <1>3 DEF Sent, Request

LEMMA SendMoves ==
  ASSUME TypeOK, NEW p \in Procs, Send(p)
  PROVE  /\ GoesOn(p) /\ Keeps(p) /\ sess'[p].phase = "wait" /\ sess[p].phase = "send"
         /\ \E B \in SUBSET sess[p].todo : /\ wire' = wire \cup {Sent(p, B)}
                                           /\ sess'[p].batch = B /\ sess'[p].todo = sess[p].todo \ B
<1>1. PICK B \in SUBSET sess[p].todo :
        /\ wire' = wire \cup {Sent(p, B)}
        /\ sess' = [sess EXCEPT ![p].phase = "wait", ![p].batch = B, ![p].todo = @ \ B]
  BY DEF Send
<1> DEFINE s == [sess[p] EXCEPT !.phase = "wait", !.batch = B, !.todo = @ \ B]
<1>2. sess[p] \in Session /\ sess[p].phase = "send" /\ B \in SUBSET Rows
  BY DEF TypeOK, Send, Session
<1>3. sess' = [sess EXCEPT ![p] = s]
  BY <1>1 DEF TypeOK
<1>4. s \in Session
  BY <1>2 DEF Session, Phase
<1>5. /\ s.phase = "wait" /\ s.batch = B /\ s.todo = sess[p].todo \ B
      /\ s.snap = sess[p].snap /\ s.acked = sess[p].acked /\ s.stamp = sess[p].stamp
  BY <1>2 DEF Session
<1> HIDE DEF s
<1>6. GoesOn(p) /\ sess'[p] = s
  BY <1>3, <1>4, Moved
<1> QED BY <1>1, <1>2, <1>5, <1>6 DEF Keeps

LEMMA StopMoves ==
  ASSUME TypeOK, NEW p \in Procs, StopSending(p)
  PROVE  /\ GoesOn(p) /\ Keeps(p) /\ sess'[p].phase = "ack" /\ sess[p].phase = "send"
         /\ sess'[p].todo = {} /\ sess'[p].batch = sess[p].batch
<1> DEFINE s == [sess[p] EXCEPT !.phase = "ack", !.todo = {}]
<1>1. sess' = [sess EXCEPT ![p].phase = "ack", ![p].todo = {}] /\ sess[p].phase = "send"
  BY DEF StopSending
<1>2. sess[p] \in Session
  BY DEF TypeOK
<1>3. sess' = [sess EXCEPT ![p] = s]
  BY <1>1 DEF TypeOK
<1>4. s \in Session
  BY <1>2 DEF Session, Phase
<1>5. /\ s.phase = "ack" /\ s.batch = sess[p].batch /\ s.todo = {}
      /\ s.snap = sess[p].snap /\ s.acked = sess[p].acked /\ s.stamp = sess[p].stamp
  BY <1>2 DEF Session
<1> HIDE DEF s
<1>6. GoesOn(p) /\ sess'[p] = s
  BY <1>3, <1>4, Moved
<1> QED BY <1>1, <1>5, <1>6 DEF Keeps

LEMMA ReplyMoves ==
  ASSUME TypeOK, NEW p \in Procs, NEW m \in wire, Reply(p, m)
  PROVE  /\ GoesOn(p) /\ sess'[p].phase = "send" /\ sess'[p].batch = {}
         /\ sess'[p].snap = sess[p].snap /\ sess'[p].stamp = sess[p].stamp
         /\ sess'[p].todo \subseteq sess[p].todo /\ sess'[p].acked = sess[p].acked \cup m.ack
<1> DEFINE held == {r \in sess[p].todo : ParentOf[r] # r /\
                      \E q \in m.retry \cup m.reject : ParentOf[q] = q}
           s == [sess[p] EXCEPT !.phase = "send", !.batch = {}, !.todo = @ \ held, !.acked = @ \cup m.ack]
<1>1. sess' = [sess EXCEPT ![p].phase = "send", ![p].batch = {},
                           ![p].todo = @ \ held, ![p].acked = @ \cup m.ack]
  BY DEF Reply
<1> HIDE DEF held
<1>2. sess[p] \in Session /\ m.ack \subseteq Rows
  BY DEF TypeOK, Request
<1>3. sess' = [sess EXCEPT ![p] = s]
  BY <1>1 DEF TypeOK
<1>4. s \in Session
  BY <1>2 DEF Session, Phase
<1>5. /\ s.phase = "send" /\ s.batch = {} /\ s.todo \subseteq sess[p].todo
      /\ s.snap = sess[p].snap /\ s.acked = sess[p].acked \cup m.ack /\ s.stamp = sess[p].stamp
  BY <1>2 DEF Session
<1> HIDE DEF s
<1>6. GoesOn(p) /\ sess'[p] = s
  BY <1>3, <1>4, Moved
<1> QED BY <1>5, <1>6

LEMMA LoseMoves ==
  ASSUME TypeOK, NEW p \in Procs, NEW m \in wire, LoseAnswer(p, m)
  PROVE  /\ GoesOn(p) /\ Keeps(p)
         /\ m.by = p /\ m.live
         /\ \/ /\ wire' = (wire \ {m}) \cup {[m EXCEPT !.live = FALSE], Sent(p, sess[p].batch)}
               /\ sess' = sess
            \/ /\ wire' = (wire \ {m}) \cup {[m EXCEPT !.live = FALSE]}
               /\ sess'[p].phase = "ack" /\ sess'[p].batch = {} /\ sess'[p].todo = {}
<1>1. CASE /\ wire' = (wire \ {m}) \cup {[m EXCEPT !.live = FALSE], Sent(p, sess[p].batch)}
           /\ UNCHANGED sess
  BY <1>1 DEF LoseAnswer, GoesOn, Keeps, TypeOK
<1>2. CASE /\ wire' = (wire \ {m}) \cup {[m EXCEPT !.live = FALSE]}
           /\ sess' = [sess EXCEPT ![p].phase = "ack", ![p].batch = {}, ![p].todo = {}]
  <2> DEFINE s == [sess[p] EXCEPT !.phase = "ack", !.batch = {}, !.todo = {}]
  <2>1. sess[p] \in Session
    BY DEF TypeOK
  <2>2. sess' = [sess EXCEPT ![p] = s]
    BY <1>2 DEF TypeOK
  <2>3. s \in Session
    BY <2>1 DEF Session, Phase
  <2>4. /\ s.phase = "ack" /\ s.batch = {} /\ s.todo = {}
        /\ s.snap = sess[p].snap /\ s.acked = sess[p].acked /\ s.stamp = sess[p].stamp
    BY <2>1 DEF Session
  <2> HIDE DEF s
  <2>5. GoesOn(p) /\ sess'[p] = s
    BY <2>2, <2>3, Moved
  <2>6. m.by = p /\ m.live
    BY DEF LoseAnswer
  <2> QED BY <1>2, <2>4, <2>5, <2>6 DEF Keeps
<1> QED BY <1>1, <1>2 DEF LoseAnswer

LEMMA AcknowledgeMoves ==
  ASSUME TypeOK, NEW p \in Procs, Acknowledge(p)
  PROVE  /\ GoesOn(p) /\ sess'[p].phase = "stamp" /\ sess[p].phase = "ack"
         /\ sess'[p].snap = sess[p].snap /\ sess'[p].acked = sess[p].acked
         /\ sess'[p].stamp \subseteq sess[p].acked
         /\ sess'[p].todo = sess[p].todo /\ sess'[p].batch = sess[p].batch
         /\ \A r \in Rows : \/ slot'[r] = slot[r]
                            \/ slot'[r] = NoSlot /\ r \in sess[p].acked /\ SameGen(p, r)
<1> DEFINE gone == {r \in sess[p].acked : SameGen(p, r)}
           s == [sess[p] EXCEPT !.phase = "stamp", !.stamp = gone]
<1>1. /\ slot' = [r \in Rows |-> IF r \in gone THEN NoSlot ELSE slot[r]]
      /\ sess' = [sess EXCEPT ![p].phase = "stamp", ![p].stamp = gone]
      /\ sess[p].phase = "ack"
  BY DEF Acknowledge
<1>2. sess[p] \in Session /\ gone \subseteq sess[p].acked /\ \A r \in gone : SameGen(p, r)
  BY DEF TypeOK
<1> HIDE DEF gone
<1>3. sess' = [sess EXCEPT ![p] = s]
  BY <1>1 DEF TypeOK
<1>4. s \in Session
  BY <1>2 DEF Session, Phase
<1>5. /\ s.phase = "stamp" /\ s.batch = sess[p].batch /\ s.todo = sess[p].todo
      /\ s.snap = sess[p].snap /\ s.acked = sess[p].acked /\ s.stamp = gone
  BY <1>2 DEF Session
<1> HIDE DEF s
<1>6. GoesOn(p) /\ sess'[p] = s
  BY <1>3, <1>4, Moved
<1>7. \A r \in Rows : \/ slot'[r] = slot[r]
                      \/ slot'[r] = NoSlot /\ r \in sess[p].acked /\ SameGen(p, r)
  BY <1>1, <1>2
<1> QED BY <1>1, <1>2, <1>5, <1>6, <1>7

LEMMA StampMoves ==
  ASSUME TypeOK, NEW p \in Procs, NEW r \in Rows, StampRow(p, r)
  PROVE  /\ GoesOn(p) /\ sess'[p].phase = "stamp" /\ sess[p].phase = "stamp"
         /\ sess'[p].snap = sess[p].snap /\ sess'[p].acked = sess[p].acked
         /\ sess'[p].stamp \subseteq sess[p].stamp
         /\ sess'[p].todo = sess[p].todo /\ sess'[p].batch = sess[p].batch
<1> DEFINE s == [sess[p] EXCEPT !.stamp = sess[p].stamp \ {r}]
<1>1. sess' = [sess EXCEPT ![p].stamp = @ \ {r}] /\ sess[p].phase = "stamp"
  BY DEF StampRow
<1>2. sess[p] \in Session
  BY DEF TypeOK
<1>3. sess' = [sess EXCEPT ![p] = s]
  BY <1>1 DEF TypeOK
<1>4. s \in Session
  BY <1>2 DEF Session
<1>5. /\ s.phase = sess[p].phase /\ s.batch = sess[p].batch /\ s.todo = sess[p].todo
      /\ s.snap = sess[p].snap /\ s.acked = sess[p].acked /\ s.stamp = sess[p].stamp \ {r}
  BY <1>2 DEF Session
<1> HIDE DEF s
<1>6. GoesOn(p) /\ sess'[p] = s
  BY <1>3, <1>4, Moved
<1> QED BY <1>1, <1>5, <1>6

LEMMA IdleMoves ==
  ASSUME TypeOK, NEW p \in Procs, sess' = [sess EXCEPT ![p] = IdleSession]
  PROVE  /\ GoesOn(p) /\ sess'[p].phase = "idle"
         /\ sess'[p].todo = {} /\ sess'[p].batch = {} /\ sess'[p].acked = {} /\ sess'[p].stamp = {}
         /\ \A r \in Rows : sess'[p].snap[r] = NoSlot
<1>1. IdleSession \in Session
  BY DEF IdleSession, Session, Phase, Slot
<1>2. GoesOn(p) /\ sess'[p] = IdleSession
  BY <1>1, Moved
<1> QED BY <1>2 DEF IdleSession

(* How a request changes: it dies, or one record of it is answered.        *)
LEMMA Dead ==
  ASSUME NEW m \in Request
  PROVE  LET n == [m EXCEPT !.live = FALSE]
         IN  /\ n \in Request /\ ~n.live
             /\ n.by = m.by /\ n.pay = m.pay /\ n.todo = m.todo /\ n.ack = m.ack
BY DEF Request

LEMMA AnsweredMoves ==
  ASSUME TypeOK, NEW m \in wire, NEW r \in m.todo, NEW how, Answered(m, r, how)
  PROVE  \E n \in Request :
           /\ wire' = (wire \ {m}) \cup {n}
           /\ n.by = m.by /\ n.live = m.live /\ n.pay = m.pay /\ n.todo \subseteq m.todo
           /\ IF how = "ack" THEN n.ack = m.ack \cup {r} ELSE n.ack = m.ack
<1> DEFINE n == [m EXCEPT !.todo = @ \ {r},
                          !.ack = IF how = "ack" THEN @ \cup {r} ELSE @,
                          !.retry = IF how = "retry" THEN @ \cup {r} ELSE @,
                          !.reject = IF how = "reject" THEN @ \cup {r} ELSE @]
<1>1. wire' = (wire \ {m}) \cup {n}
  BY DEF Answered
<1>2. m \in Request
  BY DEF TypeOK
<1>3. n \in Request
  BY <1>2 DEF Request
<1>4. /\ n.by = m.by /\ n.live = m.live /\ n.pay = m.pay /\ n.todo \subseteq m.todo
      /\ IF how = "ack" THEN n.ack = m.ack \cup {r} ELSE n.ack = m.ack
  BY <1>2 DEF Request
<1> HIDE DEF n
<1> QED BY <1>1, <1>3, <1>4

LEMMA PushTypes == ASSUME TypeOK, NEW p \in Procs, PushStep(p) PROVE TypeOK'
<1> DEFINE Others == UNCHANGED <<hub, losses, rest>>
<1>0. ASSUME Others, wire' \subseteq Request, slot' \in [Rows -> Slot], sess' \in [Procs -> Session]
      PROVE  TypeOK'
  BY <1>0 DEF TypeOK, rest
<1>w. wire \subseteq Request
  BY DEF TypeOK
<1>s. slot \in [Rows -> Slot]
  BY DEF TypeOK
<1>1. CASE StartPush(p)
  <2>1. Others /\ UNCHANGED wire
    BY <1>1 DEF StartPush
  <2>2. \A r \in Rows : local[r].here => Add(r, local[r].pay) \in Slot
    BY RowTyped, AddKeepsOrTakes
  <2>3. slot' \in [Rows -> Slot]
    BY <1>1, <2>2, <1>s DEF StartPush
  <2>4. sess' \in [Procs -> Session]
    BY <1>1, StartMoves DEF GoesOn
  <2> QED BY <2>1, <2>3, <2>4, <1>0, <1>w
<1>2. CASE Group(p)
  <2>1. Others /\ UNCHANGED <<slot, wire>>
    BY <1>2 DEF Group
  <2>2. sess' \in [Procs -> Session]
    BY <1>2, GroupMoves DEF GoesOn
  <2> QED BY <2>1, <2>2, <1>0, <1>w, <1>s
<1>3. CASE Send(p)
  <2>1. Others /\ UNCHANGED slot
    BY <1>3 DEF Send
  <2>2. sess' \in [Procs -> Session]
    BY <1>3, SendMoves DEF GoesOn
  <2>3. sess[p].todo \subseteq Rows
    BY DEF TypeOK, Session
  <2>4. wire' \subseteq Request
    BY <1>3, <2>3, SendMoves, SentTyped, <1>w
  <2> QED BY <2>1, <2>2, <2>4, <1>0, <1>s
<1>4. CASE StopSending(p)
  <2>1. Others /\ UNCHANGED <<slot, wire>>
    BY <1>4 DEF StopSending
  <2>2. sess' \in [Procs -> Session]
    BY <1>4, StopMoves DEF GoesOn
  <2> QED BY <2>1, <2>2, <1>0, <1>w, <1>s
<1>5. CASE Acknowledge(p)
  <2>1. Others /\ UNCHANGED wire
    BY <1>5 DEF Acknowledge
  <2>2. slot' \in [Rows -> Slot]
    BY <1>5, <1>s DEF Acknowledge, Slot
  <2>3. sess' \in [Procs -> Session]
    BY <1>5, AcknowledgeMoves DEF GoesOn
  <2> QED BY <2>1, <2>2, <2>3, <1>0, <1>w
<1>6. CASE EndPush(p)
  <2>1. Others /\ UNCHANGED <<slot, wire>>
    BY <1>6 DEF EndPush
  <2>2. sess' \in [Procs -> Session]
    BY <1>6, IdleMoves DEF EndPush, GoesOn
  <2> QED BY <2>1, <2>2, <1>0, <1>w, <1>s
<1>7. ASSUME NEW r \in Rows, StampRow(p, r) PROVE TypeOK'
  <2>1. UNCHANGED <<slot, hub, wire, erased, skipped, page, ops, hubOps, losses>>
    BY <1>7 DEF StampRow
  <2>2. sess' \in [Procs -> Session]
    BY <1>7, StampMoves DEF GoesOn
  <2>3. local' \in [Rows -> LocalRow]
    <3>1. CASE ~Stamps(p, r)
      BY <1>7, <3>1 DEF StampRow, TypeOK
    <3>2. CASE Stamps(p, r)
      <4>1. local' = [local EXCEPT ![r] = [local[r] EXCEPT !.pending = FALSE]]
        BY <1>7, <3>2 DEF StampRow
      <4>2. local[r] # NoRow
        BY <3>2 DEF NoRow, Stamps
      <4>3. local[r] \in [here : {TRUE}, pay : {pay \in Payload : pay.ver # 0}, pending : BOOLEAN]
        BY <4>2 DEF LocalRow, TypeOK
      <4>4. [local[r] EXCEPT !.pending = FALSE] \in [here : {TRUE}, pay : {pay \in Payload : pay.ver # 0}, pending : BOOLEAN]
        BY <4>3
      <4> QED BY <4>1, <4>4 DEF LocalRow, TypeOK
    <3> QED BY <3>1, <3>2
  <2> QED BY <2>1, <2>2, <2>3 DEF TypeOK
<1>8. ASSUME NEW m \in wire, Reply(p, m) PROVE TypeOK'
  <2>1. Others /\ wire' \subseteq wire
    BY <1>8 DEF Reply
  <2>2. sess' \in [Procs -> Session]
    BY <1>8, ReplyMoves DEF GoesOn
  <2>3. slot' \in [Rows -> Slot]
    <3>1. slot' = DeadLettered(p, m.reject)
      BY <1>8 DEF Reply
    <3>2. \A r \in Rows : SameGen(p, r) => [slot[r] EXCEPT !.dead = TRUE] \in Slot
      <4> TAKE r \in Rows
      <4> HAVE SameGen(p, r)
      <4>1. slot[r] \in [gen : Nat \ {0}, pay : {pay \in Payload : pay.ver # 0}, dead : BOOLEAN]
        BY <1>s DEF SameGen, Slot, NoSlot
      <4> HIDE DEF Slot
      <4>2. [slot[r] EXCEPT !.dead = TRUE] \in [gen : Nat \ {0}, pay : {pay \in Payload : pay.ver # 0}, dead : BOOLEAN]
        BY <4>1
      <4> QED BY <4>2 DEF Slot
    <3> QED BY <3>1, <3>2, <1>s DEF DeadLettered
  <2> QED BY <2>1, <2>2, <2>3, <1>0, <1>w
<1> QED BY <1>1, <1>2, <1>3, <1>4, <1>5, <1>6, <1>7, <1>8 DEF PushStep

LEMMA FailureTypes == ASSUME TypeOK, Failure PROVE TypeOK'
<1>1. ASSUME UNCHANGED <<slot, hub, rest>>, losses' \in 0..MaxLosses, wire' \subseteq Request,
             sess' \in [Procs -> Session]
      PROVE  TypeOK'
  BY <1>1 DEF TypeOK, rest
<1>2. ASSUME losses < MaxLosses, losses' = losses + 1 PROVE losses' \in 0..MaxLosses
  BY <1>2, SyncOutboxAssumption DEF TypeOK
<1>3. ASSUME NEW p \in Procs, Crash(p) PROVE TypeOK'
  <2>1. sess' \in [Procs -> Session]
    BY <1>3, IdleMoves DEF Crash, GoesOn
  <2>2. wire' \subseteq Request
    BY <1>3, Dead DEF Crash, TypeOK
  <2> QED BY <2>1, <2>2, <1>1, <1>2, <1>3 DEF Crash
<1>4. ASSUME NEW p \in Procs, NEW m \in wire, LoseAnswer(p, m) PROVE TypeOK'
  <2>1. sess' \in [Procs -> Session]
    BY <1>4, LoseMoves DEF GoesOn
  <2>2. sess[p].batch \subseteq Rows
    BY DEF TypeOK, Session
  <2>3. Sent(p, sess[p].batch) \in Request /\ [m EXCEPT !.live = FALSE] \in Request /\ wire \subseteq Request
    BY <2>2, SentTyped, Dead DEF TypeOK
  <2>4. wire' \subseteq Request
    BY <1>4, <2>3 DEF LoseAnswer
  <2> QED BY <2>1, <2>4, <1>1, <1>2, <1>4 DEF LoseAnswer
<1> QED BY <1>3, <1>4 DEF Failure

LEMMA HubTypes == ASSUME TypeOK, HubStep \/ HubEdit PROVE TypeOK'
<1>0. ASSUME UNCHANGED terminal, wire' \subseteq Request, hub' \in [Rows -> Payload], skipped' \subseteq Rows
      PROVE  TypeOK'
  BY <1>0 DEF TypeOK, terminal
<1>1. ASSUME NEW m \in wire, NEW r \in m.todo, NEW how, Answered(m, r, how) PROVE wire' \subseteq Request
  BY <1>1, AnsweredMoves DEF TypeOK
<1>2. hub \in [Rows -> Payload] /\ skipped \subseteq Rows /\ wire \subseteq Request
  BY DEF TypeOK
<1>3. ASSUME NEW m \in wire, Forget(m) PROVE TypeOK'
  BY <1>0, <1>2, <1>3 DEF Forget
<1>4. ASSUME NEW m \in wire, NEW r \in Rows, Store(m, r) PROVE TypeOK'
  <2>1. m.pay[r] \in Payload
    BY DEF TypeOK, Request
  <2>2. hub' \in [Rows -> Payload]
    BY <1>2, <1>4, <2>1 DEF Store
  <2> QED BY <1>0, <1>1, <1>2, <1>4, <2>2 DEF Store
<1>5. ASSUME NEW m \in wire, NEW r \in Rows, SkipTombstone(m, r) PROVE TypeOK'
  BY <1>0, <1>1, <1>2, <1>5 DEF SkipTombstone
<1>6. ASSUME NEW m \in wire, NEW r \in Rows, Postpone(m, r) PROVE TypeOK'
  BY <1>0, <1>1, <1>2, <1>6 DEF Postpone
<1>7. ASSUME NEW m \in wire, NEW r \in Rows, Refuse(m, r) PROVE TypeOK'
  BY <1>0, <1>1, <1>2, <1>7 DEF Refuse
<1>8. ASSUME NEW r \in Rows, NEW del \in BOOLEAN, HubWrite(r, del) PROVE TypeOK'
  <2> DEFINE h == [ver |-> hub[r].ver + 1, del |-> del, edit |-> hub[r].edit]
  <2>2. hub' = [hub EXCEPT ![r] = h]
    BY <1>8 DEF HubWrite
  <2>3. h \in Payload
    BY <1>2 DEF Payload
  <2> HIDE DEF h
  <2>4. hub' \in [Rows -> Payload]
    BY <2>2, <2>3, <1>2
  <2>5. hubOps' \in 0..MaxHubOps
    BY <1>8, SyncOutboxAssumption DEF HubWrite, TypeOK
  <2> QED BY <1>8, <2>4, <2>5 DEF HubWrite, TypeOK
<1> QED BY <1>3, <1>4, <1>5, <1>6, <1>7, <1>8 DEF HubStep, HubEdit

LEMMA PullTypes == ASSUME TypeOK, PullStep PROVE TypeOK'
<1>0. ASSUME UNCHANGED pushing, page' \in [Rows -> Payload], local' \in [Rows -> LocalRow], slot' \in [Rows -> Slot]
      PROVE  TypeOK'
  BY <1>0 DEF TypeOK, pushing
<1>n. Nothing \in Payload
  BY SyncOutboxAssumption DEF Nothing, Payload
<1>1. ASSUME NEW r \in Rows, Taken(r) PROVE page' \in [Rows -> Payload]
  BY <1>1, <1>n DEF Taken, TypeOK
<1>2. local \in [Rows -> LocalRow] /\ slot \in [Rows -> Slot]
  BY DEF TypeOK
<1>3. ASSUME NEW r \in Rows, Outranks(r) PROVE Merged(r) \in Payload /\ Merged(r).ver = page[r].ver /\ Merged(r).ver # 0
  <2>1. local[r].pay \in Payload /\ page[r] \in Payload /\ page[r].ver > local[r].pay.ver
    BY <1>3, RowTyped DEF Outranks
  <2> QED BY <2>1 DEF Merged, Payload
<1>4. ASSUME NEW r \in Rows, FetchRow(r) PROVE TypeOK'
  <2>1. page' \in [Rows -> Payload]
    BY <1>4 DEF FetchRow, TypeOK
  <2> QED BY <2>1, <1>0, <1>2, <1>4 DEF FetchRow
<1>5. ASSUME NEW r \in Rows, ApplyNew(r) PROVE TypeOK'
  <2>1. page[r] \in Payload /\ page[r].ver # 0
    BY <1>5, RowTyped DEF ApplyNew, Taken
  <2>2. local' \in [Rows -> LocalRow]
    BY <1>5, <2>1, StoredTyped DEF ApplyNew
  <2> QED BY <2>2, <1>0, <1>1, <1>2, <1>5 DEF ApplyNew
<1>6. ASSUME NEW r \in Rows, ApplyNewer(r) PROVE TypeOK'
  <2>1. local' \in [Rows -> LocalRow]
    BY <1>3, <1>6, StoredTyped DEF ApplyNewer
  <2> QED BY <2>1, <1>0, <1>1, <1>2, <1>6 DEF ApplyNewer
<1>7. ASSUME NEW r \in Rows, Rebase(r) PROVE TypeOK'
  <2> DEFINE pay == [Merged(r) EXCEPT !.ver = @ + 1]
  <2>1. Merged(r) \in Payload
    BY <1>3, <1>7 DEF Rebase
  <2>2. pay \in Payload /\ pay.ver # 0
    BY <2>1 DEF Payload
  <2>3. Stored(r, pay, TRUE) /\ Enqueue(r, pay) /\ Taken(r) /\ UNCHANGED pushing
    BY <1>7 DEF Rebase
  <2> HIDE DEF pay
  <2>4. local' \in [Rows -> LocalRow] /\ slot' \in [Rows -> Slot]
    BY <2>2, <2>3, StoredTyped, EnqueueTyped
  <2> QED BY <2>3, <2>4, <1>0, <1>1
<1>8. ASSUME NEW r \in Rows, SkipRow(r) PROVE TypeOK'
  BY <1>0, <1>1, <1>2, <1>8 DEF SkipRow
<1> QED BY <1>4, <1>5, <1>6, <1>7, <1>8 DEF PullStep

(* Every variable keeps its type.                                          *)
THEOREM OutboxTypes == Spec => []TypeOK
<1>1. Init => TypeOK
  BY InitialTypes
<1>2. TypeOK /\ [Next]_vars => TypeOK'
  <2> SUFFICES ASSUME TypeOK, [Next]_vars PROVE TypeOK'
    OBVIOUS
  <2>1. CASE UNCHANGED vars
    BY <2>1 DEF TypeOK, vars
  <2> QED BY <2>1, LocalWriteTypes, OperatorTypes, FailureTypes, HubTypes, PullTypes, PushTypes DEF Next
<1> QED BY <1>1, <1>2, PTL DEF Spec

-----------------------------------------------------------------------------
(* The invariant.                                                          *)

(* What exists of a row at the terminal, in the queue, in the pushes and   *)
(* on the wire.                                                            *)
Copies(r) ==
  {Nothing, local[r].pay, slot[r].pay} \cup {sess[p].snap[r].pay : p \in Procs}
    \cup {m.pay[r] : m \in wire}

(* They are moments of one history, of which l is the last and h, at the   *)
(* hub, a moment or a merge.                                               *)
Lined(C, l, h) ==
  /\ \A x, y \in C : /\ x.ver <= y.ver => x.edit <= y.edit
                     /\ x.ver = y.ver => x = y
  /\ \A x \in C : /\ x.ver <= l.ver
                  /\ x.ver >= h.ver => x.edit >= h.edit
  /\ h.edit <= l.edit

LineageInv ==
  \A r \in Rows \ erased : /\ Lined(Copies(r), local[r].pay, hub[r])
                           /\ ~local[r].here => hub[r].ver = 0
                           /\ local[r].pay.edit <= ops

HubInv == \A r \in Rows : /\ hub[r].ver = 0 => hub[r] = Nothing
                          /\ page[r].ver <= hub[r].ver

(* A live payload is queued of a row that is here, and a token names one   *)
(* content.                                                                *)
QueueInv ==
  \A r \in Rows :
    /\ slot[r].gen # 0 /\ ~slot[r].pay.del
         => local[r].here /\ slot[r].pay.ver <= local[r].pay.ver
    /\ \A p \in Procs : SameGen(p, r) => slot[r].pay = sess[p].snap[r].pay

(* The hub has what this payload brought, or more.                         *)
Covered(r, x) ==
  IF x.del THEN hub[r].del \/ r \in skipped
           ELSE r \in erased \/ (hub[r].ver >= x.ver /\ hub[r].edit >= x.edit)

CoveredNext(r, x) ==
  IF x.del THEN hub'[r].del \/ r \in skipped'
           ELSE r \in erased' \/ (hub'[r].ver >= x.ver /\ hub'[r].edit >= x.edit)

PushInv ==
  \A p \in Procs :
    /\ \A r \in sess[p].todo \cup sess[p].batch : sess[p].snap[r].gen # 0
    /\ \A r \in sess[p].acked \cup sess[p].stamp : Covered(r, sess[p].snap[r].pay)

WireInv ==
  \A m \in wire : /\ \A r \in m.todo : m.pay[r].ver # 0
                  /\ \A r \in m.ack : Covered(r, m.pay[r])

(* A push waits for one request, which brings what its snapshot holds.     *)
AwaitedInv ==
  \A m \in wire : m.live =>
    /\ sess[m.by].phase = "wait"
    /\ \A r \in m.todo \cup m.ack : m.pay[r] = sess[m.by].snap[r].pay
    /\ \A n \in wire : n.live /\ n.by = m.by => n = m

GoneInv == \A r \in erased \ skipped :
  local[r].here \/ (slot[r].gen # 0 /\ slot[r].pay.del) \/ hub[r].del

OutboxInv == /\ TypeOK /\ LineageInv /\ HubInv /\ QueueInv /\ PushInv
             /\ WireInv /\ AwaitedInv /\ GoneInv /\ NoLostEdit

-----------------------------------------------------------------------------
(* What a step may do to a row, to its copies and to the hub's.            *)

Advances(r) ==
  /\ local'[r].pay.ver > local[r].pay.ver
  /\ local'[r].pay.edit >= local[r].pay.edit /\ local'[r].pay.edit <= ops'
  /\ local[r].pay.del => local'[r].pay.del
  /\ \/ local'[r].pending \/ local'[r].pay.del
     \/ /\ local[r].here /\ ~local[r].pending /\ hub'[r] = hub[r]
        /\ local'[r].pay.ver <= hub[r].ver /\ local'[r].pay.edit = local[r].pay.edit

LocalKind(r) ==
  \/ /\ local'[r].here = local[r].here /\ local'[r].pay = local[r].pay
     /\ \/ local'[r].pending = local[r].pending
        \/ \E p \in Procs : r \in sess[p].stamp /\ local[r].pay.ver = sess[p].snap[r].pay.ver
  \/ /\ local'[r].here
     /\ local[r].here => local'[r].pay.ver >= local[r].pay.ver
     /\ r \in erased \/ Advances(r)
  \/ r \in erased' /\ ~local'[r].here /\ slot'[r].gen # 0 /\ slot'[r].pay.del

SlotKind(r) ==
  \/ slot'[r].gen = slot[r].gen /\ slot'[r].pay = slot[r].pay
  \/ /\ slot'[r].gen # 0 /\ slot'[r].gen # slot[r].gen
     /\ \A p \in Procs : slot'[r].gen # sess[p].snap[r].gen
     /\ \/ local'[r].here /\ slot'[r].pay = local'[r].pay
        \/ r \in erased' /\ slot'[r].pay.del
  \/ /\ slot'[r] = NoSlot
     /\ \/ ~slot[r].pay.del
        \/ \E p \in Procs : r \in sess[p].acked /\ SameGen(p, r)

HubKind(r) ==
  \/ hub'[r] = hub[r]
  \/ \E m \in wire : /\ r \in m.todo /\ hub'[r] = m.pay[r]
                     /\ hub[r].ver = 0 \/ Wins(r, m.pay[r])
  \/ /\ hub[r].ver # 0 /\ ~hub[r].del
     /\ hub'[r].ver = hub[r].ver + 1 /\ hub'[r].edit = hub[r].edit

RowKind(r) ==
  /\ LocalKind(r) /\ SlotKind(r) /\ HubKind(r)
  /\ page'[r] \in {page[r], hub[r], Nothing}
  /\ r \in erased' => r \in erased \/ (~local'[r].here /\ slot'[r].gen # 0 /\ slot'[r].pay.del)

SessKind(p) ==
  /\ \A r \in Rows : sess'[p].snap[r] \in {sess[p].snap[r], slot[r], NoSlot}
  /\ \A r \in sess'[p].todo \cup sess'[p].batch : sess'[p].snap[r].gen # 0
  /\ \A r \in sess'[p].acked \cup sess'[p].stamp :
       \/ r \in sess[p].acked \cup sess[p].stamp /\ sess'[p].snap[r] = sess[p].snap[r]
       \/ \E m \in wire : r \in m.ack /\ m.pay[r] = sess'[p].snap[r].pay

WireKind(n) ==
  \/ \E m \in wire : /\ n.pay = m.pay /\ n.todo \subseteq m.todo
                     /\ \A r \in n.ack : r \in m.ack \/ CoveredNext(r, n.pay[r])
  \/ \E p \in Procs, B \in SUBSET Rows :
       n = Sent(p, B) /\ B \subseteq sess[p].todo \cup sess[p].batch

StepKind ==
  /\ ops' >= ops /\ erased \subseteq erased' /\ skipped \subseteq skipped'
  /\ \A r \in Rows : RowKind(r)
  /\ \A p \in Procs : SessKind(p)
  /\ \A n \in wire' : WireKind(n)

-----------------------------------------------------------------------------
(* Steps of these kinds preserve the invariant.                            *)

LEMMA CopyTyped ==
  ASSUME TypeOK, NEW r \in Rows, NEW x \in Copies(r)
  PROVE  x \in Payload /\ x.ver \in Nat /\ x.edit \in Nat /\ x.del \in BOOLEAN
<1>1. Nothing \in Payload
  BY SyncOutboxAssumption DEF Nothing, Payload
<1>2. \A p \in Procs : sess[p].snap[r].pay \in Payload
  BY PayloadOfSlot DEF TypeOK, Session
<1>3. \A m \in wire : m.pay[r] \in Payload
  BY DEF TypeOK, Request
<1>4. x \in Payload
  BY <1>1, <1>2, <1>3, RowTyped DEF Copies
<1> QED BY <1>4, SyncOutboxAssumption DEF Payload

LEMMA RowNumbers ==
  ASSUME TypeOK, NEW r \in Rows
  PROVE  /\ local[r].pay.ver \in Nat /\ local[r].pay.edit \in Nat /\ local[r].pay.del \in BOOLEAN
         /\ hub[r].ver \in Nat /\ hub[r].edit \in Nat /\ hub[r].del \in BOOLEAN
         /\ slot[r].pay.ver \in Nat /\ slot[r].pay.del \in BOOLEAN /\ slot[r].gen \in Nat
         /\ page[r].ver \in Nat /\ page[r].del \in BOOLEAN /\ ops \in Nat
BY RowTyped, PayloadOfSlot, SyncOutboxAssumption DEF Payload, TypeOK

LEMMA HubForward ==
  ASSUME OutboxInv, TypeOK', NEW r \in Rows, HubKind(r)
  PROVE  /\ hub'[r].ver >= hub[r].ver
         /\ hub[r].del => hub'[r].del
         /\ r \notin erased => hub'[r].edit >= hub[r].edit
<1>1. hub[r].ver \in Nat /\ hub[r].edit \in Nat /\ TypeOK
  BY RowNumbers DEF OutboxInv
<1>2. CASE hub'[r] = hub[r]
  BY <1>1, <1>2
<1>3. ASSUME NEW m \in wire, r \in m.todo, hub'[r] = m.pay[r], hub[r].ver = 0 \/ Wins(r, m.pay[r])
      PROVE  /\ hub'[r].ver >= hub[r].ver
             /\ hub[r].del => hub'[r].del
             /\ r \notin erased => hub'[r].edit >= hub[r].edit
  <2>1. m.pay[r] \in Copies(r)
    BY DEF Copies
  <2>2. m.pay[r].ver \in Nat /\ m.pay[r].edit \in Nat
    BY <1>1, <2>1, CopyTyped
  <2>3. m.pay[r].ver >= hub[r].ver
    BY <1>1, <1>3, <2>2 DEF Wins
  <2>4. hub[r].del => hub'[r].del
    <3>1. CASE hub[r].ver = 0
      <4>1. hub[r] = Nothing
        BY <3>1 DEF OutboxInv, HubInv
      <4> QED BY <4>1 DEF Nothing
    <3>2. CASE Wins(r, m.pay[r])
      BY <1>3, <3>2 DEF Wins
    <3> QED BY <1>3, <3>1, <3>2
  <2>5. r \notin erased => m.pay[r].edit >= hub[r].edit
    BY <2>1, <2>3 DEF OutboxInv, LineageInv, Lined
  <2> QED BY <1>3, <2>3, <2>4, <2>5
<1>4. CASE /\ hub[r].ver # 0 /\ ~hub[r].del
           /\ hub'[r].ver = hub[r].ver + 1 /\ hub'[r].edit = hub[r].edit
  BY <1>1, <1>4
<1> QED BY <1>2, <1>3, <1>4 DEF HubKind

LEMMA StaysCovered ==
  ASSUME OutboxInv, TypeOK', NEW r \in Rows, HubKind(r), NEW x \in Payload, Covered(r, x),
         erased \subseteq erased', skipped \subseteq skipped'
  PROVE  CoveredNext(r, x)
<1>1. /\ hub[r].ver \in Nat /\ hub[r].edit \in Nat /\ hub'[r].ver \in Nat /\ hub'[r].edit \in Nat
      /\ x.ver \in Nat /\ x.edit \in Nat
  BY RowNumbers, SyncOutboxAssumption DEF OutboxInv, TypeOK, Payload
<1>2. CASE x.del
  BY <1>2, HubForward DEF Covered, CoveredNext
<1>3. CASE ~x.del
  BY <1>1, <1>3, HubForward DEF Covered, CoveredNext
<1> QED BY <1>2, <1>3

LEMMA CopiesStep ==
  ASSUME OutboxInv, StepKind, NEW r \in Rows \ erased'
  PROVE  Copies(r)' \subseteq Copies(r) \cup {local'[r].pay}
<1> SUFFICES ASSUME NEW x \in Copies(r)' PROVE x \in Copies(r) \cup {local'[r].pay}
  OBVIOUS
<1>1. RowKind(r) /\ Nothing \in Copies(r) /\ NoSlot.pay = Nothing
  BY DEF StepKind, Copies, NoSlot
<1>2. slot'[r].pay \in Copies(r) \cup {local'[r].pay}
  BY <1>1 DEF RowKind, SlotKind, Copies
<1>3. ASSUME NEW p \in Procs PROVE sess'[p].snap[r].pay \in Copies(r)
  BY <1>1 DEF StepKind, SessKind, Copies
<1>4. ASSUME NEW n \in wire' PROVE n.pay[r] \in Copies(r)
  <2>1. ASSUME NEW m \in wire, n.pay = m.pay PROVE n.pay[r] \in Copies(r)
    BY <2>1 DEF Copies
  <2>2. ASSUME NEW p \in Procs, NEW B \in SUBSET Rows, n = Sent(p, B) PROVE n.pay[r] \in Copies(r)
    BY <2>2, <1>1 DEF Sent, Copies
  <2> QED BY <2>1, <2>2 DEF StepKind, WireKind
<1>5. x \in {Nothing, local'[r].pay, slot'[r].pay} \/ (\E p \in Procs : x = sess'[p].snap[r].pay) \/ (\E n \in wire' : x = n.pay[r])
  BY DEF Copies
<1> QED BY <1>1, <1>2, <1>3, <1>4, <1>5

(* History goes on: the last moment is kept or followed by a later one,    *)
(* and the hub's is kept, taken from the copies or merged with a change of *)
(* the hub's own.                                                          *)
LEMMA LinedStep ==
  ASSUME NEW C, NEW D, NEW l, NEW k, NEW h, NEW g, Lined(C, l, h),
         l \in C, D \subseteq C \cup {k},
         \A x \in C \cup {k, g, h} : x.ver \in Nat /\ x.edit \in Nat,
         k = l \/ (k.ver > l.ver /\ k.edit >= l.edit),
         \/ g = h
         \/ g \in C /\ g.ver >= h.ver
         \/ g.ver > h.ver /\ g.edit = h.edit
  PROVE  Lined(D, k, g)
<1>1. k \in C \/ \A x \in C : x.ver < k.ver /\ x.edit <= k.edit
  BY DEF Lined
<1>2. \A x \in C : x.ver <= k.ver
  BY DEF Lined
<1>3. \A x, y \in C \cup {k} : (x.ver <= y.ver => x.edit <= y.edit) /\ (x.ver = y.ver => x = y)
  <2>1. CASE k \in C
    BY <2>1 DEF Lined
  <2>2. CASE \A x \in C : x.ver < k.ver /\ x.edit <= k.edit
    BY <2>2 DEF Lined
  <2> QED BY <1>1, <2>1, <2>2
<1>4. g.edit <= k.edit
  BY DEF Lined
<1>5. \A x \in C \cup {k} : x.ver >= g.ver => x.edit >= g.edit
  <2> TAKE x \in C \cup {k}
  <2> HAVE x.ver >= g.ver
  <2>1. CASE x = k
    BY <2>1, <1>4
  <2>2. CASE x \in C /\ g \in C
    BY <2>2 DEF Lined
  <2>3. CASE x \in C /\ g.ver >= h.ver /\ g.edit = h.edit
    BY <2>3 DEF Lined
  <2> QED BY <2>1, <2>2, <2>3
<1> QED BY <1>2, <1>3, <1>4, <1>5 DEF Lined

LEMMA RowTypedNext ==
  ASSUME TypeOK', NEW r \in Rows
  PROVE  local'[r].pay \in Payload /\ slot'[r].pay \in Payload /\ hub'[r] \in Payload
<1>1. local'[r] \in LocalRow /\ slot'[r] \in Slot /\ hub'[r] \in Payload
  BY DEF TypeOK
<1>2. Nothing \in Payload
  BY SyncOutboxAssumption DEF Nothing, Payload
<1>3. local'[r].pay \in Payload
  <2>1. CASE local'[r] = NoRow
    BY <1>2, <2>1 DEF NoRow
  <2>2. CASE local'[r] \in [here : {TRUE}, pay : {pay \in Payload : pay.ver # 0}, pending : BOOLEAN]
    BY <2>2
  <2> QED BY <1>1, <2>1, <2>2 DEF LocalRow
<1> QED BY <1>1, <1>3, PayloadOfSlot

LEMMA LineageStep ==
  ASSUME OutboxInv, StepKind, TypeOK'
  PROVE  LineageInv'
<1> SUFFICES ASSUME NEW r \in Rows \ erased'
             PROVE  /\ Lined(Copies(r)', local'[r].pay, hub'[r])
                    /\ ~local'[r].here => hub'[r].ver = 0
                    /\ local'[r].pay.edit <= ops'
  BY DEF LineageInv, Lined
<1>1. /\ r \in Rows /\ r \notin erased /\ RowKind(r) /\ ops' >= ops /\ TypeOK
      /\ Lined(Copies(r), local[r].pay, hub[r]) /\ local[r].pay.edit <= ops
      /\ ~local[r].here => hub[r].ver = 0
  BY DEF StepKind, OutboxInv, LineageInv
<1>2. /\ local[r].pay \in Payload /\ hub[r] \in Payload /\ local'[r].pay \in Payload /\ hub'[r] \in Payload
      /\ ops \in Nat /\ ops' \in Nat
  BY <1>1, RowTyped, RowTypedNext, SyncOutboxAssumption DEF TypeOK
<1>3. \A x \in Payload : x.ver \in Nat /\ x.edit \in Nat
  BY SyncOutboxAssumption DEF Payload
<1>4. \/ local'[r].here = local[r].here /\ local'[r].pay = local[r].pay
      \/ local'[r].here /\ Advances(r)
  BY <1>1 DEF RowKind, LocalKind
<1>5. local'[r].pay.edit <= ops'
  BY <1>1, <1>2, <1>3, <1>4 DEF Advances
<1>6. ~local'[r].here => hub'[r].ver = 0
  <2> SUFFICES ASSUME ~local'[r].here PROVE hub'[r].ver = 0
    OBVIOUS
  <2>1. ~local[r].here /\ hub[r].ver = 0 /\ local[r].pay.ver = 0
    BY <1>1, <1>4, RowTyped DEF NoRow, Nothing
  <2>2. ASSUME NEW m \in wire, r \in m.todo PROVE FALSE
    <3>1. m.pay[r] \in Copies(r) /\ m.pay[r].ver # 0
      BY <2>2 DEF Copies, OutboxInv, WireInv
    <3>2. m.pay[r].ver \in Nat /\ m.pay[r].ver <= local[r].pay.ver
      BY <1>1, <3>1, CopyTyped DEF Lined
    <3> QED BY <2>1, <3>1, <3>2
  <2> QED BY <1>1, <2>1, <2>2 DEF RowKind, HubKind
<1>7. \/ hub'[r] = hub[r]
      \/ hub'[r] \in Copies(r) /\ hub'[r].ver >= hub[r].ver
      \/ hub'[r].ver > hub[r].ver /\ hub'[r].edit = hub[r].edit
  <2>1. ASSUME NEW m \in wire, hub'[r] = m.pay[r] PROVE hub'[r] \in Copies(r)
    BY <2>1 DEF Copies
  <2>2. hub'[r].ver >= hub[r].ver
    BY <1>1, HubForward DEF RowKind
  <2> QED BY <1>1, <1>2, <1>3, <2>1, <2>2 DEF RowKind, HubKind
<1>8. Copies(r)' \subseteq Copies(r) \cup {local'[r].pay}
  BY CopiesStep
<1>9. \A x \in Copies(r) : x.ver \in Nat /\ x.edit \in Nat
  BY <1>1, CopyTyped
<1>10. local[r].pay \in Copies(r)
  BY DEF Copies
<1>11. local'[r].pay = local[r].pay
       \/ (local'[r].pay.ver > local[r].pay.ver /\ local'[r].pay.edit >= local[r].pay.edit)
  BY <1>4 DEF Advances
<1>12. Lined(Copies(r)', local'[r].pay, hub'[r])
  BY <1>1, <1>2, <1>3, <1>7, <1>8, <1>9, <1>10, <1>11, LinedStep
<1> QED BY <1>5, <1>6, <1>12

LEMMA HubInvStep ==
  ASSUME OutboxInv, StepKind, TypeOK'
  PROVE  HubInv'
<1> SUFFICES ASSUME NEW r \in Rows
             PROVE  (hub'[r].ver = 0 => hub'[r] = Nothing) /\ page'[r].ver <= hub'[r].ver
  BY DEF HubInv
<1>1. RowKind(r) /\ TypeOK /\ (hub[r].ver = 0 => hub[r] = Nothing) /\ page[r].ver <= hub[r].ver
  BY DEF StepKind, OutboxInv, HubInv
<1>2. hub[r].ver \in Nat /\ hub'[r].ver \in Nat /\ page[r].ver \in Nat
  BY <1>1, RowNumbers DEF TypeOK, Payload
<1>3. hub'[r].ver >= hub[r].ver
  BY <1>1, HubForward DEF RowKind
<1>4. hub'[r].ver = 0 => hub'[r] = hub[r]
  BY <1>1, <1>2 DEF RowKind, HubKind, OutboxInv, WireInv
<1>5. page'[r].ver <= hub'[r].ver
  BY <1>1, <1>2, <1>3 DEF RowKind, Nothing
<1> QED BY <1>1, <1>4, <1>5

LEMMA QueueStep ==
  ASSUME OutboxInv, StepKind, TypeOK'
  PROVE  QueueInv'
<1> SUFFICES ASSUME NEW r \in Rows
             PROVE  /\ slot'[r].gen # 0 /\ ~slot'[r].pay.del
                         => local'[r].here /\ slot'[r].pay.ver <= local'[r].pay.ver
                    /\ \A p \in Procs : SameGen(p, r)' => slot'[r].pay = sess'[p].snap[r].pay
  BY DEF QueueInv
<1>1. /\ RowKind(r) /\ TypeOK
      /\ slot[r].gen # 0 /\ ~slot[r].pay.del
           => local[r].here /\ slot[r].pay.ver <= local[r].pay.ver
      /\ \A p \in Procs : SameGen(p, r) => slot[r].pay = sess[p].snap[r].pay
  BY DEF StepKind, OutboxInv, QueueInv
<1>2. /\ local[r].pay.ver \in Nat /\ local'[r].pay.ver \in Nat
      /\ slot[r].pay.ver \in Nat /\ slot'[r].pay.ver \in Nat
  BY <1>1, RowTyped, RowTypedNext DEF Payload
<1>3. NoSlot.gen = 0
  BY DEF NoSlot
<1>4. ASSUME slot'[r].gen # 0, ~slot'[r].pay.del
      PROVE  local'[r].here /\ slot'[r].pay.ver <= local'[r].pay.ver
  <2>1. \/ slot'[r].gen = slot[r].gen /\ slot'[r].pay = slot[r].pay
        \/ local'[r].here /\ slot'[r].pay = local'[r].pay
    BY <1>1, <1>3, <1>4 DEF RowKind, SlotKind
  <2>2. \/ local'[r].here = local[r].here /\ local'[r].pay = local[r].pay
        \/ local'[r].here /\ (local[r].here => local'[r].pay.ver >= local[r].pay.ver)
    BY <1>1, <1>4 DEF RowKind, LocalKind
  <2> QED BY <1>1, <1>2, <1>4, <2>1, <2>2
<1>5. ASSUME NEW p \in Procs, SameGen(p, r)' PROVE slot'[r].pay = sess'[p].snap[r].pay
  <2>1. slot'[r].gen # 0 /\ slot'[r].gen = sess'[p].snap[r].gen
    BY <1>5 DEF SameGen
  <2>2. sess'[p].snap[r] \in {sess[p].snap[r], slot[r], NoSlot}
    BY DEF StepKind, SessKind
  <2>3. slot'[r].gen = slot[r].gen /\ slot'[r].pay = slot[r].pay
    BY <1>1, <1>3, <2>1, <2>2 DEF RowKind, SlotKind
  <2> QED BY <1>1, <1>3, <2>1, <2>2, <2>3 DEF SameGen
<1> QED BY <1>4, <1>5

LEMMA SnapTyped ==
  ASSUME TypeOK, NEW p \in Procs, NEW r \in Rows
  PROVE  sess[p].snap[r] \in Slot /\ sess[p].snap[r].pay \in Payload
BY PayloadOfSlot DEF TypeOK, Session

LEMMA PushStepInv ==
  ASSUME OutboxInv, StepKind, TypeOK'
  PROVE  PushInv'
<1> SUFFICES ASSUME NEW p \in Procs
             PROVE  /\ \A r \in sess'[p].todo \cup sess'[p].batch : sess'[p].snap[r].gen # 0
                    /\ \A r \in sess'[p].acked \cup sess'[p].stamp : CoveredNext(r, sess'[p].snap[r].pay)
  BY DEF PushInv, Covered, CoveredNext
<1>1. SessKind(p) /\ TypeOK
  BY DEF StepKind, OutboxInv
<1>2. ASSUME NEW r \in sess'[p].acked \cup sess'[p].stamp PROVE CoveredNext(r, sess'[p].snap[r].pay)
  <2>1. r \in Rows
    BY DEF TypeOK, Session
  <2>2. sess'[p].snap[r].pay \in Payload
    BY <2>1, PayloadOfSlot DEF TypeOK, Session
  <2>3. Covered(r, sess'[p].snap[r].pay)
    BY <1>1, <2>1 DEF SessKind, OutboxInv, PushInv, WireInv
  <2>4. HubKind(r) /\ erased \subseteq erased' /\ skipped \subseteq skipped'
    BY <2>1 DEF StepKind, RowKind
  <2> QED BY <2>1, <2>2, <2>3, <2>4, StaysCovered
<1> QED BY <1>1, <1>2 DEF SessKind

LEMMA WireStep ==
  ASSUME OutboxInv, StepKind, TypeOK'
  PROVE  WireInv'
<1> SUFFICES ASSUME NEW n \in wire'
             PROVE  /\ \A r \in n.todo : n.pay[r].ver # 0
                    /\ \A r \in n.ack : CoveredNext(r, n.pay[r])
  BY DEF WireInv, Covered, CoveredNext
<1>1. WireKind(n) /\ TypeOK
  BY DEF StepKind, OutboxInv
<1>2. ASSUME NEW m \in wire, n.pay = m.pay, n.todo \subseteq m.todo,
             \A r \in n.ack : r \in m.ack \/ CoveredNext(r, n.pay[r])
      PROVE  /\ \A r \in n.todo : n.pay[r].ver # 0
             /\ \A r \in n.ack : CoveredNext(r, n.pay[r])
  <2>1. ASSUME NEW r \in n.ack, r \in m.ack PROVE CoveredNext(r, n.pay[r])
    <3>1. r \in Rows /\ m.pay[r] \in Payload
      BY <1>1, <2>1 DEF TypeOK, Request
    <3>2. HubKind(r) /\ erased \subseteq erased' /\ skipped \subseteq skipped'
      BY <3>1 DEF StepKind, RowKind
    <3>3. Covered(r, m.pay[r])
      BY <2>1 DEF OutboxInv, WireInv
    <3>4. CoveredNext(r, m.pay[r])
      BY <3>1, <3>2, <3>3, StaysCovered
    <3> QED BY <1>2, <3>4
  <2> QED BY <1>2, <2>1 DEF OutboxInv, WireInv
<1>3. ASSUME NEW p \in Procs, NEW B \in SUBSET Rows, n = Sent(p, B), B \subseteq sess[p].todo \cup sess[p].batch
      PROVE  /\ \A r \in n.todo : n.pay[r].ver # 0
             /\ \A r \in n.ack : CoveredNext(r, n.pay[r])
  <2>1. n.todo = B /\ n.ack = {} /\ \A r \in B : n.pay[r] = sess[p].snap[r].pay
    BY <1>3 DEF Sent
  <2>2. \A r \in B : sess[p].snap[r].gen # 0
    BY <1>3 DEF OutboxInv, PushInv
  <2>3. \A r \in B : sess[p].snap[r].pay.ver # 0
    BY <1>1, <2>2, SnapTyped, PayloadOfSlot
  <2> QED BY <2>1, <2>3
<1> QED BY <1>1, <1>2, <1>3 DEF WireKind

LEMMA GoneStep ==
  ASSUME OutboxInv, StepKind, TypeOK'
  PROVE  GoneInv'
<1> SUFFICES ASSUME NEW r \in erased' \ skipped', ~local'[r].here, ~hub'[r].del
             PROVE  slot'[r].gen # 0 /\ slot'[r].pay.del
  BY DEF GoneInv
<1>1. r \in Rows /\ r \notin skipped /\ TypeOK
  BY DEF TypeOK, StepKind, OutboxInv
<1>2. RowKind(r) /\ erased \subseteq erased' /\ skipped \subseteq skipped'
  BY <1>1 DEF StepKind
<1>3. CASE r \notin erased
  BY <1>2, <1>3 DEF RowKind
<1>4. CASE r \in erased
  <2>1. CASE local[r].here
    BY <1>2, <2>1 DEF RowKind, LocalKind
  <2>2. CASE ~local[r].here
    <3>1. ~hub[r].del
      BY <1>1, <1>2, HubForward DEF RowKind
    <3>2. slot[r].gen # 0 /\ slot[r].pay.del
      BY <1>1, <1>4, <2>2, <3>1 DEF OutboxInv, GoneInv
    <3>3. ASSUME NEW p \in Procs, r \in sess[p].acked, SameGen(p, r) PROVE FALSE
      <4>1. slot[r].pay = sess[p].snap[r].pay /\ Covered(r, sess[p].snap[r].pay)
        BY <1>1, <3>3 DEF OutboxInv, QueueInv, PushInv
      <4> QED BY <1>1, <3>1, <3>2, <4>1 DEF Covered
    <3> QED BY <1>2, <3>2, <3>3 DEF RowKind, SlotKind
  <2> QED BY <2>1, <2>2
<1> QED BY <1>3, <1>4

LEMMA EditStep ==
  ASSUME OutboxInv, StepKind, TypeOK'
  PROVE  NoLostEdit'
<1> SUFFICES ASSUME NEW r \in Rows \ erased', local'[r].here, ~local'[r].pay.del, ~local'[r].pending
             PROVE  hub'[r].ver >= local'[r].pay.ver /\ hub'[r].edit >= local'[r].pay.edit
  BY DEF NoLostEdit
<1>1. /\ r \in Rows /\ r \notin erased /\ RowKind(r) /\ TypeOK
      /\ Lined(Copies(r), local[r].pay, hub[r])
  BY DEF StepKind, OutboxInv, LineageInv
<1>2. /\ hub'[r].ver >= hub[r].ver /\ hub'[r].edit >= hub[r].edit
  BY <1>1, HubForward DEF RowKind
<1>3. /\ hub[r].ver \in Nat /\ hub[r].edit \in Nat /\ local[r].pay.ver \in Nat /\ local[r].pay.edit \in Nat
  BY <1>1, RowNumbers
<1>4. hub'[r].ver \in Nat /\ hub'[r].edit \in Nat
  BY <1>1, SyncOutboxAssumption DEF TypeOK, Payload
<1>5. (local[r].here /\ ~local[r].pay.del /\ ~local[r].pending)
        => hub[r].ver >= local[r].pay.ver /\ hub[r].edit >= local[r].pay.edit
  BY <1>1 DEF OutboxInv, NoLostEdit
<1>6. CASE local'[r].here = local[r].here /\ local'[r].pay = local[r].pay /\ local'[r].pending = local[r].pending
  BY <1>2, <1>3, <1>4, <1>5, <1>6
<1>7. ASSUME local'[r].pay = local[r].pay, NEW p \in Procs, r \in sess[p].stamp,
             local[r].pay.ver = sess[p].snap[r].pay.ver
      PROVE  hub'[r].ver >= local'[r].pay.ver /\ hub'[r].edit >= local'[r].pay.edit
  <2>1. local[r].pay \in Copies(r) /\ sess[p].snap[r].pay \in Copies(r)
    BY DEF Copies
  <2>2. local[r].pay = sess[p].snap[r].pay
    BY <1>1, <1>7, <2>1 DEF Lined
  <2>3. Covered(r, local[r].pay)
    BY <1>7, <2>2 DEF OutboxInv, PushInv
  <2> QED BY <1>1, <1>2, <1>3, <1>4, <1>7, <2>3 DEF Covered
<1>8. CASE Advances(r)
  <2>1. /\ ~local[r].pay.del /\ local[r].here /\ ~local[r].pending /\ hub'[r] = hub[r]
        /\ local'[r].pay.ver <= hub[r].ver /\ local'[r].pay.edit = local[r].pay.edit
    BY <1>8 DEF Advances
  <2> QED BY <1>3, <1>5, <2>1
<1> QED BY <1>1, <1>6, <1>7, <1>8 DEF RowKind, LocalKind

LEMMA KindPreserves ==
  ASSUME OutboxInv, StepKind, TypeOK', AwaitedInv'
  PROVE  OutboxInv'
BY LineageStep, HubInvStep, QueueStep, PushStepInv, WireStep, GoneStep, EditStep DEF OutboxInv

-----------------------------------------------------------------------------
(* Every step is of these kinds: first what a step leaves alone.           *)

LEMMA LocalStays == ASSUME local' = local PROVE \A r \in Rows : LocalKind(r)
BY DEF LocalKind

LEMMA SlotStays == ASSUME slot' = slot PROVE \A r \in Rows : SlotKind(r)
BY DEF SlotKind

LEMMA HubStays == ASSUME hub' = hub PROVE \A r \in Rows : HubKind(r)
BY DEF HubKind

LEMMA SessStays == ASSUME OutboxInv, sess' = sess PROVE \A p \in Procs : SessKind(p)
<1> SUFFICES ASSUME NEW p \in Procs PROVE SessKind(p)
  OBVIOUS
<1> QED BY DEF SessKind, OutboxInv, PushInv

LEMMA OtherSess ==
  ASSUME OutboxInv, NEW p \in Procs, GoesOn(p), SessKind(p)
  PROVE  \A q \in Procs : SessKind(q)
<1> SUFFICES ASSUME NEW q \in Procs, q # p PROVE SessKind(q)
  OBVIOUS
<1> QED BY DEF GoesOn, SessKind, OutboxInv, PushInv

LEMMA WireStays == ASSUME wire' \subseteq wire PROVE \A n \in wire' : WireKind(n)
BY DEF WireKind

LEMMA AwaitedStays ==
  ASSUME OutboxInv, wire' \subseteq wire, sess' = sess
  PROVE  AwaitedInv'
BY DEF OutboxInv, AwaitedInv

(* A push that waits for no request may go on with another phase.          *)
LEMMA AwaitedElsewhere ==
  ASSUME OutboxInv, NEW p \in Procs, GoesOn(p), wire' \subseteq wire,
         \A m \in wire' : m.live => m.by # p
  PROVE  AwaitedInv'
<1>1. \A m \in wire : m.by \in Procs
  BY DEF OutboxInv, TypeOK, Request
<1>2. \A m \in wire' : m.live => sess'[m.by] = sess[m.by]
  BY <1>1 DEF GoesOn
<1> QED BY <1>2 DEF OutboxInv, AwaitedInv

LEMMA NotWaiting ==
  ASSUME OutboxInv, NEW p \in Procs, sess[p].phase # "wait"
  PROVE  \A m \in wire : m.live => m.by # p
BY DEF OutboxInv, AwaitedInv

(* A row that is written and queued.                                       *)
LEMMA AddKind ==
  ASSUME TypeOK, NEW r \in Rows, NEW pay \in Payload, pay.ver # 0, slot'[r] = Add(r, pay),
         local'[r].here /\ local'[r].pay = pay
  PROVE  SlotKind(r)
<1>1. CASE Add(r, pay) = slot[r]
  BY <1>1 DEF SlotKind
<1>2. CASE Add(r, pay).gen = FreshGen(r) /\ Add(r, pay).pay = pay
  BY <1>2, FreshToken DEF SlotKind
<1> QED BY <1>1, <1>2, AddKeepsOrTakes

LEMMA OtherRows ==
  ASSUME TypeOK, NEW r \in Rows,
         \/ local' = local
         \/ \E row : local' = [local EXCEPT ![r] = row],
         \/ slot' = slot
         \/ \E s : slot' = [slot EXCEPT ![r] = s]
  PROVE  \A q \in Rows \ {r} : LocalKind(q) /\ SlotKind(q)
<1> SUFFICES ASSUME NEW q \in Rows \ {r} PROVE LocalKind(q) /\ SlotKind(q)
  OBVIOUS
<1>1. local'[q] = local[q] /\ slot'[q] = slot[q]
  BY DEF TypeOK
<1> QED BY <1>1 DEF LocalKind, SlotKind

(* A local write to a row of which nothing reached another place.          *)
LEMMA WriteStep ==
  ASSUME OutboxInv, NEW r \in Rows, LocalKind(r), SlotKind(r),
         \/ local' = local
         \/ \E row : local' = [local EXCEPT ![r] = row],
         \/ slot' = slot
         \/ \E s : slot' = [slot EXCEPT ![r] = s],
         r \in erased' => r \in erased \/ (~local'[r].here /\ slot'[r].gen # 0 /\ slot'[r].pay.del),
         erased \subseteq erased', erased' \subseteq erased \cup {r},
         ops' >= ops, UNCHANGED <<hub, sess, wire, skipped>>,
         \A q \in Rows : page'[q] \in {page[q], hub[q], Nothing}
  PROVE  StepKind /\ AwaitedInv'
<1>1. TypeOK
  BY DEF OutboxInv
<1>2. \A q \in Rows : LocalKind(q) /\ SlotKind(q)
  BY <1>1, OtherRows
<1>3. \A q \in Rows : HubKind(q)
  BY HubStays
<1>4. \A q \in Rows : RowKind(q)
  BY <1>2, <1>3 DEF RowKind
<1>5. \A p \in Procs : SessKind(p)
  BY SessStays
<1>6. \A n \in wire' : WireKind(n)
  BY WireStays
<1>7. AwaitedInv'
  BY AwaitedStays
<1> QED BY <1>1, <1>4, <1>5, <1>6, <1>7 DEF StepKind

LEMMA StoredRow ==
  ASSUME TypeOK, NEW r \in Rows, NEW pay, NEW b, Stored(r, pay, b)
  PROVE  local'[r].here = TRUE /\ local'[r].pay = pay /\ local'[r].pending = b
BY DEF Stored, TypeOK

LEMMA EnqueuedSlot ==
  ASSUME TypeOK, NEW r \in Rows, NEW pay, Enqueue(r, pay)
  PROVE  slot'[r] = Add(r, pay)
BY DEF Enqueue, TypeOK

(* A new local version with the newest edit.                               *)
LEMMA EditKind ==
  ASSUME OutboxInv, NEW r \in Rows, local[r].here, NEW del \in BOOLEAN, local[r].pay.del => del,
         Operates, Stored(r, Edited(r, del), TRUE)
  PROVE  LocalKind(r)
<1>1. TypeOK
  BY DEF OutboxInv
<1>2. local[r].pay.ver \in Nat /\ local[r].pay.edit \in Nat /\ ops \in Nat
  BY <1>1, RowNumbers
<1>3. /\ local'[r].here = TRUE /\ local'[r].pay = Edited(r, del) /\ local'[r].pending = TRUE
  BY <1>1, StoredRow
<1>4. Edited(r, del).ver = local[r].pay.ver + 1 /\ Edited(r, del).del = del /\ Edited(r, del).edit = ops + 1
  BY DEF Edited
<1>5. r \notin erased => local[r].pay.edit <= ops
  BY DEF OutboxInv, LineageInv
<1>6. ops' = ops + 1
  BY DEF Operates
<1>7. /\ local'[r].pay.ver > local[r].pay.ver /\ local'[r].pay.ver >= local[r].pay.ver
      /\ r \notin erased => local'[r].pay.edit >= local[r].pay.edit
      /\ local'[r].pay.edit <= ops'
  BY <1>2, <1>3, <1>4, <1>5, <1>6
<1>8. local[r].pay.del => local'[r].pay.del
  BY <1>3, <1>4
<1>9. local'[r].here /\ local'[r].pending
  BY <1>3
<1>10. r \in erased \/ Advances(r)
  BY <1>7, <1>8, <1>9 DEF Advances
<1> QED BY <1>7, <1>9, <1>10 DEF LocalKind

LEMMA LocalWriteKind ==
  ASSUME OutboxInv, LocalWrite
  PROVE  StepKind /\ AwaitedInv'
<1>t. TypeOK
  BY DEF OutboxInv
<1>o. Operates => ops' >= ops
  BY <1>t, SyncOutboxAssumption DEF Operates, TypeOK
<1>1. ASSUME NEW r \in Rows, Create(r) PROVE StepKind /\ AwaitedInv'
  <2> DEFINE pay == [ver |-> 1, del |-> FALSE, edit |-> ops + 1]
  <2>1. /\ Operates /\ ~local[r].here
        /\ Stored(r, pay, TRUE) /\ Enqueue(r, pay) /\ UNCHANGED <<erased, remote>>
    BY <1>1 DEF Create
  <2>2. pay \in Payload /\ pay.ver # 0 /\ pay.ver = 1 /\ ~pay.del /\ pay.edit = ops + 1
    BY <2>1, <1>t, SyncOutboxAssumption DEF Operates, Payload, TypeOK
  <2> HIDE DEF pay
  <2>3. local'[r].here = TRUE /\ local'[r].pay = pay /\ local'[r].pending = TRUE
    BY <2>1, <1>t, StoredRow
  <2>4. local[r].pay.ver = 0 /\ local[r].pay.edit = 0 /\ ~local[r].pay.del
    BY <2>1, <1>t, RowTyped DEF NoRow, Nothing
  <2>5. LocalKind(r)
    <3>1. ops \in Nat /\ ops' = ops + 1
      BY <1>t, <2>1, SyncOutboxAssumption DEF Operates, TypeOK
    <3> QED BY <2>1, <2>2, <2>3, <2>4, <3>1 DEF LocalKind, Advances
  <2>6. SlotKind(r)
    BY <1>t, <2>1, <2>2, <2>3, AddKind, EnqueuedSlot
  <2> QED BY <1>o, <2>1, <2>5, <2>6, WriteStep DEF Stored, Enqueue, remote
<1>2. ASSUME NEW r \in Rows, Save(r) PROVE StepKind /\ AwaitedInv'
  <2> DEFINE pay == Edited(r, local[r].pay.del)
  <2>1. /\ Operates /\ local[r].here /\ local[r].pay.del \in BOOLEAN
        /\ Stored(r, pay, TRUE) /\ Enqueue(r, pay) /\ UNCHANGED <<erased, remote>>
    BY <1>2, <1>t, RowNumbers DEF Save
  <2>2. LocalKind(r)
    BY <2>1, EditKind
  <2>3. pay \in Payload /\ pay.ver # 0
    BY <1>t, <2>1, EditedTyped
  <2> HIDE DEF pay
  <2>4. SlotKind(r)
    BY <1>t, <2>1, <2>3, AddKind, EnqueuedSlot, StoredRow
  <2> QED BY <1>o, <2>1, <2>2, <2>4, WriteStep DEF Stored, Enqueue, remote
<1>3. ASSUME NEW r \in Rows, SaveUnqueued(r) PROVE StepKind /\ AwaitedInv'
  <2>1. /\ Operates /\ local[r].here /\ local[r].pay.del \in BOOLEAN
        /\ Stored(r, Edited(r, local[r].pay.del), TRUE) /\ UNCHANGED <<slot, erased, remote>>
    BY <1>3, <1>t, RowNumbers DEF SaveUnqueued
  <2>2. LocalKind(r) /\ SlotKind(r)
    BY <2>1, EditKind, SlotStays
  <2> QED BY <1>o, <2>1, <2>2, WriteStep DEF Stored, remote
<1>4. ASSUME NEW r \in Rows, SoftDelete(r) PROVE StepKind /\ AwaitedInv'
  <2> DEFINE pay == Edited(r, TRUE)
  <2>1. /\ Operates /\ local[r].here
        /\ Stored(r, pay, TRUE) /\ Enqueue(r, pay) /\ UNCHANGED <<erased, remote>>
    BY <1>4 DEF SoftDelete
  <2>2. LocalKind(r)
    BY <2>1, EditKind
  <2>3. pay \in Payload /\ pay.ver # 0
    BY <1>t, <2>1, EditedTyped
  <2> HIDE DEF pay
  <2>4. SlotKind(r)
    BY <1>t, <2>1, <2>3, AddKind, EnqueuedSlot, StoredRow
  <2> QED BY <1>o, <2>1, <2>2, <2>4, WriteStep DEF Stored, Enqueue, remote
<1>5. ASSUME NEW r \in Rows, HardDelete(r) PROVE StepKind /\ AwaitedInv'
  <2> DEFINE pay == Tombstone(r)
  <2>1. /\ Operates /\ local[r].here
        /\ local' = [local EXCEPT ![r] = NoRow] /\ Enqueue(r, pay)
        /\ erased' = erased \cup {r} /\ UNCHANGED remote
    BY <1>5 DEF HardDelete
  <2>2. pay \in Payload /\ pay.ver # 0 /\ pay.del = TRUE /\ pay.ver = local[r].pay.ver + 1
    BY <1>t, TombstoneTyped DEF Tombstone
  <2> HIDE DEF pay
  <2>3. ~local'[r].here /\ r \in erased'
    BY <2>1, <1>t DEF TypeOK, NoRow
  <2>4. slot'[r] = Add(r, pay)
    BY <1>t, <2>1, EnqueuedSlot
  <2>5. slot'[r].gen # 0 /\ slot'[r].pay.del
    <3>1. CASE Add(r, pay).gen = FreshGen(r) /\ Add(r, pay).pay = pay
      BY <1>t, <2>2, <2>4, <3>1, FreshToken
    <3>2. CASE Add(r, pay) = slot[r] /\ slot[r].gen # 0 /\ (pay.ver < slot[r].pay.ver \/ pay = slot[r].pay)
      <4>1. local[r].pay.ver \in Nat /\ slot[r].pay.ver \in Nat
        BY <1>t, RowNumbers
      <4>2. ~slot[r].pay.del => slot[r].pay.ver <= local[r].pay.ver
        BY <3>2 DEF OutboxInv, QueueInv
      <4>3. slot[r].pay.del
        BY <2>2, <3>2, <4>1, <4>2
      <4> QED BY <2>4, <3>2, <4>3
    <3> QED BY <1>t, <2>2, <3>1, <3>2, AddKeepsOrTakes
  <2>6. LocalKind(r)
    BY <2>3, <2>5 DEF LocalKind
  <2>7. SlotKind(r)
    <3>1. CASE Add(r, pay) = slot[r]
      BY <2>4, <3>1 DEF SlotKind
    <3>2. CASE Add(r, pay).gen = FreshGen(r)
      BY <1>t, <2>3, <2>4, <2>5, <3>2, FreshToken DEF SlotKind
    <3> QED BY <1>t, <2>2, <3>1, <3>2, AddKeepsOrTakes
  <2> QED BY <1>o, <2>1, <2>3, <2>5, <2>6, <2>7, WriteStep DEF Enqueue, remote
<1> QED BY <1>1, <1>2, <1>3, <1>4, <1>5 DEF LocalWrite

LEMMA OperatorKind ==
  ASSUME OutboxInv, Operator
  PROVE  StepKind /\ AwaitedInv'
<1>t. TypeOK
  BY DEF OutboxInv
<1>1. ASSUME Operates, UNCHANGED <<local, erased, remote>>, \A r \in Rows : SlotKind(r)
      PROVE  StepKind /\ AwaitedInv'
  <2>1. ops' >= ops
    BY <1>t, <1>1, SyncOutboxAssumption DEF Operates, TypeOK
  <2>2. \A r \in Rows : RowKind(r)
    BY <1>1, LocalStays, HubStays DEF RowKind, remote
  <2>3. /\ \A p \in Procs : SessKind(p)
        /\ \A n \in wire' : WireKind(n)
        /\ AwaitedInv'
    BY <1>1, SessStays, WireStays, AwaitedStays DEF remote
  <2> QED BY <1>1, <2>1, <2>2, <2>3 DEF StepKind, remote
<1>2. CASE Clear
  <2>1. \A r \in Rows : SlotKind(r)
    BY <1>2 DEF Clear, SlotKind
  <2> QED BY <1>1, <1>2, <2>1 DEF Clear
<1>3. CASE QueueAll
  <2>1. ASSUME NEW r \in Rows, local[r].here PROVE SlotKind(r)
    <3>1. slot'[r] = Add(r, local[r].pay) /\ local' = local
      BY <1>3, <2>1 DEF QueueAll
    <3> QED BY <1>t, <2>1, <3>1, AddKind, RowTyped
  <2>2. ASSUME NEW r \in Rows, ~local[r].here PROVE SlotKind(r)
    BY <1>3, <2>2 DEF QueueAll, SlotKind
  <2> QED BY <1>1, <1>3, <2>1, <2>2 DEF QueueAll
<1>4. ASSUME NEW r \in Rows, Requeue(r) PROVE StepKind /\ AwaitedInv'
  <2>1. ASSUME NEW q \in Rows PROVE SlotKind(q)
    <3>1. CASE q = r
      <4>1. slot[r] \in [gen : Nat \ {0}, pay : {pay \in Payload : pay.ver # 0}, dead : BOOLEAN]
        BY <1>t, <1>4 DEF Requeue, TypeOK, Slot, NoSlot
      <4>2. slot' = [slot EXCEPT ![r] = [slot[r] EXCEPT !.dead = FALSE]]
        BY <1>4 DEF Requeue
      <4>3. slot'[r] = [slot[r] EXCEPT !.dead = FALSE]
        BY <1>t, <4>2 DEF TypeOK
      <4>4. slot'[r].gen = slot[r].gen /\ slot'[r].pay = slot[r].pay
        BY <4>1, <4>3
      <4> QED BY <3>1, <4>4 DEF SlotKind
    <3>2. CASE q # r
      BY <1>t, <1>4, <3>2 DEF Requeue, TypeOK, SlotKind
    <3> QED BY <3>1, <3>2
  <2> QED BY <1>1, <1>4, <2>1 DEF Requeue
<1> QED BY <1>2, <1>3, <1>4 DEF Operator

LEMMA PullKind ==
  ASSUME OutboxInv, PullStep
  PROVE  StepKind /\ AwaitedInv'
<1>t. TypeOK
  BY DEF OutboxInv
<1>o. ops \in Nat
  BY <1>t, SyncOutboxAssumption DEF TypeOK
<1>p. ASSUME NEW r \in Rows, Taken(r) PROVE \A q \in Rows : page'[q] \in {page[q], hub[q], Nothing}
  BY <1>t, <1>p DEF Taken, TypeOK
<1>u. ASSUME NEW r \in Rows, LocalKind(r), SlotKind(r), Taken(r), UNCHANGED pushing,
             local' = local \/ \E row : local' = [local EXCEPT ![r] = row],
             slot' = slot \/ \E s : slot' = [slot EXCEPT ![r] = s]
      PROVE  StepKind /\ AwaitedInv'
  <2>1. \A q \in Rows : page'[q] \in {page[q], hub[q], Nothing}
    BY <1>p, <1>u
  <2>2. ops' >= ops /\ erased' = erased /\ UNCHANGED <<hub, sess, wire, skipped>>
    BY <1>o, <1>u DEF pushing
  <2> QED BY <1>u, <2>1, <2>2, WriteStep
<1>1. ASSUME NEW r \in Rows, FetchRow(r) PROVE StepKind /\ AwaitedInv'
  <2>1. \A q \in Rows : page'[q] \in {page[q], hub[q], Nothing}
    BY <1>t, <1>1 DEF FetchRow, TypeOK
  <2>2. UNCHANGED <<local, slot, pushing>>
    BY <1>1 DEF FetchRow
  <2> QED BY <1>o, <2>1, <2>2, LocalStays, SlotStays, WriteStep DEF pushing
<1>2. ASSUME NEW r \in Rows, SkipRow(r) PROVE StepKind /\ AwaitedInv'
  <2>1. UNCHANGED <<local, slot, pushing>> /\ Taken(r)
    BY <1>2 DEF SkipRow
  <2> QED BY <1>o, <1>p, <2>1, LocalStays, SlotStays, WriteStep DEF pushing
<1>3. ASSUME NEW r \in Rows, ApplyNew(r) PROVE StepKind /\ AwaitedInv'
  <2>1. Taken(r) /\ ~local[r].here /\ Stored(r, page[r], FALSE) /\ UNCHANGED <<slot, pushing>>
    BY <1>3 DEF ApplyNew
  <2>2. r \in erased
    <3>1. page[r].ver # 0 /\ page[r].ver <= hub[r].ver
      BY <2>1 DEF Taken, OutboxInv, HubInv
    <3>2. hub[r].ver # 0
      BY <1>t, <3>1, RowNumbers
    <3> QED BY <2>1, <3>2 DEF OutboxInv, LineageInv
  <2>3. LocalKind(r) /\ SlotKind(r)
    BY <1>t, <2>1, <2>2, StoredRow, SlotStays DEF LocalKind
  <2>4. \E row : local' = [local EXCEPT ![r] = row]
    BY <2>1 DEF Stored
  <2> QED BY <1>u, <2>1, <2>3, <2>4
<1>4. ASSUME NEW r \in Rows, Outranks(r)
      PROVE  /\ Merged(r) \in Payload /\ Merged(r).ver = page[r].ver /\ Merged(r).del = page[r].del
             /\ Merged(r).edit = local[r].pay.edit
             /\ page[r].ver \in Nat /\ local[r].pay.ver \in Nat /\ local[r].pay.edit \in Nat
             /\ page[r].ver > local[r].pay.ver /\ local[r].here
             /\ local[r].pay.del => page[r].del
             /\ r \notin erased => local[r].pay.edit <= ops
             /\ page[r].ver <= hub[r].ver
  <2>1. local[r].pay \in Payload /\ page[r] \in Payload
    BY <1>t, RowTyped
  <2>2. Merged(r) \in Payload /\ Merged(r).ver = page[r].ver /\ Merged(r).del = page[r].del
        /\ Merged(r).edit = local[r].pay.edit
    BY <2>1 DEF Merged, Payload
  <2> QED BY <1>t, <1>4, <2>2, RowNumbers DEF Outranks, OutboxInv, LineageInv, HubInv
<1>5. ASSUME NEW r \in Rows, ApplyNewer(r) PROVE StepKind /\ AwaitedInv'
  <2>1. /\ Taken(r) /\ Outranks(r) /\ (page[r].del \/ ~Unsent(r))
        /\ Stored(r, Merged(r), FALSE) /\ UNCHANGED <<slot, pushing>>
    BY <1>5 DEF ApplyNewer
  <2>2. local'[r].here = TRUE /\ local'[r].pay = Merged(r) /\ local'[r].pending = FALSE
    BY <1>t, <2>1, StoredRow
  <2>3. /\ local'[r].pay.ver > local[r].pay.ver /\ local'[r].pay.ver >= local[r].pay.ver
        /\ local'[r].pay.edit = local[r].pay.edit /\ local'[r].pay.edit >= local[r].pay.edit
        /\ r \notin erased => local'[r].pay.edit <= ops'
        /\ local'[r].pay.ver <= hub[r].ver /\ hub'[r] = hub[r]
    BY <1>4, <2>1, <2>2 DEF pushing
  <2>4. local[r].pay.del => local'[r].pay.del
    BY <1>4, <2>1, <2>2
  <2>5. local'[r].pay.del \/ (local[r].here /\ ~local[r].pending)
    BY <1>4, <2>1, <2>2 DEF Unsent
  <2>6. r \in erased \/ Advances(r)
    BY <2>3, <2>4, <2>5 DEF Advances
  <2>7. LocalKind(r) /\ SlotKind(r)
    BY <2>1, <2>2, <2>3, <2>6, SlotStays DEF LocalKind
  <2>8. \E row : local' = [local EXCEPT ![r] = row]
    BY <2>1 DEF Stored
  <2> QED BY <1>u, <2>1, <2>7, <2>8
<1>6. ASSUME NEW r \in Rows, Rebase(r) PROVE StepKind /\ AwaitedInv'
  <2> DEFINE pay == [Merged(r) EXCEPT !.ver = @ + 1]
  <2>1. /\ Taken(r) /\ Outranks(r)
        /\ Stored(r, pay, TRUE) /\ Enqueue(r, pay) /\ UNCHANGED pushing
    BY <1>6 DEF Rebase
  <2>2. Merged(r) \in Payload
    BY <1>4, <2>1
  <2>3. /\ pay \in Payload /\ pay.ver # 0 /\ pay.ver = Merged(r).ver + 1 /\ pay.del = Merged(r).del
        /\ pay.edit = Merged(r).edit
    BY <2>2 DEF Payload
  <2> HIDE DEF pay
  <2>4. local'[r].here = TRUE /\ local'[r].pay = pay /\ local'[r].pending = TRUE
    BY <1>t, <2>1, StoredRow
  <2>5. /\ local'[r].pay.ver > local[r].pay.ver /\ local'[r].pay.ver >= local[r].pay.ver
        /\ local'[r].pay.edit >= local[r].pay.edit
        /\ r \notin erased => local'[r].pay.edit <= ops'
    BY <1>4, <2>1, <2>3, <2>4 DEF pushing
  <2>6. local[r].pay.del => local'[r].pay.del
    BY <1>4, <2>1, <2>3, <2>4
  <2>7. r \in erased \/ Advances(r)
    BY <2>4, <2>5, <2>6 DEF Advances
  <2>8. LocalKind(r)
    BY <2>4, <2>5, <2>7 DEF LocalKind
  <2>9. SlotKind(r)
    BY <1>t, <2>1, <2>3, <2>4, AddKind, EnqueuedSlot
  <2>10. \E row : local' = [local EXCEPT ![r] = row]
    BY <2>1 DEF Stored
  <2>11. \E s : slot' = [slot EXCEPT ![r] = s]
    BY <2>1 DEF Enqueue
  <2> QED BY <1>u, <2>1, <2>8, <2>9, <2>10, <2>11
<1> QED BY <1>1, <1>2, <1>3, <1>5, <1>6 DEF PullStep

LEMMA HubStepKind ==
  ASSUME OutboxInv, TypeOK', HubStep \/ HubEdit
  PROVE  StepKind /\ AwaitedInv'
<1>t. TypeOK /\ wire \subseteq Request
  BY DEF OutboxInv, TypeOK
<1>o. ops \in Nat
  BY <1>t, SyncOutboxAssumption DEF TypeOK
<1>c. UNCHANGED terminal => UNCHANGED <<local, slot, sess, erased, page, ops>>
  BY DEF terminal
<1>a. ASSUME UNCHANGED <<local, slot, sess, erased, page, ops>>, skipped \subseteq skipped', \A r \in Rows : HubKind(r), \A n \in wire' : WireKind(n)
      PROVE  StepKind
  <2>1. ops' >= ops /\ erased' = erased /\ local' = local /\ slot' = slot /\ page' = page /\ sess' = sess
    BY <1>o, <1>a
  <2>2. \A r \in Rows : RowKind(r)
    BY <1>a, <2>1, LocalStays, SlotStays DEF RowKind
  <2>3. \A p \in Procs : SessKind(p)
    BY <2>1, SessStays
  <2> QED BY <1>a, <1>c, <2>1, <2>2, <2>3 DEF StepKind
(* One record of a request is answered.                                    *)
<1>b. ASSUME NEW m \in wire, NEW r \in m.todo, NEW how, Answered(m, r, how),
             how = "ack" => CoveredNext(r, m.pay[r]), UNCHANGED terminal
      PROVE  (\A n \in wire' : WireKind(n)) /\ AwaitedInv'
  <2>1. PICK n \in Request :
           /\ wire' = (wire \ {m}) \cup {n}
           /\ n.by = m.by /\ n.live = m.live /\ n.pay = m.pay /\ n.todo \subseteq m.todo
           /\ IF how = "ack" THEN n.ack = m.ack \cup {r} ELSE n.ack = m.ack
    BY <1>b, <1>t, AnsweredMoves
  <2>2. \A k \in n.ack : k \in m.ack \/ (k = r /\ how = "ack")
    BY <2>1
  <2>3. WireKind(n)
    BY <1>b, <2>1, <2>2 DEF WireKind
  <2>4. \A k \in wire : WireKind(k)
    BY DEF WireKind
  <2>5. n.ack \subseteq m.ack \cup m.todo
    BY <2>2
  <2>6. sess' = sess
    BY <1>b DEF terminal
  <2>7. ASSUME NEW k \in wire', k.live
        PROVE  /\ sess[k.by].phase = "wait"
               /\ \A q \in k.todo \cup k.ack : k.pay[q] = sess[k.by].snap[q].pay
               /\ \A l \in wire' : l.live /\ l.by = k.by => l = k
    <3>1. CASE k = n
      <4>1. m.live
        BY <2>1, <2>7, <3>1
      <4>2. \A l \in wire' : l.live /\ l.by = k.by => l = k
        BY <2>1, <3>1, <4>1 DEF OutboxInv, AwaitedInv
      <4> QED BY <2>1, <2>5, <3>1, <4>1, <4>2 DEF OutboxInv, AwaitedInv
    <3>2. CASE k # n
      <4>1. k \in wire /\ k # m
        BY <2>1, <3>2
      <4>2. \A l \in wire : l.live /\ l.by = k.by => l = k
        BY <2>7, <4>1 DEF OutboxInv, AwaitedInv
      <4>3. ~(n.live /\ n.by = k.by)
        BY <2>1, <4>1, <4>2
      <4> QED BY <2>1, <2>7, <4>1, <4>2, <4>3 DEF OutboxInv, AwaitedInv
    <3> QED BY <3>1, <3>2
  <2> QED BY <2>1, <2>3, <2>4, <2>6, <2>7 DEF AwaitedInv
<1>1. ASSUME NEW m \in wire, Forget(m) PROVE StepKind /\ AwaitedInv'
  <2>1. wire' \subseteq wire /\ hub' = hub /\ sess' = sess /\ skipped' = skipped /\ UNCHANGED terminal
    BY <1>1 DEF Forget, terminal
  <2> QED BY <1>a, <1>c, <2>1, HubStays, WireStays, AwaitedStays
<1>2. ASSUME NEW m \in wire, NEW r \in Rows, Store(m, r) PROVE StepKind /\ AwaitedInv'
  <2>1. /\ r \in m.todo /\ hub' = [hub EXCEPT ![r] = m.pay[r]] /\ Answered(m, r, "ack")
        /\ UNCHANGED terminal /\ skipped' = skipped
        /\ hub[r].ver = 0 \/ Wins(r, m.pay[r])
    BY <1>2 DEF Store
  <2>2. hub'[r] = m.pay[r] /\ \A q \in Rows \ {r} : hub'[q] = hub[q]
    BY <1>t, <2>1 DEF TypeOK
  <2>3. \A q \in Rows : HubKind(q)
    BY <2>1, <2>2 DEF HubKind
  <2>4. CoveredNext(r, m.pay[r])
    <3>1. m.pay[r] \in Payload
      BY <1>t DEF Request
    <3>2. m.pay[r].ver \in Nat /\ m.pay[r].edit \in Nat
      BY <3>1, SyncOutboxAssumption DEF Payload
    <3> QED BY <2>2, <3>2 DEF CoveredNext
  <2>5. (\A n \in wire' : WireKind(n)) /\ AwaitedInv'
    BY <1>b, <2>1, <2>4
  <2> QED BY <1>a, <1>c, <2>1, <2>3, <2>5
<1>3. ASSUME NEW m \in wire, NEW r \in Rows, SkipTombstone(m, r) PROVE StepKind /\ AwaitedInv'
  <2>1. /\ r \in m.todo /\ hub' = hub /\ Answered(m, r, "ack") /\ m.pay[r].del
        /\ UNCHANGED terminal /\ skipped' = skipped \cup {r}
    BY <1>3 DEF SkipTombstone
  <2>2. CoveredNext(r, m.pay[r])
    BY <2>1 DEF CoveredNext
  <2>3. (\A n \in wire' : WireKind(n)) /\ AwaitedInv'
    BY <1>b, <2>1, <2>2
  <2> QED BY <1>a, <1>c, <2>1, <2>3, HubStays
<1>4. ASSUME NEW m \in wire, NEW r \in Rows, Postpone(m, r) PROVE StepKind /\ AwaitedInv'
  <2>1. /\ r \in m.todo /\ hub' = hub /\ Answered(m, r, "retry")
        /\ UNCHANGED terminal /\ skipped' = skipped
    BY <1>4 DEF Postpone
  <2>2. (\A n \in wire' : WireKind(n)) /\ AwaitedInv'
    BY <1>b, <2>1
  <2> QED BY <1>a, <1>c, <2>1, <2>2, HubStays
<1>5. ASSUME NEW m \in wire, NEW r \in Rows, Refuse(m, r) PROVE StepKind /\ AwaitedInv'
  <2>1. /\ r \in m.todo /\ hub' = hub
        /\ UNCHANGED terminal /\ skipped' = skipped
        /\ \/ Answered(m, r, "reject")
           \/ /\ m.pay[r].ver < hub[r].ver /\ m.pay[r].del = hub[r].del /\ m.pay[r].edit = hub[r].edit
              /\ Answered(m, r, "ack")
    BY <1>5 DEF Refuse
  <2>2. CASE Answered(m, r, "reject")
    <3>1. (\A n \in wire' : WireKind(n)) /\ AwaitedInv'
      BY <1>b, <2>1, <2>2
    <3> QED BY <1>a, <1>c, <2>1, <3>1, HubStays
  <2>3. CASE /\ m.pay[r].ver < hub[r].ver /\ m.pay[r].del = hub[r].del /\ m.pay[r].edit = hub[r].edit
             /\ Answered(m, r, "ack")
    <3>1. m.pay[r] \in Payload /\ hub[r] \in Payload
      BY <1>t, RowTyped DEF Request
    <3>2. m.pay[r].ver \in Nat /\ m.pay[r].edit \in Nat /\ hub[r].ver \in Nat
      BY <3>1, SyncOutboxAssumption DEF Payload
    <3>3. CoveredNext(r, m.pay[r])
      <4>1. CASE m.pay[r].del
        BY <2>1, <2>3, <4>1 DEF CoveredNext
      <4>2. CASE ~m.pay[r].del
        BY <2>1, <2>3, <3>2, <4>2 DEF CoveredNext
      <4> QED BY <4>1, <4>2
    <3>4. (\A n \in wire' : WireKind(n)) /\ AwaitedInv'
      BY <1>b, <2>1, <2>3, <3>3
    <3> QED BY <1>a, <1>c, <2>1, <3>4, HubStays
  <2> QED BY <2>1, <2>2, <2>3
<1>6. ASSUME NEW r \in Rows, NEW del \in BOOLEAN, HubWrite(r, del) PROVE StepKind /\ AwaitedInv'
  <2>1. /\ hub[r].ver # 0 /\ ~hub[r].del
        /\ hub' = [hub EXCEPT ![r] = [ver |-> hub[r].ver + 1, del |-> del, edit |-> hub[r].edit]]
        /\ UNCHANGED <<local, slot, sess, wire, erased, skipped, page, ops, losses>>
    BY <1>6 DEF HubWrite
  <2>2. /\ hub'[r].ver = hub[r].ver + 1 /\ hub'[r].edit = hub[r].edit
        /\ \A q \in Rows \ {r} : hub'[q] = hub[q]
    BY <1>t, <2>1 DEF TypeOK
  <2>3. \A q \in Rows : HubKind(q)
    BY <2>1, <2>2 DEF HubKind
  <2> QED BY <1>a, <2>1, <2>3, WireStays, AwaitedStays
<1> QED BY <1>1, <1>2, <1>3, <1>4, <1>5, <1>6 DEF HubStep, HubEdit

(* A push moves, and the rows and the hub stay as they are.                *)
LEMMA PushMove ==
  ASSUME OutboxInv, NEW p \in Procs, GoesOn(p), SessKind(p),
         UNCHANGED <<local, hub, erased, skipped, page, ops>>,
         \A r \in Rows : SlotKind(r), \A n \in wire' : WireKind(n)
  PROVE  StepKind
<1>1. \A r \in Rows : RowKind(r)
  BY LocalStays, HubStays DEF RowKind
<1>2. \A q \in Procs : SessKind(q)
  BY OtherSess
<1>3. ops \in Nat
  BY SyncOutboxAssumption DEF OutboxInv, TypeOK
<1> QED BY <1>1, <1>2, <1>3 DEF StepKind

(* The session keeps its snapshot and takes nothing new.                   *)
LEMMA KeepsKind ==
  ASSUME OutboxInv, NEW p \in Procs, sess'[p].snap = sess[p].snap,
         sess'[p].todo \cup sess'[p].batch \subseteq sess[p].todo \cup sess[p].batch,
         sess'[p].acked \cup sess'[p].stamp \subseteq sess[p].acked \cup sess[p].stamp
  PROVE  SessKind(p)
BY DEF SessKind, OutboxInv, PushInv

LEMMA PushKind ==
  ASSUME OutboxInv, NEW p \in Procs, PushStep(p)
  PROVE  StepKind /\ AwaitedInv'
<1>t. TypeOK
  BY DEF OutboxInv
<1>r. UNCHANGED <<hub, losses, rest>> => UNCHANGED <<local, hub, erased, skipped, page, ops>>
  BY DEF rest
<1>1. CASE StartPush(p)
  <2>1. UNCHANGED <<local, hub, erased, skipped, page, ops>> /\ wire' \subseteq wire
    BY <1>1, <1>r DEF StartPush
  <2>2. GoesOn(p) /\ SessKind(p) /\ \A m \in wire : m.live => m.by # p
    BY <1>t, <1>1, StartMoves, KeepsKind, NotWaiting DEF Keeps
  <2>3. ASSUME NEW r \in Rows PROVE SlotKind(r)
    <3>1. CASE local[r].here /\ local[r].pending
      <4>1. slot'[r] = Add(r, local[r].pay)
        BY <1>1, <3>1 DEF StartPush
      <4> QED BY <1>t, <2>1, <3>1, <4>1, AddKind, RowTyped
    <3>2. CASE ~(local[r].here /\ local[r].pending)
      BY <1>1, <3>2 DEF StartPush, SlotKind
    <3> QED BY <3>1, <3>2
  <2> QED BY <2>1, <2>2, <2>3, PushMove, WireStays, AwaitedElsewhere
<1>2. CASE Group(p)
  <2>1. UNCHANGED <<local, hub, erased, skipped, page, ops>> /\ wire' \subseteq wire /\ slot' = slot
    BY <1>2, <1>r DEF Group
  <2>2. GoesOn(p) /\ \A m \in wire : m.live => m.by # p
    BY <1>t, <1>2, GroupMoves, NotWaiting
  <2>3. SessKind(p)
    <3>1. sess'[p].todo \subseteq Rows
      BY <2>2 DEF GoesOn, Session
    <3> QED BY <1>t, <1>2, <3>1, GroupMoves DEF SessKind
  <2> QED BY <2>1, <2>2, <2>3, PushMove, SlotStays, WireStays, AwaitedElsewhere
<1>3. CASE Send(p)
  <2>1. UNCHANGED <<local, hub, erased, skipped, page, ops>> /\ slot' = slot
    BY <1>3, <1>r DEF Send
  <2>2. GoesOn(p) /\ Keeps(p) /\ sess'[p].phase = "wait" /\ \A m \in wire : m.live => m.by # p
    BY <1>t, <1>3, SendMoves, NotWaiting
  <2>3. PICK B \in SUBSET sess[p].todo :
          /\ wire' = wire \cup {Sent(p, B)}
          /\ sess'[p].batch = B /\ sess'[p].todo = sess[p].todo \ B
    BY <1>t, <1>3, SendMoves
  <2>4. SessKind(p)
    BY <2>2, <2>3, KeepsKind DEF Keeps
  <2>5. \A n \in wire' : WireKind(n)
    <3>1. B \subseteq Rows
      BY <1>t DEF TypeOK, Session
    <3>2. WireKind(Sent(p, B))
      BY <3>1 DEF WireKind
    <3>3. \A m \in wire : WireKind(m)
      BY DEF WireKind
    <3> QED BY <2>3, <3>2, <3>3
  <2>6. AwaitedInv'
    <3> DEFINE s == Sent(p, B)
    <3>1. /\ s.by = p /\ s.live /\ s.todo = B /\ s.ack = {}
          /\ \A r \in Rows : r \in B => s.pay[r] = sess[p].snap[r].pay
      BY DEF Sent
    <3>2. B \subseteq Rows /\ \A m \in wire : m.by \in Procs
      BY <1>t DEF TypeOK, Session, Request
    <3> HIDE DEF s
    <3>3. ASSUME NEW m \in wire', m.live
          PROVE  /\ sess'[m.by].phase = "wait"
                 /\ \A r \in m.todo \cup m.ack : m.pay[r] = sess'[m.by].snap[r].pay
                 /\ \A n \in wire' : n.live /\ n.by = m.by => n = m
      <4>1. CASE m = s
        <5>1. \A n \in wire' : n.live /\ n.by = m.by => n = m
          BY <2>2, <2>3, <3>1, <4>1 DEF s
        <5> QED BY <2>2, <3>1, <3>2, <4>1, <5>1 DEF Keeps
      <4>2. CASE m # s
        <5>1. m \in wire /\ m.by # p
          BY <2>2, <2>3, <3>3, <4>2 DEF s
        <5>2. sess'[m.by] = sess[m.by]
          BY <2>2, <3>2, <5>1 DEF GoesOn
        <5>3. \A n \in wire' : n.live /\ n.by = m.by => n = m
          BY <2>3, <3>1, <3>3, <5>1 DEF s, OutboxInv, AwaitedInv
        <5> QED BY <3>3, <5>1, <5>2, <5>3 DEF OutboxInv, AwaitedInv
      <4> QED BY <4>1, <4>2
    <3> QED BY <3>3 DEF AwaitedInv
  <2> QED BY <2>1, <2>2, <2>4, <2>5, <2>6, PushMove, SlotStays
<1>4. CASE StopSending(p)
  <2>1. UNCHANGED <<local, hub, erased, skipped, page, ops>> /\ wire' \subseteq wire /\ slot' = slot
    BY <1>4, <1>r DEF StopSending
  <2>2. GoesOn(p) /\ SessKind(p) /\ \A m \in wire : m.live => m.by # p
    BY <1>t, <1>4, StopMoves, KeepsKind, NotWaiting DEF Keeps
  <2> QED BY <2>1, <2>2, PushMove, SlotStays, WireStays, AwaitedElsewhere
<1>5. CASE Acknowledge(p)
  <2>1. UNCHANGED <<local, hub, erased, skipped, page, ops>> /\ wire' \subseteq wire
    BY <1>5, <1>r DEF Acknowledge
  <2>2. GoesOn(p) /\ SessKind(p) /\ \A m \in wire : m.live => m.by # p
    BY <1>t, <1>5, AcknowledgeMoves, KeepsKind, NotWaiting
  <2>3. \A r \in Rows : SlotKind(r)
    BY <1>t, <1>5, AcknowledgeMoves DEF SlotKind
  <2> QED BY <2>1, <2>2, <2>3, PushMove, WireStays, AwaitedElsewhere
<1>6. CASE EndPush(p)
  <2>1. UNCHANGED <<local, hub, erased, skipped, page, ops>> /\ wire' \subseteq wire /\ slot' = slot
    BY <1>6, <1>r DEF EndPush
  <2>2. GoesOn(p) /\ SessKind(p)
    BY <1>t, <1>6, IdleMoves DEF EndPush, SessKind
  <2>3. \A m \in wire : m.live => m.by # p
    BY <1>6, NotWaiting DEF EndPush
  <2> QED BY <2>1, <2>2, <2>3, PushMove, SlotStays, WireStays, AwaitedElsewhere
<1>7. ASSUME NEW r \in Rows, StampRow(p, r) PROVE StepKind /\ AwaitedInv'
  <2>1. /\ UNCHANGED <<slot, hub, wire, erased, skipped, page, ops, hubOps, losses>>
        /\ r \in sess[p].stamp
        /\ local' = IF Stamps(p, r) THEN [local EXCEPT ![r].pending = FALSE] ELSE local
    BY <1>7 DEF StampRow
  <2>2. GoesOn(p) /\ SessKind(p) /\ \A m \in wire : m.live => m.by # p
    BY <1>t, <1>7, StampMoves, KeepsKind, NotWaiting
  <2>3. ASSUME NEW q \in Rows PROVE LocalKind(q)
    <3>1. CASE local'[q] = local[q]
      BY <3>1 DEF LocalKind
    <3>2. CASE Stamps(p, r) /\ q = r
      <4>1. local[r] \in [here : {TRUE}, pay : {pay \in Payload : pay.ver # 0}, pending : BOOLEAN]
        <5>1. local[r] # NoRow
          BY <3>2 DEF Stamps, NoRow
        <5> QED BY <1>t, <5>1 DEF TypeOK, LocalRow
      <4>2. local'[r] = [local[r] EXCEPT !.pending = FALSE]
        BY <1>t, <2>1, <3>2 DEF TypeOK
      <4>3. local'[r].here = local[r].here /\ local'[r].pay = local[r].pay
        BY <4>1, <4>2
      <4> QED BY <2>1, <3>2, <4>3 DEF LocalKind, Stamps
    <3> QED BY <1>t, <2>1, <3>1, <3>2 DEF TypeOK
  <2>4. \A q \in Rows : RowKind(q)
    BY <2>1, <2>3, SlotStays, HubStays DEF RowKind
  <2>5. \A q \in Procs : SessKind(q)
    BY <2>2, OtherSess
  <2>6. ops' >= ops
    BY <1>t, <2>1, SyncOutboxAssumption DEF TypeOK
  <2> QED BY <2>1, <2>2, <2>4, <2>5, <2>6, WireStays, AwaitedElsewhere DEF StepKind
<1>8. ASSUME NEW m \in wire, Reply(p, m) PROVE StepKind /\ AwaitedInv'
  <2>1. /\ UNCHANGED <<local, hub, erased, skipped, page, ops>>
        /\ m.by = p /\ m.live /\ wire' = wire \ {m} /\ slot' = DeadLettered(p, m.reject)
    BY <1>8, <1>r DEF Reply
  <2>2. GoesOn(p)
    BY <1>t, <1>8, ReplyMoves
  <2>3. SessKind(p)
    <3>1. \A r \in m.ack : m.pay[r] = sess'[p].snap[r].pay
      BY <1>t, <1>8, <2>1, ReplyMoves DEF OutboxInv, AwaitedInv
    <3> QED BY <1>t, <1>8, <3>1, ReplyMoves DEF SessKind, OutboxInv, PushInv
  <2>4. \A n \in wire' : n.live => n.by # p
    BY <2>1 DEF OutboxInv, AwaitedInv
  <2>5. ASSUME NEW r \in Rows PROVE SlotKind(r)
    <3>1. CASE slot'[r] = slot[r]
      BY <3>1 DEF SlotKind
    <3>2. CASE SameGen(p, r) /\ slot'[r] = [slot[r] EXCEPT !.dead = TRUE]
      <4>1. slot[r] \in [gen : Nat \ {0}, pay : {pay \in Payload : pay.ver # 0}, dead : BOOLEAN]
        BY <1>t, <3>2 DEF SameGen, TypeOK, Slot, NoSlot
      <4>2. slot'[r].gen = slot[r].gen /\ slot'[r].pay = slot[r].pay
        BY <3>2, <4>1
      <4> QED BY <4>2 DEF SlotKind
    <3> QED BY <2>1, <3>1, <3>2 DEF DeadLettered
  <2> QED BY <2>1, <2>2, <2>3, <2>4, <2>5, PushMove, WireStays, AwaitedElsewhere
<1> QED BY <1>1, <1>2, <1>3, <1>4, <1>5, <1>6, <1>7, <1>8 DEF PushStep

LEMMA FailureKind ==
  ASSUME OutboxInv, Failure
  PROVE  StepKind /\ AwaitedInv'
<1>t. TypeOK /\ wire \subseteq Request
  BY DEF OutboxInv, TypeOK
<1>r. UNCHANGED <<slot, hub, rest>> => UNCHANGED <<slot, local, hub, erased, skipped, page, ops>>
  BY DEF rest
<1>1. ASSUME NEW p \in Procs, Crash(p) PROVE StepKind /\ AwaitedInv'
  <2>1. /\ UNCHANGED <<slot, local, hub, erased, skipped, page, ops>>
        /\ sess' = [sess EXCEPT ![p] = IdleSession]
        /\ wire' = {IF m.by = p THEN [m EXCEPT !.live = FALSE] ELSE m : m \in wire}
    BY <1>1, <1>r DEF Crash
  <2>2. GoesOn(p) /\ SessKind(p)
    BY <1>t, <2>1, IdleMoves DEF SessKind
  <2>3. ASSUME NEW n \in wire'
        PROVE  \E m \in wire : /\ n.by = m.by /\ n.pay = m.pay /\ n.todo = m.todo /\ n.ack = m.ack
                               /\ n.live => m.live /\ n = m /\ m.by # p
    <3>1. PICK m \in wire : n = IF m.by = p THEN [m EXCEPT !.live = FALSE] ELSE m
      BY <2>1
    <3> QED BY <1>t, <3>1, Dead
  <2>4. \A n \in wire' : WireKind(n)
    BY <2>3 DEF WireKind
  <2>5. AwaitedInv'
    <3>1. \A n \in wire' : n.live => n \in wire /\ n.by # p /\ n.by \in Procs
      BY <1>t, <2>3 DEF Request
    <3>2. \A n \in wire' : n.live => sess'[n.by] = sess[n.by]
      BY <2>2, <3>1 DEF GoesOn
    <3> QED BY <3>1, <3>2 DEF OutboxInv, AwaitedInv
  <2> QED BY <2>1, <2>2, <2>4, <2>5, PushMove, SlotStays
<1>2. ASSUME NEW p \in Procs, NEW m \in wire, LoseAnswer(p, m) PROVE StepKind /\ AwaitedInv'
  <2> DEFINE d == [m EXCEPT !.live = FALSE]
             s == Sent(p, sess[p].batch)
  <2>1. UNCHANGED <<slot, local, hub, erased, skipped, page, ops>>
    BY <1>2, <1>r DEF LoseAnswer
  <2>2. GoesOn(p) /\ Keeps(p) /\ m.by = p /\ m.live
    BY <1>t, <1>2, LoseMoves
  <2>3. /\ ~d.live /\ d.by = m.by /\ d.pay = m.pay /\ d.todo = m.todo /\ d.ack = m.ack
    BY <1>t, Dead
  <2>4. /\ s.by = p /\ s.live /\ s.todo = sess[p].batch /\ s.ack = {}
        /\ \A r \in Rows : r \in sess[p].batch => s.pay[r] = sess[p].snap[r].pay
    BY DEF Sent
  <2>5. sess[p].batch \subseteq Rows /\ \A k \in wire : k.by \in Procs
    BY <1>t DEF TypeOK, Session, Request
  <2>6. WireKind(d) /\ WireKind(s) /\ \A k \in wire : WireKind(k)
    <3>1. WireKind(s)
      BY <2>5 DEF WireKind
    <3> HIDE DEF d, s
    <3> QED BY <2>3, <3>1 DEF WireKind
  <2>7. \A k \in wire : k.live /\ k.by = p => k = m
    BY <2>2 DEF OutboxInv, AwaitedInv
  <2>8. CASE wire' = (wire \ {m}) \cup {d, s} /\ sess' = sess
    <3>1. SessKind(p)
      BY <2>8, SessStays
    <3>2. \A n \in wire' : WireKind(n)
      BY <2>6, <2>8
    <3>3. sess[p].phase = "wait"
      BY <2>2 DEF OutboxInv, AwaitedInv
    <3> HIDE DEF d, s
    <3>4. ASSUME NEW k \in wire', k.live
          PROVE  /\ sess[k.by].phase = "wait"
                 /\ \A r \in k.todo \cup k.ack : k.pay[r] = sess[k.by].snap[r].pay
                 /\ \A n \in wire' : n.live /\ n.by = k.by => n = k
      <4>1. CASE k = s
        <5>1. \A n \in wire' : n.live /\ n.by = k.by => n = k
          BY <2>3, <2>4, <2>7, <2>8, <4>1
        <5> QED BY <2>4, <2>5, <3>3, <4>1, <5>1
      <4>2. CASE k # s
        <5>1. k \in wire /\ k # m
          BY <2>3, <2>8, <3>4, <4>2
        <5>2. k.by # p
          BY <2>7, <3>4, <5>1
        <5>3. \A n \in wire' : n.live /\ n.by = k.by => n = k
          BY <2>3, <2>4, <2>8, <3>4, <5>1, <5>2 DEF OutboxInv, AwaitedInv
        <5> QED BY <3>4, <5>1, <5>3 DEF OutboxInv, AwaitedInv
      <4> QED BY <4>1, <4>2
    <3>5. AwaitedInv'
      BY <2>8, <3>4 DEF AwaitedInv
    <3> QED BY <2>1, <2>2, <3>1, <3>2, <3>5, PushMove, SlotStays
  <2>9. CASE /\ wire' = (wire \ {m}) \cup {d}
             /\ sess'[p].phase = "ack" /\ sess'[p].batch = {} /\ sess'[p].todo = {}
    <3>1. SessKind(p)
      BY <2>2, <2>9, KeepsKind DEF Keeps
    <3>2. \A n \in wire' : WireKind(n)
      BY <2>6, <2>9
    <3> HIDE DEF d, s
    <3>3. \A k \in wire' : k.live => k \in wire /\ k.by # p /\ k.by \in Procs
      BY <2>3, <2>5, <2>7, <2>9
    <3>4. \A k \in wire' : k.live => sess'[k.by] = sess[k.by]
      BY <2>2, <3>3 DEF GoesOn
    <3>5. AwaitedInv'
      BY <3>3, <3>4 DEF OutboxInv, AwaitedInv
    <3> QED BY <2>1, <2>2, <3>1, <3>2, <3>5, PushMove, SlotStays
  <2> QED BY <1>t, <1>2, <2>8, <2>9, LoseMoves
<1> QED BY <1>1, <1>2 DEF Failure

-----------------------------------------------------------------------------
LEMMA InitialOutbox == Init => OutboxInv
<1> SUFFICES ASSUME Init PROVE OutboxInv
  OBVIOUS
<1>1. TypeOK
  BY InitialTypes
<1>2. \A r \in Rows : /\ slot[r] = NoSlot /\ page[r] = Nothing
                      /\ \/ hub[r] = Nothing /\ local[r].pay = Nothing /\ ~local[r].here
                         \/ hub[r] = First /\ local[r].pay = First /\ local[r].here
  BY DEF Init, NoRow
<1>3. \A p \in Procs : /\ sess[p].todo = {} /\ sess[p].batch = {} /\ sess[p].acked = {} /\ sess[p].stamp = {}
                       /\ \A r \in Rows : sess[p].snap[r] = NoSlot
  BY DEF Init, IdleSession
<1>4. wire = {} /\ erased = {} /\ skipped = {} /\ ops = 0
  BY DEF Init
<1>5. NoSlot.gen = 0 /\ NoSlot.pay = Nothing /\ Nothing.ver = 0 /\ Nothing.edit = 0
      /\ First.ver = 1 /\ First.edit = 0
  BY DEF NoSlot, Nothing, First
<1>6. LineageInv
  <2> SUFFICES ASSUME NEW r \in Rows
               PROVE  /\ Lined(Copies(r), local[r].pay, hub[r])
                      /\ ~local[r].here => hub[r].ver = 0
                      /\ local[r].pay.edit <= ops
    BY DEF LineageInv
  <2>1. \A x \in Copies(r) : x = Nothing \/ x = local[r].pay
    BY <1>2, <1>3, <1>4, <1>5 DEF Copies
  <2>2. Lined(Copies(r), local[r].pay, hub[r])
    <3>1. CASE hub[r] = Nothing /\ local[r].pay = Nothing
      BY <1>5, <2>1, <3>1 DEF Lined
    <3>2. CASE hub[r] = First /\ local[r].pay = First
      BY <1>5, <2>1, <3>2 DEF Lined
    <3> QED BY <1>2, <3>1, <3>2
  <2> QED BY <1>2, <1>4, <1>5, <2>2
<1>7. HubInv
  BY <1>2, <1>5 DEF HubInv
<1>8. QueueInv
  BY <1>2, <1>5 DEF QueueInv, SameGen
<1>9. PushInv /\ WireInv /\ AwaitedInv /\ GoneInv
  BY <1>3, <1>4 DEF PushInv, WireInv, AwaitedInv, GoneInv
<1>10. NoLostEdit
  BY <1>2, <1>5 DEF NoLostEdit
<1> QED BY <1>1, <1>6, <1>7, <1>8, <1>9, <1>10 DEF OutboxInv

LEMMA OutboxStays == ASSUME OutboxInv, UNCHANGED vars PROVE OutboxInv'
<1>1. TypeOK' /\ LineageInv' /\ HubInv' /\ QueueInv'
  BY DEF OutboxInv, vars, TypeOK, LineageInv, Copies, Lined, HubInv, QueueInv, SameGen
<1>2. PushInv' /\ WireInv' /\ AwaitedInv'
  BY DEF OutboxInv, vars, PushInv, WireInv, AwaitedInv, Covered
<1>3. GoneInv' /\ NoLostEdit'
  BY DEF OutboxInv, vars, GoneInv, NoLostEdit
<1> QED BY <1>1, <1>2, <1>3 DEF OutboxInv

LEMMA OutboxInvariant == Spec => []OutboxInv
<1>1. Init => OutboxInv
  BY InitialOutbox
<1>2. OutboxInv /\ [Next]_vars => OutboxInv'
  <2> SUFFICES ASSUME OutboxInv, [Next]_vars PROVE OutboxInv'
    OBVIOUS
  <2>1. CASE UNCHANGED vars
    BY <2>1, OutboxStays
  <2>2. CASE Next
    <3>1. TypeOK
      BY DEF OutboxInv
    <3>2. TypeOK'
      BY <2>2, <3>1, LocalWriteTypes, OperatorTypes, FailureTypes, HubTypes, PullTypes, PushTypes DEF Next
    <3>3. StepKind /\ AwaitedInv'
      BY <2>2, <3>2, LocalWriteKind, OperatorKind, FailureKind, HubStepKind, PullKind, PushKind DEF Next
    <3> QED BY <3>2, <3>3, KindPreserves
  <2> QED BY <2>1, <2>2
<1> QED BY <1>1, <1>2, PTL DEF Spec

(* No local edit is lost, whatever is written, cleared, pushed twice, lost *)
(* or pulled: a live row stamped as synced is at the hub with every edit.  *)
THEOREM EditsArrive == Spec => []NoLostEdit
<1>1. OutboxInv => NoLostEdit
  BY DEF OutboxInv
<1> QED BY <1>1, OutboxInvariant, PTL

(* No deletion is lost: what the terminal erased is queued as a tombstone  *)
(* or deleted at the hub.                                                  *)
THEOREM DeletionsArrive == Spec => []NoLostDeletion
<1>1. OutboxInv => NoLostDeletion
  BY DEF OutboxInv, NoLostDeletion, GoneInv, LineageInv
<1> QED BY <1>1, OutboxInvariant, PTL
=============================================================================
