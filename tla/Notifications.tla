--------------------------- MODULE Notifications ---------------------------
(***************************************************************************)
(* The Telegram messages about one order, sent by the hub to the chats of  *)
(* the staff.                                                              *)
(*                                                                         *)
(* A saved order is dispatched by some web process: once, under the lock   *)
(* of its dispatch row, the creation and later the READY edit or the       *)
(* cancellation are put in that process's own queue, which dies with it.   *)
(* Its worker freezes the audience, calls Telegram and keeps the returned  *)
(* message ids; what failed goes to the retry queue in Redis.  The retry   *)
(* worker claims a batch into PROCESSING_KEY, works through it and merges  *)
(* what failed back; a claimed batch survives it.                          *)
(*                                                                         *)
(* A backoff is a due time: any due items are claimed.  The key's time to  *)
(* live, pacing and message texts are left out.                            *)
(***************************************************************************)
EXTENDS Integers, SequencesExt, FiniteSetsExt

CONSTANTS
  Chats,        \* chats of the staff
  Routings,     \* sets of chats the routing may name
  Webs,         \* web processes
  MaxPending,   \* MAX_PENDING
  MaxAttempts,  \* MAX_ATTEMPTS
  MaxFaults     \* bound: crashes, timeouts, database failures and busy locks

ASSUME NotificationsAssumption ==
  /\ Routings \subseteq SUBSET Chats
  /\ {MaxPending, MaxAttempts} \subseteq Nat \ {0} /\ MaxFaults \in Nat

VARIABLES
  status,      \* Order.status: "PREPARING", "READY" or "CANCELED"
  routed,      \* the chats current routing names
  disp,        \* OrderNotificationDispatch: the *_sent flags that are set
  audience,    \* new_recipient_ids
  ids,         \* the chats new_message_ids has an id for
  mailbox,     \* mailbox[w]: the queue within a process
  doing,       \* doing[w]: the message the worker is sending
  pending,     \* QUEUE_KEY
  processing,  \* PROCESSING_KEY
  dead,        \* DEAD_LETTER_KEY
  pass,        \* the pass of the retry worker: what is left and what goes back
  roots,       \* roots[c]: how often the creation came to the chat, two for more
  edited,      \* chats whose creation shows the order READY
  told,        \* chats that have read of the cancellation
  faults,      \* faults so far
  doubt        \* chats a fault may have cost a message or given one too many

database == <<status, routed, disp, audience, ids>>
processes == <<mailbox, doing>>
redis == <<pending, processing, dead, pass>>
telegram == <<roots, edited, told>>
noticeVars == <<database, processes, redis, telegram, faults, doubt>>

Idle == [on |-> FALSE, left |-> <<>>, back |-> <<>>, lost |-> <<>>]

Item(role, chats, attempts) == [role |-> role, chats |-> chats, attempts |-> attempts]

NoticeInit ==
  /\ status = "PREPARING" /\ routed = Chats /\ disp = {} /\ audience = {} /\ ids = {}
  /\ mailbox = [w \in Webs |-> <<>>] /\ doing = [w \in Webs |-> <<>>]
  /\ pending = <<>> /\ processing = <<>> /\ dead = <<>> /\ pass = Idle
  /\ roots = [c \in Chats |-> 0] /\ edited = {} /\ told = {}
  /\ faults = 0 /\ doubt = {}

(* A fault, and the chats it leaves in doubt.                              *)
Fault(chats) ==
  /\ faults < MaxFaults
  /\ faults' = faults + 1 /\ doubt' = doubt \cup chats

NoFault == UNCHANGED <<faults, doubt>>

-----------------------------------------------------------------------------
(* The order and its dispatch.                                             *)

SaveOrder(s) ==
  /\ status = "PREPARING" \/ (status = "READY" /\ s = "CANCELED")
  /\ s # status /\ status' = s
  /\ UNCHANGED <<routed, disp, audience, ids, processes, redis, telegram>> /\ NoFault

(* Bound: the routing changes once.                                        *)
Reroute(chats) ==
  /\ routed = Chats /\ routed' = chats
  /\ UNCHANGED <<status, disp, audience, ids, processes, redis, telegram>> /\ NoFault

(* What a dispatch announces, in order, and the flag each sets.            *)
Announced ==
  CASE status = "CANCELED" ->
         IF "new" \in disp /\ "reply" \notin disp THEN <<"reply">> ELSE <<>>
    [] OTHER ->
         LET new == IF "new" \notin disp /\ routed # {} THEN <<"new">> ELSE <<>>
             edit == IF /\ status = "READY" /\ "edit" \notin disp
                        /\ "new" \in disp \/ new # <<>>
                     THEN <<"edit">> ELSE <<>>
         IN new \o edit

(* The messages are queued inside the transaction: when it does not commit *)
(* they are sent all the same, and again after the next save.              *)
Dispatch(w) ==
  /\ Announced # <<>>
  /\ mailbox' = [mailbox EXCEPT ![w] = @ \o Announced]
  /\ \/ disp' = disp \cup ToSet(Announced) /\ NoFault
     \/ disp' = disp /\ Fault(Chats)
  /\ UNCHANGED <<status, routed, audience, ids, doing, redis, telegram>>

-----------------------------------------------------------------------------
(* Telegram.  Of the chats of a message some are reached and answer; some  *)
(* are reached, and the answer is lost; the others are not reached.        *)

Outcomes(role, chats) ==
  {o \in [answered : SUBSET chats, silent : SUBSET chats] :
     /\ o.answered \cap o.silent = {}
     /\ role = "edit" => o.answered \cup o.silent \subseteq ids}

(* An edit repeated over the same text is an answer as well.               *)
Reaches(role, reached) ==
  /\ roots' = [c \in Chats |->
       IF role = "new" /\ c \in reached /\ roots[c] < 2 THEN roots[c] + 1 ELSE roots[c]]
  /\ edited' = IF role = "edit" THEN edited \cup reached ELSE edited
  /\ told' = IF role = "reply" THEN told \cup reached ELSE told

-----------------------------------------------------------------------------
(* The retry queue.                                                        *)

Newest(items, n) == IF Len(items) > n THEN SubSeq(items, Len(items) - n + 1, Len(items)) ELSE items

Named(items) == UNION {i.chats : i \in ToSet(items)}

(* add: under the state lock, the oldest make room.                        *)
Add(items) ==
  pending' = Newest(pending \o items, MaxPending - Len(processing))

-----------------------------------------------------------------------------
(* The worker of a web process.                                            *)

Targets(role) ==
  LET stored == IF audience # {} THEN audience ELSE ids
  IN IF role = "edit" /\ stored # {} THEN stored ELSE routed

(* _store_recipient_ids and _store_message_ids merge under the row lock.   *)
Frozen(role, chats) == audience' = IF role = "new" THEN audience \cup chats ELSE audience

Stored(sent) == ids' = ids \cup sent

(* A creation is not sent before its audience is stored.                   *)
Take(w) ==
  /\ doing[w] = <<>> /\ mailbox[w] # <<>>
  /\ mailbox' = [mailbox EXCEPT ![w] = Tail(@)]
  /\ LET role == Head(mailbox[w])
         chats == Targets(role)
     IN \/ /\ chats = {}
           /\ UNCHANGED <<audience, doing, pending>> /\ NoFault
        \/ /\ chats # {}
           /\ Frozen(role, chats)
           /\ doing' = [doing EXCEPT ![w] = <<Item(role, chats, 0)>>]
           /\ UNCHANGED pending /\ NoFault
        \/ /\ chats # {} /\ role = "new" /\ Fault({})
           /\ Add(<<Item("new", chats, 1)>>)
           /\ UNCHANGED <<audience, doing>>
  /\ UNCHANGED <<status, routed, disp, ids, processing, dead, pass, telegram>>

(* Mutant: when a chat fails the message is tried again for all.           *)
SendToAll(w) ==
  /\ Len(doing[w]) = 1
  /\ LET i == doing[w][1] IN
       \E o \in Outcomes(i.role, i.chats) :
         /\ Reaches(i.role, o.answered \cup o.silent)
         /\ IF o.silent = {} THEN NoFault ELSE Fault(o.silent)
         /\ doing' = [doing EXCEPT ![w] =
              <<i, Item("persist", IF i.role = "new" THEN o.answered ELSE {}, 0),
                Item(i.role, IF o.answered = i.chats THEN {} ELSE i.chats, 1)>>]
  /\ UNCHANGED <<database, mailbox, redis>>

(* What is left of a message once Telegram has been called: the ids to     *)
(* store and the chats to try again.                                       *)
Send(w) ==
  /\ Len(doing[w]) = 1
  /\ LET i == doing[w][1] IN
       \E o \in Outcomes(i.role, i.chats) :
         /\ Reaches(i.role, o.answered \cup o.silent)
         /\ IF o.silent = {} THEN NoFault ELSE Fault(o.silent)
         /\ doing' = [doing EXCEPT ![w] =
              <<i, Item("persist", IF i.role = "new" THEN o.answered ELSE {}, 0),
                Item(i.role, i.chats \ o.answered, 1)>>]
  /\ UNCHANGED <<database, mailbox, redis>>

Whole(i) == IF i.chats = {} THEN <<>> ELSE <<i>>

(* Storing the ids may fail: they are retried, the creation is not sent    *)
(* again.  When the state lock stays busy the whole message is requeued to *)
(* all its chats, or lost.                                                 *)
Finish(w) ==
  /\ Len(doing[w]) = 3
  /\ doing' = [doing EXCEPT ![w] = <<>>]
  /\ LET i == doing[w][1] persist == doing[w][2] again == doing[w][3] IN
       \/ /\ Stored(persist.chats)
          /\ Add(Whole(again)) /\ NoFault
       \/ /\ persist.chats # {} /\ Fault({})
          /\ Add(Whole(persist) \o Whole(again)) /\ UNCHANGED ids
       \/ /\ persist.chats # {} \/ again.chats # {}
          /\ Fault(i.chats)
          /\ ids' \in {ids, ids \cup persist.chats}
          /\ Add(<<Item(i.role, i.chats, 1)>>) \/ UNCHANGED pending
  /\ UNCHANGED <<status, routed, disp, audience, mailbox, processing, dead, pass, telegram>>

CrashWeb(w) ==
  /\ mailbox[w] # <<>> \/ doing[w] # <<>>
  /\ mailbox' = [mailbox EXCEPT ![w] = <<>>] /\ doing' = [doing EXCEPT ![w] = <<>>]
  /\ Fault(Chats)
  /\ UNCHANGED <<database, redis, telegram>>

-----------------------------------------------------------------------------
(* The retry worker.                                                       *)

(* The items at some places in their order, the only member of this set.   *)
Picked(items, at) ==
  {[n \in 1..Cardinality(at) |-> items[f[n]]] :
     f \in {g \in Bijection(1..Cardinality(at), at) : \A m, n \in 1..Cardinality(at) : m < n => g[m] < g[n]}}

(* Mutant: the claimed items are not kept for a replay.                    *)
ClaimAway ==
  /\ ~pass.on /\ pending # <<>>
  /\ pass' = [Idle EXCEPT !.on = TRUE, !.left = pending] /\ pending' = <<>>
  /\ UNCHANGED <<database, processes, processing, dead, telegram>> /\ NoFault

(* A batch that is there is a batch of a worker that died.                 *)
Claim ==
  /\ ~pass.on
  /\ \/ /\ processing # <<>>
        /\ pass' = [Idle EXCEPT !.on = TRUE, !.left = processing]
        /\ UNCHANGED <<pending, processing>>
     \/ /\ processing = <<>> /\ pending # <<>>
        /\ \E due \in (SUBSET DOMAIN pending) \ {{}} :
             /\ processing' \in Picked(pending, due)
             /\ pending' \in Picked(pending, DOMAIN pending \ due)
        /\ pass' = [Idle EXCEPT !.on = TRUE, !.left = processing']
  /\ UNCHANGED <<database, processes, dead, telegram>> /\ NoFault

(* Mutant: the attempts are not counted.                                   *)
AfterUncounted(failed, follow) ==
  pass' = [pass EXCEPT !.left = Tail(@), !.back = @ \o follow \o
             IF failed = {} THEN <<>> ELSE <<[Head(pass.left) EXCEPT !.chats = failed]>>]

(* An item that failed comes back with one attempt more, or is dead.       *)
After(failed, follow) ==
  LET i == Head(pass.left)
      again == [i EXCEPT !.chats = failed, !.attempts = @ + 1]
      gone == failed # {} /\ again.attempts >= MaxAttempts
  IN pass' = [pass EXCEPT !.left = Tail(@),
                          !.back = @ \o follow \o IF gone \/ failed = {} THEN <<>> ELSE <<again>>,
                          !.lost = @ \o IF gone THEN <<again>> ELSE <<>>]

(* One item of the batch: the ids alone, or a call of Telegram; a message  *)
(* whose ids cannot be stored leaves an item that stores them.             *)
WorkPersist ==
  /\ pass.on /\ pass.left # <<>>
  /\ LET i == Head(pass.left) IN
       /\ i.role = "persist"
       /\ \/ /\ audience' = audience \cup i.chats /\ Stored(i.chats)
             /\ After({}, <<>>) /\ NoFault
          \/ /\ UNCHANGED <<audience, ids>> /\ After(i.chats, <<>>) /\ Fault({})
  /\ UNCHANGED <<status, routed, disp, processes, pending, processing, dead, telegram>>

WorkSend ==
  /\ pass.on /\ pass.left # <<>>
  /\ LET i == Head(pass.left) IN
       /\ i.role # "persist"
       /\ Frozen(i.role, i.chats)
       /\ \E o \in Outcomes(i.role, i.chats) :
            LET sent == IF i.role = "new" THEN o.answered ELSE {} IN
            /\ Reaches(i.role, o.answered \cup o.silent)
            /\ \/ /\ Stored(sent) /\ After(i.chats \ o.answered, <<>>)
                  /\ IF o.silent = {} THEN NoFault ELSE Fault(o.silent)
               \/ /\ sent # {} /\ UNCHANGED ids
                  /\ After(i.chats \ o.answered, <<Item("persist", sent, 0)>>)
                  /\ Fault(o.silent)
  /\ UNCHANGED <<status, routed, disp, processes, pending, processing, dead>>

(* _complete_batch: retries before newer work, the oldest dropped.         *)
Complete ==
  /\ pass.on /\ pass.left = <<>>
  /\ pending' = Newest(pass.back \o pending, MaxPending)
  /\ dead' = dead \o pass.lost
  /\ processing' = <<>> /\ pass' = Idle
  /\ UNCHANGED <<database, processes, telegram>> /\ NoFault

(* The claimed batch is worked again from its start.                       *)
CrashRetry ==
  /\ pass.on /\ pass' = Idle /\ Fault(Named(processing))
  /\ UNCHANGED <<database, processes, pending, processing, dead, telegram>>

(* An operator clears the queue, never under an active pass.               *)
Clear ==
  /\ ~pass.on /\ pending \o processing # <<>>
  /\ Fault(Named(pending \o processing))
  /\ pending' = <<>> /\ processing' = <<>>
  /\ UNCHANGED <<database, processes, dead, pass, telegram>>

-----------------------------------------------------------------------------
NoticeNext ==
  \/ \E s \in {"READY", "CANCELED"} : SaveOrder(s)
  \/ \E chats \in Routings : Reroute(chats)
  \/ \E w \in Webs : Dispatch(w) \/ Take(w) \/ Send(w) \/ Finish(w) \/ CrashWeb(w)
  \/ Claim \/ WorkPersist \/ WorkSend \/ Complete \/ CrashRetry \/ Clear

NoticeSpec == NoticeInit /\ [][NoticeNext]_noticeVars

(* The thread of a process and the loop of the retry worker go on; either  *)
(* has one step at a time.                                                 *)
NoticeFairSpec ==
  /\ NoticeSpec
  /\ \A w \in Webs : WF_noticeVars(Take(w) \/ Send(w) \/ Finish(w))
  /\ WF_noticeVars(Claim \/ WorkPersist \/ WorkSend \/ Complete)

-----------------------------------------------------------------------------
(* Properties.                                                             *)

In(items, role, c) == \E i \in ToSet(items) : i.role = role /\ c \in i.chats

Waits(role, c) == In(pending \o processing, role, c)

Held(role, c) == Waits(role, c) \/ In(dead, role, c)

Done(role, c) ==
  CASE role = "new" -> roots[c] > 0
    [] role = "edit" -> c \in edited
    [] role = "reply" -> c \in told
    [] OTHER -> c \in ids

Full == Len(pending) + Len(processing) = MaxPending

(* The creation of an order comes to a chat more than once only where a    *)
(* fault left its first delivery in doubt: an answer that was lost, a      *)
(* crash after the call, a dispatch that did not commit, a busy lock.      *)
(* Retries alone, of messages or of ids, never send it again ("The root    *)
(* message is never sent twice", queue_service.py:71).                     *)
RootOnce == \A c \in Chats : roots[c] > 1 => c \in doubt

(* What the retry queue has taken stays in it, claimed or waiting or dead, *)
(* until it is delivered; only a full queue or an operator takes it away.  *)
(* A worker that dies loses nothing ("the next lease owner must replay the *)
(* claimed work rather than silently lose it", _claim_batch).              *)
KeptUntilDone ==
  [][Clear \/ Full' \/
       \A role \in {"new", "edit", "reply", "persist"}, c \in Chats :
         Held(role, c) => Held(role, c)' \/ Done(role, c)']_noticeVars

(* What waits in the retry queue does not wait for ever: the queue drains, *)
(* by delivery or by MAX_ATTEMPTS, also of an edit that overtook the       *)
(* creation it needs, and also when the worker dies with a batch.          *)
Drains == pending \o processing # <<>> ~> pending \o processing = <<>>
=============================================================================
