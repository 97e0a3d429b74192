----------------------------- MODULE CloudFeed -----------------------------
(***************************************************************************)
(* The hub's change feed and the terminals that pull it.                   *)
(*                                                                         *)
(* A hub write stores new content with synced_at = NULL and publishes it   *)
(* after its commit, by a callback that draws a timestamp from a durable   *)
(* logical clock.  A terminal asks for the changes after its cursor; the   *)
(* hub draws a snapshot cutoff from the same clock in a transaction of its *)
(* own, and then scans the models one query at a time, so that other       *)
(* requests, writers and publishers run between any two of its steps.      *)
(*                                                                         *)
(* A time is a number of microseconds; 0 stands for "no time": a NULL      *)
(* synced_at, an absent cursor, a clock that was never installed.          *)
(***************************************************************************)
EXTENDS Integers, FiniteSets

CONSTANTS
  Rows,        \* primary keys of the synchronised rows
  NModels,     \* the models are 1..NModels, in SYNC_ORDER
  ModelOf,     \* [Rows -> 1..NModels]
  Branches,    \* the terminals that pull
  Scope,       \* [Rows -> SUBSET Branches]: whom the feed exposes a row to
  Workers,     \* request handlers of the hub that run at the same time
  PerPage,     \* rows of one model in one response
  Legacy,      \* [Rows -> Nat]: synced_at of rows older than the clock
  MaxVersion,  \* bound: versions of a row
  MaxClock,    \* bound: the last instant of the clock
  MaxTimeouts  \* bound: answers a terminal stops waiting for

None == "none"    \* no request, no branch

ASSUME CloudFeedAssumption ==
  /\ None \notin Branches \cup Workers
  /\ Rows \subseteq Nat /\ IsFiniteSet(Rows)
  /\ NModels \in Nat \ {0}
  /\ ModelOf \in [Rows -> 1..NModels]
  /\ Scope \in [Rows -> SUBSET Branches]
  /\ PerPage \in Nat \ {0}
  /\ Legacy \in [Rows -> 0..MaxClock]
  /\ MaxVersion \in Nat \ {0} /\ MaxClock \in Nat /\ MaxTimeouts \in Nat

VARIABLES
  clock,      \* SyncState['cloud_change_feed_clock_v1']
  version,    \* version[r]: sync_version of the committed row, 0 before it exists
  synced,     \* synced[r]: its synced_at
  callbacks,  \* <<r, v>>: on_commit publishers that have not run
  req,        \* req[w]: the request worker w handles
  pull,       \* pull[b]: the pull terminal b runs
  durable,    \* durable[b]: the cursor terminal b has stored
  applied,    \* applied[b][r]: the version terminal b holds
  timeouts    \* answers given up so far

vars == <<clock, version, synced, callbacks, req, pull, durable, applied, timeouts>>

Time == 0..MaxClock
Version == 0..MaxVersion
Phase == {"idle", "select", "promote", "read", "refetch", "reply"}

(***************************************************************************)
(* One request: the models up to `model' are scanned, `page' holds the     *)
(* versions collected so far (0: not served), `sel' the NULL rows selected *)
(* for promotion in this model, `fallback' whether they are served without *)
(* a timestamp because their promotion failed.                             *)
(***************************************************************************)
Request == [phase : Phase, branch : Branches \cup {None}, since : Time,
            cutoff : Time, model : 1..NModels, sel : SUBSET Rows,
            frontier : Time, nextSince : Time, hasMore : BOOLEAN,
            publishable : BOOLEAN, fallback : BOOLEAN, page : [Rows -> Version]]

NoPage == [r \in Rows |-> 0]

IdleRequest == [phase |-> "idle", branch |-> None, since |-> 0, cutoff |-> 0,
                model |-> 1, sel |-> {}, frontier |-> 0, nextSince |-> 0,
                hasMore |-> FALSE, publishable |-> TRUE, fallback |-> FALSE,
                page |-> NoPage]

Pull == [state : {"idle", "asking", "waiting"}, cursor : Time,
         by : Workers \cup {None}]

IdlePull == [state |-> "idle", cursor |-> 0, by |-> None]

(* The pull of b that has to ask for its page again.                       *)
AskAgain(b) == [state |-> "asking", cursor |-> pull[b].cursor, by |-> None]

TypeOK ==
  /\ clock \in Time
  /\ version \in [Rows -> Version]
  /\ synced \in [Rows -> Time]
  /\ callbacks \subseteq Rows \X Version
  /\ req \in [Workers -> Request]
  /\ pull \in [Branches -> Pull]
  /\ durable \in [Branches -> Time]
  /\ applied \in [Branches -> [Rows -> Version]]
  /\ timeouts \in 0..MaxTimeouts

Init ==
  /\ clock = 0
  /\ version = [r \in Rows |-> IF Legacy[r] = 0 THEN 0 ELSE 1]
  /\ synced = Legacy
  /\ callbacks = {}
  /\ req = [w \in Workers |-> IdleRequest]
  /\ pull = [b \in Branches |-> IdlePull]
  /\ durable = [b \in Branches |-> 0]
  /\ applied = [b \in Branches |-> NoPage]
  /\ timeouts = 0

-----------------------------------------------------------------------------
(* The clock: allocate_cloud_feed_timestamp.                               *)

(* Mutant: the stamp is the wall clock's, which may stand still or go back. *)
AllocatesWallClock(t) == t > 0 /\ clock' = t

(* A stamp is beyond the previous one, whatever the wall clock says, and a *)
(* clock that is first installed starts beyond every existing publication. *)
Allocates(t) ==
  /\ t > clock
  /\ clock = 0 => \A r \in Rows : t > synced[r]
  /\ clock' = t

-----------------------------------------------------------------------------
(* Writers and publishers of the hub.                                      *)

(* A committed hub write of row r: a new version, not yet published, and   *)
(* the publisher registered to run after the commit.                       *)
Save(r) ==
  /\ version[r] < MaxVersion
  /\ version' = [version EXCEPT ![r] = @ + 1]
  /\ synced' = [synced EXCEPT ![r] = 0]
  /\ callbacks' = callbacks \cup {<<r, version[r] + 1>>}
  /\ UNCHANGED <<clock, req, pull, durable, applied, timeouts>>

(* The row this publisher was registered for is still that version, and no *)
(* other publication of it won.                                            *)
StillPending(r, v) == version[r] = v /\ synced[r] = 0

(* The publisher: the clock advances and the row is stamped in one         *)
(* transaction; a publisher of a superseded version stamps nothing.        *)
Publish(r, v) ==
  /\ <<r, v>> \in callbacks
  /\ \E t \in Time :
       /\ Allocates(t)
       /\ synced' = IF StillPending(r, v) THEN [synced EXCEPT ![r] = t] ELSE synced
  /\ callbacks' = callbacks \ {<<r, v>>}
  /\ UNCHANGED <<version, req, pull, durable, applied, timeouts>>

(* The process dies after the commit, or the publisher fails: robust       *)
(* callbacks are logged and dropped, and the row stays NULL.               *)
LosePublisher(r, v) ==
  /\ <<r, v>> \in callbacks
  /\ callbacks' = callbacks \ {<<r, v>>}
  /\ UNCHANGED <<clock, version, synced, req, pull, durable, applied, timeouts>>

-----------------------------------------------------------------------------
(* The feed handler, views.changes.                                        *)

Served(w) == {r \in Rows : req[w].page[r] # 0}

(* The rows of the model under scan that the feed exposes to this branch.  *)
InScan(w, r) ==
  /\ version[r] # 0
  /\ ModelOf[r] = req[w].model
  /\ req[w].branch \in Scope[r]

NullRows(w) == {r \in Rows : InScan(w, r) /\ synced[r] = 0}

(* The first PerPage of a set of rows in primary-key order.                *)
FirstPage(S) == {r \in S : Cardinality({q \in S : q < r}) < PerPage}

Timed(w) == {r \in Rows : /\ InScan(w, r)
                          /\ synced[r] # 0
                          /\ synced[r] <= req[w].cutoff
                          /\ synced[r] > req[w].since}

UpTo(S, t) == {r \in S : synced[r] <= t}

(* The timestamp of the PerPage-th row of S in (synced_at, pk) order.      *)
IsFrontier(S, t) ==
  /\ \E r \in S : synced[r] = t
  /\ Cardinality(UpTo(S, t)) >= PerPage
  /\ Cardinality({r \in S : synced[r] < t}) < PerPage

(* The page with the rows of S added, at the versions they have now.       *)
Collect(w, S) == [r \in Rows |-> IF r \in S THEN version[r] ELSE req[w].page[r]]

(* What the scan of one model leaves for the next one, or for the answer.  *)
NextModel(w, rq) ==
  req' = [req EXCEPT ![w] =
            IF rq.model = NModels
              THEN [rq EXCEPT !.phase = "reply", !.sel = {}, !.fallback = FALSE]
              ELSE [rq EXCEPT !.phase = "select", !.model = @ + 1,
                              !.sel = {}, !.fallback = FALSE]]

hubData == <<version, callbacks>>
terminals == <<pull, durable, applied, timeouts>>

(* A request arrives: its cutoff is drawn in a transaction of its own,     *)
(* before anything is read.                                                *)
Arrive(b, w) ==
  /\ pull[b].state = "asking"
  /\ req[w].phase = "idle"
  /\ \E t \in Time :
       /\ Allocates(t)
       /\ req' = [req EXCEPT ![w] = [IdleRequest EXCEPT !.phase = "select",
                    !.branch = b, !.since = pull[b].cursor, !.cutoff = t]]
  /\ pull' = [pull EXCEPT ![b] = [@ EXCEPT !.state = "waiting", !.by = w]]
  /\ UNCHANGED <<synced, durable, applied, timeouts, hubData>>

(* A bounded slice of the NULL rows of the model, in primary-key order.    *)
SelectNull(w) ==
  /\ req[w].phase = "select"
  /\ LET sel == FirstPage(NullRows(w)) IN
       req' = [req EXCEPT ![w] = [@ EXCEPT
                 !.sel = sel, !.phase = IF sel = {} THEN "read" ELSE "promote"]]
  /\ UNCHANGED <<clock, synced, hubData, terminals>>

(* The rows of the slice that are NULL when the update runs enter the feed *)
(* at this request's cutoff.                                               *)
Promote(w) ==
  /\ req[w].phase = "promote"
  /\ synced' = [r \in Rows |-> IF r \in req[w].sel /\ synced[r] = 0
                                 THEN req[w].cutoff ELSE synced[r]]
  /\ req' = [req EXCEPT ![w].phase = "read"]
  /\ UNCHANGED <<clock, hubData, terminals>>

(* The update fails: the slice is served as it is, the answer carries no   *)
(* cursor, and the timed rows of the model are left to a later pull.       *)
PromoteFails(w) ==
  /\ req[w].phase = "promote"
  /\ LET still == {r \in req[w].sel : synced[r] = 0} IN
       req' = [req EXCEPT ![w] = [@ EXCEPT
                 !.phase = "read", !.publishable = FALSE,
                 !.fallback = (still # {}), !.page = Collect(w, still)]]
  /\ UNCHANGED <<clock, synced, hubData, terminals>>

(* The timed rows of the model fit in one page.                            *)
ReadWhole(w) ==
  /\ req[w].phase = "read"
  /\ Cardinality(Timed(w)) <= PerPage
  /\ NextModel(w, [req[w] EXCEPT
       !.page = IF req[w].fallback THEN @ ELSE Collect(w, Timed(w))])
  /\ UNCHANGED <<clock, synced, hubData, terminals>>

(* The least frontier of the models scanned so far.                        *)
EarlierResume(w, t) ==
  IF req[w].nextSince = 0 \/ t < req[w].nextSince THEN t ELSE req[w].nextSince

(* They do not: the resume point may not pass the frontier of this model.  *)
ReadOverflow(w) ==
  /\ req[w].phase = "read"
  /\ Cardinality(Timed(w)) > PerPage
  /\ \E t \in Time :
       /\ IsFrontier(Timed(w), t)
       /\ req' = [req EXCEPT ![w] = [@ EXCEPT
                   !.phase = "refetch", !.frontier = t, !.hasMore = TRUE,
                   !.nextSince = EarlierResume(w, t)]]
  /\ UNCHANGED <<clock, synced, hubData, terminals>>

(* Mutant: the page is cut at its size, between rows of one timestamp. *)
RefetchTruncated(w) ==
  /\ req[w].phase = "refetch"
  /\ NextModel(w, [req[w] EXCEPT
       !.page = IF req[w].fallback THEN @
                ELSE Collect(w, FirstPage(UpTo(Timed(w), req[w].frontier)))])
  /\ UNCHANGED <<clock, synced, hubData, terminals>>

(* A second query fetches the page with the whole frontier timestamp.      *)
Refetch(w) ==
  /\ req[w].phase = "refetch"
  /\ NextModel(w, [req[w] EXCEPT
       !.page = IF req[w].fallback THEN @
                ELSE Collect(w, UpTo(Timed(w), req[w].frontier))])
  /\ UNCHANGED <<clock, synced, hubData, terminals>>

(* The request dies on the hub, by a crash of its worker or an unhandled   *)
(* error; fetch_changes asks again for the same page, or gives up.         *)
RequestDies(w) ==
  /\ req[w].phase # "idle"
  /\ req' = [req EXCEPT ![w] = IdleRequest]
  /\ pull' = [b \in Branches |-> IF pull[b].by = w THEN AskAgain(b) ELSE pull[b]]
  /\ UNCHANGED <<clock, synced, durable, applied, timeouts, hubData>>

(* An answer nobody waits for any more.                                    *)
DropAnswer(w) ==
  /\ req[w].phase = "reply"
  /\ \A b \in Branches : pull[b].by # w
  /\ req' = [req EXCEPT ![w] = IdleRequest]
  /\ UNCHANGED <<clock, synced, hubData, terminals>>

-----------------------------------------------------------------------------
(* The terminal, SyncService.pull_from_cloud.                              *)

(* What the answer says of its cursor (views.py, the JsonResponse).        *)
AnswerHasMore(w) == req[w].hasMore \/ ~req[w].publishable
AnswerNextSince(w) == IF req[w].publishable THEN req[w].nextSince ELSE req[w].since

(* One microsecond before the cutoff: the boundary is replayed.            *)
ResumeCutoff(w) == req[w].cutoff - 1

StartPull(b) ==
  /\ pull[b].state = "idle"
  /\ pull' = [pull EXCEPT ![b] = [state |-> "asking", cursor |-> durable[b], by |-> None]]
  /\ UNCHANGED <<clock, synced, req, durable, applied, timeouts, hubData>>

(* The terminal stops waiting for the answer, and the hub goes on with the *)
(* request.                                                                *)
TimeOut(b) ==
  /\ pull[b].state = "waiting"
  /\ timeouts < MaxTimeouts
  /\ timeouts' = timeouts + 1
  /\ pull' = [pull EXCEPT ![b] = AskAgain(b)]
  /\ UNCHANGED <<clock, synced, req, durable, applied, hubData>>

Answered(b, w) == pull[b].by = w /\ req[w].phase = "reply"

(* The terminal applies the rows of the answer, which are in S.            *)
Applies(b, w, S) ==
  applied' = [applied EXCEPT ![b] =
                [r \in Rows |-> IF r \in S THEN req[w].page[r] ELSE @[r]]]

(* An absent cursor is never stored over a stored one.                     *)
Stores(b, c) == durable' = IF c = 0 THEN durable ELSE [durable EXCEPT ![b] = c]

(* The last page: the cursor becomes the boundary of the cutoff.           *)
FinishPull(b, w) ==
  /\ Answered(b, w)
  /\ ~AnswerHasMore(w)
  /\ Applies(b, w, Served(w))
  /\ Stores(b, ResumeCutoff(w))
  /\ pull' = [pull EXCEPT ![b] = IdlePull]
  /\ req' = [req EXCEPT ![w] = IdleRequest]
  /\ UNCHANGED <<clock, synced, timeouts, hubData>>

(* More pages: the cursor advances in memory only.                         *)
NextPage(b, w) ==
  /\ Answered(b, w)
  /\ AnswerHasMore(w)
  /\ AnswerNextSince(w) \notin {0, pull[b].cursor}
  /\ Applies(b, w, Served(w))
  /\ pull' = [pull EXCEPT ![b] = [state |-> "asking",
                                  cursor |-> AnswerNextSince(w), by |-> None]]
  /\ req' = [req EXCEPT ![w] = IdleRequest]
  /\ UNCHANGED <<clock, synced, durable, timeouts, hubData>>

(* More pages and no way to reach them: the pull ends with an error, and   *)
(* stores the frontier its earlier pages reached.                          *)
StuckPull(b, w) ==
  /\ Answered(b, w)
  /\ AnswerHasMore(w)
  /\ AnswerNextSince(w) \in {0, pull[b].cursor}
  /\ Applies(b, w, Served(w))
  /\ Stores(b, pull[b].cursor)
  /\ pull' = [pull EXCEPT ![b] = IdlePull]
  /\ req' = [req EXCEPT ![w] = IdleRequest]
  /\ UNCHANGED <<clock, synced, timeouts, hubData>>

(* The pull ends before its cursor is stored: a crash while the records of *)
(* a page are applied one transaction each, records that stay deferred for *)
(* a missing parent, a lost lease, a failed fetch.                         *)
AbandonPull(b) ==
  /\ \/ pull[b].state = "asking" /\ UNCHANGED <<applied, req>>
     \/ \E w \in Workers :
          /\ Answered(b, w)
          /\ \E S \in SUBSET Served(w) : Applies(b, w, S)
          /\ req' = [req EXCEPT ![w] = IdleRequest]
  /\ pull' = [pull EXCEPT ![b] = IdlePull]
  /\ UNCHANGED <<clock, synced, durable, timeouts, hubData>>

-----------------------------------------------------------------------------
Writer == \E r \in Rows : \/ Save(r)
                          \/ \E v \in Version : Publish(r, v) \/ LosePublisher(r, v)

Handler == \E w \in Workers :
  \/ SelectNull(w) \/ Promote(w) \/ PromoteFails(w)
  \/ ReadWhole(w) \/ ReadOverflow(w) \/ Refetch(w)
  \/ RequestDies(w) \/ DropAnswer(w)

Terminal == \E b \in Branches :
  \/ StartPull(b) \/ TimeOut(b) \/ AbandonPull(b)
  \/ \E w \in Workers : Arrive(b, w) \/ FinishPull(b, w) \/ NextPage(b, w) \/ StuckPull(b, w)

Next == Writer \/ Handler \/ Terminal

Spec == Init /\ [][Next]_vars
-----------------------------------------------------------------------------
(* Properties.                                                             *)

(* The clock never falls behind a publication, nor a request behind the    *)
(* clock: a publication committed before a snapshot is at or below its     *)
(* cutoff, also on a hub whose rows were stamped before the clock existed. *)
ClockCoversFeed ==
  clock # 0 => /\ \A r \in Rows : synced[r] <= clock
               /\ \A w \in Workers : req[w].cutoff <= clock
               /\ \A b \in Branches : durable[b] <= clock

(* The promise of the cursor (pull_from_cloud: "a cursor proves every      *)
(* record at or below it was durably applied"): a terminal holds the       *)
(* current version of every row published to it at or below its cursor.    *)
NothingBehindCursor ==
  \A b \in Branches, r \in Rows :
    (b \in Scope[r] /\ synced[r] # 0 /\ synced[r] <= durable[b])
      => applied[b][r] = version[r]

(* The promise of the clock to a terminal that has pulled (feed_clock.py:  *)
(* a publication committed after a snapshot "has a strictly newer          *)
(* timestamp and is therefore visible on the next pull"): whatever enters  *)
(* the feed enters it beyond the cursor of every terminal it is meant for. *)
LaterPublicationIsVisible ==
  [][\A r \in Rows : (synced[r] = 0 /\ synced'[r] # 0) =>
       \A b \in Scope[r] : synced'[r] > durable[b]]_vars

(* The in-memory cursor of one pull never goes back: whatever mixture of   *)
(* frontiers, failed promotions and repeated requests the pages bring, no  *)
(* page behind one that was applied is asked for again.                    *)
PagesAdvance ==
  [][\A b \in Branches :
       (pull[b].state = "waiting" /\ pull'[b].state = "asking")
         => pull'[b].cursor >= pull[b].cursor]_vars

(* A stored cursor of a terminal is never moved back by its own pulls.     *)
CursorNeverMovesBack ==
  [][\A b \in Branches : durable'[b] >= durable[b]]_vars
=============================================================================
