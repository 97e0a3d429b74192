----------------------------- MODULE HubProofs -----------------------------
(***************************************************************************)
(* Theorems about the hub: its change feed (CloudFeed), for any number of  *)
(* rows, models, terminals and request handlers, any page size and any     *)
(* bounds, and the messages about an order (Notifications), for any number *)
(* of chats, web processes and faults and any lengths of the queue.        *)
(***************************************************************************)
EXTENDS CloudFeed, Notifications, FiniteSetTheorems, TLAPS

(* The clock is at or beyond everything that was drawn from it, and beyond *)
(* what was published before it was installed.                             *)
ClockInv ==
  /\ clock # 0 => \A r \in Rows : synced[r] <= clock
  /\ \A w \in Workers : req[w].cutoff <= clock
  /\ \A b \in Branches : durable[b] <= clock

(* A request at work has a cutoff, and its resume point lies between the   *)
(* cursor it was asked with and its cutoff.                                *)
RequestInv == \A w \in Workers :
  /\ req[w].phase # "idle" => req[w].cutoff # 0
  /\ req[w].nextSince # 0 => /\ req[w].since < req[w].nextSince
                             /\ req[w].nextSince <= req[w].cutoff

(* A pull goes forward from the stored cursor, and the request it waits    *)
(* for is its own, is still at work, was asked with its cursor and has a   *)
(* cutoff beyond the stored cursor.                                        *)
PullInv == \A b \in Branches :
  /\ pull[b].state # "idle" => durable[b] <= pull[b].cursor
  /\ pull[b].cursor <= clock
  /\ pull[b].by # None => pull[b].state = "waiting"
  /\ \A w \in Workers : pull[b].by = w =>
       /\ req[w].phase # "idle"
       /\ req[w].branch = b
       /\ req[w].since = pull[b].cursor
       /\ durable[b] < req[w].cutoff

IInv == TypeOK /\ ClockInv /\ RequestInv /\ PullInv

LEMMA InitIInv == Init => IInv
BY CloudFeedAssumption
   DEF Init, IInv, TypeOK, ClockInv, RequestInv, PullInv, Time, Version, Phase,
       Request, Pull, IdleRequest, IdlePull, NoPage

(* What a scan leaves in a request is a request again.                     *)
LEMMA CollectType ==
  ASSUME TypeOK, NEW w \in Workers, NEW S
  PROVE  Collect(w, S) \in [Rows -> Version]
BY DEF TypeOK, Collect, Request

(* What a pull applies of a page are versions of rows.                      *)
LEMMA AppliesType ==
  ASSUME NEW b \in Branches, NEW w \in Workers, NEW S,
         applied \in [Branches -> [Rows -> Version]],
         req[w].page \in [Rows -> Version],
         Applies(b, w, S)
  PROVE  applied' \in [Branches -> [Rows -> Version]]
<1>1. [r \in Rows |-> IF r \in S THEN req[w].page[r] ELSE applied[b][r]] \in [Rows -> Version]
  OBVIOUS
<1>2. QED
  BY <1>1 DEF Applies

(* What the steps of the handler store in a request has its type.          *)
LEMMA PhaseType ==
  ASSUME NEW q \in Request, NEW p \in Phase
  PROVE  [q EXCEPT !.phase = p] \in Request
BY DEF Request

LEMMA SelectType ==
  ASSUME NEW q \in Request, NEW s \in SUBSET Rows, NEW p \in Phase
  PROVE  [q EXCEPT !.sel = s, !.phase = p] \in Request
BY DEF Request

LEMMA PageType ==
  ASSUME NEW q \in Request, NEW g \in [Rows -> Version]
  PROVE  [q EXCEPT !.page = g] \in Request
BY DEF Request

LEMMA FallbackType ==
  ASSUME NEW q \in Request, NEW f \in BOOLEAN, NEW g \in [Rows -> Version]
  PROVE  [q EXCEPT !.phase = "read", !.publishable = FALSE,
                   !.fallback = f, !.page = g] \in Request
BY DEF Request, Phase

LEMMA OverflowType ==
  ASSUME NEW q \in Request, NEW t \in Time, NEW n \in Time
  PROVE  [q EXCEPT !.phase = "refetch", !.frontier = t, !.hasMore = TRUE,
                   !.nextSince = n] \in Request
BY DEF Request, Phase

LEMMA EarlierTime == \A t \in Time : t # 0 => t - 1 \in Time
BY CloudFeedAssumption DEF Time

LEMMA NextModelType ==
  ASSUME TypeOK, NEW w \in Workers, NEW rq \in Request, NextModel(w, rq)
  PROVE  req' \in [Workers -> Request]
<1> USE CloudFeedAssumption
<1>1. CASE rq.model = NModels
  <2>1. [rq EXCEPT !.phase = "reply", !.sel = {}, !.fallback = FALSE] \in Request
    BY DEF Request, Phase
  <2>2. QED
    BY <1>1, <2>1 DEF NextModel, TypeOK
<1>2. CASE rq.model # NModels
  <2>1. rq.model + 1 \in 1..NModels
    BY <1>2 DEF Request
  <2>2. [rq EXCEPT !.phase = "select", !.model = @ + 1, !.sel = {},
                   !.fallback = FALSE] \in Request
    BY <2>1 DEF Request, Phase
  <2>3. QED
    BY <1>2, <2>2 DEF NextModel, TypeOK
<1>3. QED
  BY <1>1, <1>2

LEMMA IdleTypes == IdleRequest \in Request /\ IdlePull \in Pull
BY CloudFeedAssumption
   DEF IdleRequest, IdlePull, NoPage, Request, Pull, Phase, Time, Version

LEMMA TypeStep == IInv /\ [Next]_vars => TypeOK'
<1> SUFFICES ASSUME IInv, [Next]_vars PROVE TypeOK'
  OBVIOUS
<1> USE CloudFeedAssumption DEF IInv, TypeOK, Time, Version, Phase, hubData, terminals
<1>1. ASSUME NEW r \in Rows, Save(r) PROVE TypeOK'
  BY <1>1 DEF Save
<1>2. ASSUME NEW r \in Rows, NEW v \in Version, Publish(r, v) PROVE TypeOK'
  BY <1>2 DEF Publish, Allocates
<1>3. ASSUME NEW r \in Rows, NEW v \in Version, LosePublisher(r, v) PROVE TypeOK'
  BY <1>3 DEF LosePublisher
<1>4. ASSUME NEW w \in Workers, SelectNull(w) PROVE TypeOK'
  <2> DEFINE sel == FirstPage(NullRows(w))
             rq == [req[w] EXCEPT !.sel = sel,
                      !.phase = IF sel = {} THEN "read" ELSE "promote"]
  <2>1. rq \in Request
    <3>1. sel \in SUBSET Rows
      BY DEF FirstPage, NullRows
    <3>2. req[w] \in Request /\ (IF sel = {} THEN "read" ELSE "promote") \in Phase
      OBVIOUS
    <3>3. QED
      BY <3>1, <3>2, SelectType
  <2>2. req' = [req EXCEPT ![w] = rq]
    BY <1>4 DEF SelectNull
  <2>3. QED
    BY <1>4, <2>1, <2>2 DEF SelectNull
<1>5. ASSUME NEW w \in Workers, Promote(w) PROVE TypeOK'
  <2>1. req[w] \in Request /\ "read" \in Phase
    OBVIOUS
  <2>2. [req[w] EXCEPT !.phase = "read"] \in Request
    BY <2>1, PhaseType
  <2>3. req[w].cutoff \in Time
    BY <2>1 DEF Request
  <2>4. QED
    BY <1>5, <2>2, <2>3 DEF Promote
<1>6. ASSUME NEW w \in Workers, PromoteFails(w) PROVE TypeOK'
  <2> DEFINE still == {r \in req[w].sel : synced[r] = 0}
             rq == [req[w] EXCEPT !.phase = "read", !.publishable = FALSE,
                      !.fallback = (still # {}), !.page = Collect(w, still)]
  <2>1. Collect(w, still) \in [Rows -> Version]
    BY CollectType
  <2>2. rq \in Request
    <3>1. req[w] \in Request /\ (still # {}) \in BOOLEAN
      OBVIOUS
    <3>2. QED
      BY <2>1, <3>1, FallbackType
  <2>3. req' = [req EXCEPT ![w] = rq]
    BY <1>6 DEF PromoteFails
  <2>4. QED
    BY <1>6, <2>2, <2>3 DEF PromoteFails
<1>7. ASSUME NEW w \in Workers, ReadWhole(w) PROVE TypeOK'
  <2> DEFINE page == IF req[w].fallback THEN req[w].page ELSE Collect(w, Timed(w))
             rq == [req[w] EXCEPT !.page = page]
  <2>1. page \in [Rows -> Version]
    BY CollectType DEF Request
  <2>2. rq \in Request
    <3>1. req[w] \in Request
      OBVIOUS
    <3>2. QED
      BY <2>1, <3>1, PageType
  <2>3. NextModel(w, rq)
    BY <1>7 DEF ReadWhole
  <2>4. req' \in [Workers -> Request]
    BY <2>2, <2>3, NextModelType
  <2>5. QED
    BY <1>7, <2>4 DEF ReadWhole
<1>8. ASSUME NEW w \in Workers, ReadOverflow(w) PROVE TypeOK'
  <2>1. PICK t \in Time : req' = [req EXCEPT ![w] = [@ EXCEPT
              !.phase = "refetch", !.frontier = t, !.hasMore = TRUE,
              !.nextSince = EarlierResume(w, t)]]
    BY <1>8 DEF ReadOverflow
  <2> DEFINE rq == [req[w] EXCEPT !.phase = "refetch", !.frontier = t,
                      !.hasMore = TRUE, !.nextSince = EarlierResume(w, t)]
  <2>2. rq \in Request
    <3>1. req[w] \in Request /\ EarlierResume(w, t) \in Time
      BY DEF EarlierResume, Request
    <3>2. QED
      BY <3>1, OverflowType
  <2>3. req' = [req EXCEPT ![w] = rq]
    BY <2>1
  <2>4. QED
    BY <1>8, <2>2, <2>3 DEF ReadOverflow
<1>9. ASSUME NEW w \in Workers, Refetch(w) PROVE TypeOK'
  <2> DEFINE page == IF req[w].fallback THEN req[w].page ELSE Collect(w, UpTo(Timed(w), req[w].frontier))
             rq == [req[w] EXCEPT !.page = page]
  <2>1. page \in [Rows -> Version]
    BY CollectType DEF Request
  <2>2. rq \in Request
    <3>1. req[w] \in Request
      OBVIOUS
    <3>2. QED
      BY <2>1, <3>1, PageType
  <2>3. NextModel(w, rq)
    BY <1>9 DEF Refetch
  <2>4. req' \in [Workers -> Request]
    BY <2>2, <2>3, NextModelType
  <2>5. QED
    BY <1>9, <2>4 DEF Refetch
<1>10. ASSUME NEW w \in Workers, RequestDies(w) PROVE TypeOK'
  BY <1>10, IdleTypes DEF RequestDies, AskAgain, Pull
<1>11. ASSUME NEW w \in Workers, DropAnswer(w) PROVE TypeOK'
  BY <1>11, IdleTypes DEF DropAnswer
<1>12. ASSUME NEW b \in Branches, StartPull(b) PROVE TypeOK'
  BY <1>12 DEF StartPull, Pull
<1>13. ASSUME NEW b \in Branches, TimeOut(b) PROVE TypeOK'
  BY <1>13 DEF TimeOut, AskAgain, Pull
<1>14. ASSUME NEW b \in Branches, AbandonPull(b) PROVE TypeOK'
  <2>1. applied' \in [Branches -> [Rows -> Version]]
    <3>1. \A w \in Workers : req[w].page \in [Rows -> Version]
      BY DEF Request
    <3>2. \/ applied' = applied
          \/ \E w \in Workers, S \in SUBSET Rows : Applies(b, w, S)
      BY <1>14 DEF AbandonPull, Served
    <3>3. QED
      BY <3>1, <3>2, AppliesType
  <2>2. req' \in [Workers -> Request]
    BY <1>14, IdleTypes DEF AbandonPull
  <2>3. pull' \in [Branches -> Pull]
    BY <1>14, IdleTypes DEF AbandonPull
  <2>4. QED
    BY <1>14, <2>1, <2>2, <2>3 DEF AbandonPull
<1>15. ASSUME NEW b \in Branches, NEW w \in Workers, Arrive(b, w) PROVE TypeOK'
  <2>1. PICK t \in Time : Allocates(t) /\ req' = [req EXCEPT ![w] =
           [IdleRequest EXCEPT !.phase = "select", !.branch = b,
                               !.since = pull[b].cursor, !.cutoff = t]]
    BY <1>15 DEF Arrive
  <2>2. [IdleRequest EXCEPT !.phase = "select", !.branch = b,
           !.since = pull[b].cursor, !.cutoff = t] \in Request
    BY IdleTypes DEF Request, Pull
  <2>3. pull' \in [Branches -> Pull]
    <3>1. pull' = [pull EXCEPT ![b].state = "waiting", ![b].by = w]
      BY <1>15 DEF Arrive
    <3>2. [pull[b] EXCEPT !.state = "waiting", !.by = w] \in Pull
      BY DEF Pull
    <3>3. QED
      BY <3>1, <3>2
  <2>4. QED
    BY <1>15, <2>1, <2>2, <2>3 DEF Arrive, Allocates
<1>16. ASSUME NEW b \in Branches, NEW w \in Workers, FinishPull(b, w) PROVE TypeOK'
  <2>1. ResumeCutoff(w) \in Time
    <3>1. req[w].phase # "idle" /\ req[w].cutoff \in Time
      BY <1>16 DEF FinishPull, Answered, Request
    <3>2. req[w].cutoff # 0
      BY <3>1 DEF RequestInv
    <3>3. QED
      BY <3>1, <3>2, EarlierTime DEF ResumeCutoff
  <2>2. applied' \in [Branches -> [Rows -> Version]]
    <3>1. req[w].page \in [Rows -> Version]
      BY DEF Request
    <3>2. QED
      BY <1>16, <3>1, AppliesType DEF FinishPull
  <2>3. durable' \in [Branches -> Time]
    BY <1>16, <2>1 DEF FinishPull, Stores
  <2>4. QED
    BY <1>16, <2>2, <2>3, IdleTypes DEF FinishPull
<1>17. ASSUME NEW b \in Branches, NEW w \in Workers, NextPage(b, w) PROVE TypeOK'
  <2>1. AnswerNextSince(w) \in Time
    BY DEF AnswerNextSince, Request
  <2>2. applied' \in [Branches -> [Rows -> Version]]
    <3>1. req[w].page \in [Rows -> Version]
      BY DEF Request
    <3>2. QED
      BY <1>17, <3>1, AppliesType DEF NextPage
  <2>3. pull' \in [Branches -> Pull]
    BY <1>17, <2>1 DEF NextPage, Pull
  <2>4. QED
    BY <1>17, <2>2, <2>3, IdleTypes DEF NextPage
<1>18. ASSUME NEW b \in Branches, NEW w \in Workers, StuckPull(b, w) PROVE TypeOK'
  <2>1. applied' \in [Branches -> [Rows -> Version]]
    <3>1. req[w].page \in [Rows -> Version]
      BY DEF Request
    <3>2. QED
      BY <1>18, <3>1, AppliesType DEF StuckPull
  <2>2. durable' \in [Branches -> Time]
    BY <1>18 DEF StuckPull, Stores, Pull
  <2>3. QED
    BY <1>18, <2>1, <2>2, IdleTypes DEF StuckPull
<1>19. CASE UNCHANGED vars
  BY <1>19 DEF vars
<1>20. QED
  BY <1>1, <1>2, <1>3, <1>4, <1>5, <1>6, <1>7, <1>8, <1>9, <1>10, <1>11, <1>12,
     <1>13, <1>14, <1>15, <1>16, <1>17, <1>18, <1>19
     DEF Next, Writer, Handler, Terminal
(* Every draw is beyond the clock, and nothing else enters a clock field.   *)
LEMMA ClockStep == IInv /\ [Next]_vars => ClockInv'
<1> SUFFICES ASSUME IInv, [Next]_vars PROVE ClockInv'
  OBVIOUS
<1> USE CloudFeedAssumption DEF IInv, TypeOK, ClockInv, Time, Request, Pull, hubData, terminals
<1>1. ASSUME NEW r \in Rows, Save(r) PROVE ClockInv'
  BY <1>1 DEF Save
<1>2. ASSUME NEW r \in Rows, NEW v \in Version, Publish(r, v) PROVE ClockInv'
  BY <1>2 DEF Publish, Allocates
<1>3. ASSUME NEW r \in Rows, NEW v \in Version, LosePublisher(r, v) PROVE ClockInv'
  BY <1>3 DEF LosePublisher
<1>4. ASSUME NEW w \in Workers, SelectNull(w) PROVE ClockInv'
  BY <1>4 DEF SelectNull
<1>5. ASSUME NEW w \in Workers, Promote(w) PROVE ClockInv'
  BY <1>5 DEF Promote
<1>6. ASSUME NEW w \in Workers, PromoteFails(w) PROVE ClockInv'
  BY <1>6 DEF PromoteFails
<1>7. ASSUME NEW w \in Workers, ReadWhole(w) PROVE ClockInv'
  BY <1>7 DEF ReadWhole, NextModel
<1>8. ASSUME NEW w \in Workers, ReadOverflow(w) PROVE ClockInv'
  BY <1>8 DEF ReadOverflow, EarlierResume, IsFrontier, Timed
<1>9. ASSUME NEW w \in Workers, Refetch(w) PROVE ClockInv'
  BY <1>9 DEF Refetch, NextModel
<1>10. ASSUME NEW w \in Workers, RequestDies(w) PROVE ClockInv'
  BY <1>10 DEF RequestDies, IdleRequest, AskAgain
<1>11. ASSUME NEW w \in Workers, DropAnswer(w) PROVE ClockInv'
  BY <1>11 DEF DropAnswer, IdleRequest
<1>12. ASSUME NEW b \in Branches, StartPull(b) PROVE ClockInv'
  BY <1>12 DEF StartPull
<1>13. ASSUME NEW b \in Branches, TimeOut(b) PROVE ClockInv'
  BY <1>13 DEF TimeOut, AskAgain
<1>14. ASSUME NEW b \in Branches, AbandonPull(b) PROVE ClockInv'
  <2>1. \A v \in Workers : req'[v].cutoff \in {0, req[v].cutoff}
    BY <1>14 DEF AbandonPull, IdleRequest
  <2>2. QED
    <3>1. \A v \in Workers : req[v].cutoff \in Nat /\ clock \in Nat
      OBVIOUS
    <3>2. /\ clock' = clock /\ synced' = synced /\ durable' = durable
      BY <1>14 DEF AbandonPull
    <3>3. \A v \in Workers : req'[v].cutoff <= clock
      BY <2>1, <3>1
    <3>4. QED
      BY <3>1, <3>2, <3>3
<1>15. ASSUME NEW b \in Branches, NEW w \in Workers, Arrive(b, w) PROVE ClockInv'
  BY <1>15 DEF Arrive, Allocates, IdleRequest
<1>16. ASSUME NEW b \in Branches, NEW w \in Workers, FinishPull(b, w) PROVE ClockInv'
  BY <1>16 DEF FinishPull, Answered, Stores, ResumeCutoff, IdlePull, IdleRequest
<1>17. ASSUME NEW b \in Branches, NEW w \in Workers, NextPage(b, w) PROVE ClockInv'
  BY <1>17 DEF NextPage, Answered, AnswerNextSince, IdleRequest
<1>18. ASSUME NEW b \in Branches, NEW w \in Workers, StuckPull(b, w) PROVE ClockInv'
  <2>1. \A c \in Branches : durable'[c] \in {durable[c], pull[c].cursor}
    BY <1>18 DEF StuckPull, Stores
  <2>2. \A v \in Workers : req'[v].cutoff \in {0, req[v].cutoff}
    BY <1>18 DEF StuckPull, IdleRequest
  <2>3. QED
    <3>1. /\ \A v \in Workers : req[v].cutoff \in Nat
          /\ clock \in Nat /\ clock' = clock /\ synced' = synced
      BY <1>18 DEF StuckPull
    <3>2. \A c \in Branches : durable[c] <= clock /\ pull[c].cursor <= clock
      BY DEF PullInv
    <3>3. \A c \in Branches : durable'[c] <= clock
      BY <2>1, <3>2
    <3>4. \A v \in Workers : req'[v].cutoff <= clock
      BY <2>2, <3>1
    <3>5. QED
      BY <3>1, <3>3, <3>4
<1>19. CASE UNCHANGED vars
  BY <1>19 DEF vars
<1>20. QED
  BY <1>1, <1>2, <1>3, <1>4, <1>5, <1>6, <1>7, <1>8, <1>9, <1>10, <1>11,
     <1>12, <1>13, <1>14, <1>15, <1>16, <1>17, <1>18, <1>19
     DEF Next, Writer, Handler, Terminal

(* Resume points are publications after the cursor and up to the cutoff.   *)
LEMMA RequestStep == IInv /\ [Next]_vars => RequestInv'
<1> SUFFICES ASSUME IInv, [Next]_vars PROVE RequestInv'
  OBVIOUS
<1> USE CloudFeedAssumption DEF IInv, TypeOK, RequestInv, Time, Request, Pull, hubData, terminals
<1>1. ASSUME NEW r \in Rows, Save(r) PROVE RequestInv'
  BY <1>1 DEF Save
<1>2. ASSUME NEW r \in Rows, NEW v \in Version, Publish(r, v) PROVE RequestInv'
  BY <1>2 DEF Publish, Allocates
<1>3. ASSUME NEW r \in Rows, NEW v \in Version, LosePublisher(r, v) PROVE RequestInv'
  BY <1>3 DEF LosePublisher
<1>4. ASSUME NEW w \in Workers, SelectNull(w) PROVE RequestInv'
  BY <1>4 DEF SelectNull
<1>5. ASSUME NEW w \in Workers, Promote(w) PROVE RequestInv'
  BY <1>5 DEF Promote
<1>6. ASSUME NEW w \in Workers, PromoteFails(w) PROVE RequestInv'
  BY <1>6 DEF PromoteFails
<1>7. ASSUME NEW w \in Workers, ReadWhole(w) PROVE RequestInv'
  BY <1>7 DEF ReadWhole, NextModel
<1>8. ASSUME NEW w \in Workers, ReadOverflow(w) PROVE RequestInv'
  BY <1>8 DEF ReadOverflow, EarlierResume, IsFrontier, Timed
<1>9. ASSUME NEW w \in Workers, Refetch(w) PROVE RequestInv'
  BY <1>9 DEF Refetch, NextModel
<1>10. ASSUME NEW w \in Workers, RequestDies(w) PROVE RequestInv'
  BY <1>10 DEF RequestDies, IdleRequest, AskAgain
<1>11. ASSUME NEW w \in Workers, DropAnswer(w) PROVE RequestInv'
  BY <1>11 DEF DropAnswer, IdleRequest
<1>12. ASSUME NEW b \in Branches, StartPull(b) PROVE RequestInv'
  BY <1>12 DEF StartPull
<1>13. ASSUME NEW b \in Branches, TimeOut(b) PROVE RequestInv'
  BY <1>13 DEF TimeOut, AskAgain
<1>14. ASSUME NEW b \in Branches, AbandonPull(b) PROVE RequestInv'
  BY <1>14 DEF AbandonPull, IdleRequest, IdlePull, Answered
<1>15. ASSUME NEW b \in Branches, NEW w \in Workers, Arrive(b, w) PROVE RequestInv'
  BY <1>15 DEF Arrive, Allocates, IdleRequest
<1>16. ASSUME NEW b \in Branches, NEW w \in Workers, FinishPull(b, w) PROVE RequestInv'
  BY <1>16 DEF FinishPull, Answered, Stores, ResumeCutoff, IdlePull, IdleRequest
<1>17. ASSUME NEW b \in Branches, NEW w \in Workers, NextPage(b, w) PROVE RequestInv'
  BY <1>17 DEF NextPage, Answered, AnswerNextSince, IdleRequest
<1>18. ASSUME NEW b \in Branches, NEW w \in Workers, StuckPull(b, w) PROVE RequestInv'
  BY <1>18 DEF StuckPull, Answered, Stores, IdlePull, IdleRequest
<1>19. CASE UNCHANGED vars
  BY <1>19 DEF vars
<1>20. QED
  BY <1>1, <1>2, <1>3, <1>4, <1>5, <1>6, <1>7, <1>8, <1>9, <1>10, <1>11,
     <1>12, <1>13, <1>14, <1>15, <1>16, <1>17, <1>18, <1>19
     DEF Next, Writer, Handler, Terminal

(* Only its own answer moves a terminal's cursor, and moves it forward.     *)
LEMMA PullStep == IInv /\ [Next]_vars => PullInv'
<1> SUFFICES ASSUME IInv, [Next]_vars PROVE PullInv'
  OBVIOUS
<1> USE CloudFeedAssumption DEF IInv, TypeOK, PullInv, Time, Request, Pull, hubData, terminals
<1>1. ASSUME NEW r \in Rows, Save(r) PROVE PullInv'
  BY <1>1 DEF Save
<1>2. ASSUME NEW r \in Rows, NEW v \in Version, Publish(r, v) PROVE PullInv'
  BY <1>2 DEF Publish, Allocates
<1>3. ASSUME NEW r \in Rows, NEW v \in Version, LosePublisher(r, v) PROVE PullInv'
  BY <1>3 DEF LosePublisher
<1>4. ASSUME NEW w \in Workers, SelectNull(w) PROVE PullInv'
  BY <1>4 DEF SelectNull
<1>5. ASSUME NEW w \in Workers, Promote(w) PROVE PullInv'
  BY <1>5 DEF Promote
<1>6. ASSUME NEW w \in Workers, PromoteFails(w) PROVE PullInv'
  BY <1>6 DEF PromoteFails
<1>7. ASSUME NEW w \in Workers, ReadWhole(w) PROVE PullInv'
  BY <1>7 DEF ReadWhole, NextModel
<1>8. ASSUME NEW w \in Workers, ReadOverflow(w) PROVE PullInv'
  BY <1>8 DEF ReadOverflow, EarlierResume, IsFrontier, Timed
<1>9. ASSUME NEW w \in Workers, Refetch(w) PROVE PullInv'
  BY <1>9 DEF Refetch, NextModel
<1>10. ASSUME NEW w \in Workers, RequestDies(w) PROVE PullInv'
  BY <1>10 DEF RequestDies, IdleRequest, AskAgain
<1>11. ASSUME NEW w \in Workers, DropAnswer(w) PROVE PullInv'
  BY <1>11 DEF DropAnswer, IdleRequest
<1>12. ASSUME NEW b \in Branches, StartPull(b) PROVE PullInv'
  BY <1>12 DEF StartPull, ClockInv
<1>13. ASSUME NEW b \in Branches, TimeOut(b) PROVE PullInv'
  BY <1>13 DEF TimeOut, AskAgain
<1>14. ASSUME NEW b \in Branches, AbandonPull(b) PROVE PullInv'
  BY <1>14 DEF AbandonPull, IdleRequest, IdlePull, Answered
<1>15. ASSUME NEW b \in Branches, NEW w \in Workers, Arrive(b, w) PROVE PullInv'
  BY <1>15 DEF Arrive, Allocates, IdleRequest
<1>16. ASSUME NEW b \in Branches, NEW w \in Workers, FinishPull(b, w) PROVE PullInv'
  BY <1>16 DEF FinishPull, Answered, Stores, ResumeCutoff, IdlePull, IdleRequest
<1>17. ASSUME NEW b \in Branches, NEW w \in Workers, NextPage(b, w) PROVE PullInv'
  <2>1. /\ req[w].since < AnswerNextSince(w)
        /\ AnswerNextSince(w) <= clock
    BY <1>17 DEF NextPage, Answered, AnswerNextSince, RequestInv, ClockInv
  <2>2. pull'[b] = [state |-> "asking", cursor |-> AnswerNextSince(w), by |-> None]
    BY <1>17 DEF NextPage
  <2>3. durable[b] <= AnswerNextSince(w)
    <3>1. pull[b].state # "idle" /\ req[w].since = pull[b].cursor
      BY <1>17 DEF NextPage, Answered, None
    <3>2. durable[b] <= pull[b].cursor
      BY <3>1
    <3>3. /\ durable[b] \in Nat /\ pull[b].cursor \in Nat
          /\ req[w].nextSince \in Nat /\ req[w].since \in Nat
      OBVIOUS
    <3>4. QED
      BY <2>1, <3>1, <3>2, <3>3 DEF AnswerNextSince
  <2>4. ASSUME NEW c \in Branches, c # b
        PROVE  pull'[c] = pull[c] /\ pull[c].by # w
    BY <1>17, <2>4 DEF NextPage, Answered
  <2>5. \A v \in Workers : v # w => req'[v] = req[v]
    BY <1>17 DEF NextPage
  <2>6. QED
    BY <1>17, <2>1, <2>2, <2>3, <2>4, <2>5 DEF NextPage
<1>18. ASSUME NEW b \in Branches, NEW w \in Workers, StuckPull(b, w) PROVE PullInv'
  <2>1. pull'[b] = IdlePull
    BY <1>18 DEF StuckPull
  <2>2. ASSUME NEW c \in Branches, c # b
        PROVE  /\ pull'[c] = pull[c] /\ pull[c].by # w
               /\ durable'[c] = durable[c]
    <3>1. pull[b].by = w /\ pull'[c] = pull[c]
      BY <1>18, <2>2 DEF StuckPull, Answered
    <3>2. durable'[c] = durable[c]
      BY <1>18, <2>2 DEF StuckPull, Stores
    <3>3. req[w].branch = b /\ (pull[c].by = w => req[w].branch = c)
      BY <3>1
    <3>4. QED
      BY <2>2, <3>1, <3>2, <3>3
  <2>3. \A v \in Workers : v # w => req'[v] = req[v]
    BY <1>18 DEF StuckPull
  <2>4. QED
    BY <1>18, <2>1, <2>2, <2>3 DEF StuckPull, IdlePull
<1>19. CASE UNCHANGED vars
  BY <1>19 DEF vars
<1>20. QED
  BY <1>1, <1>2, <1>3, <1>4, <1>5, <1>6, <1>7, <1>8, <1>9, <1>10, <1>11,
     <1>12, <1>13, <1>14, <1>15, <1>16, <1>17, <1>18, <1>19
     DEF Next, Writer, Handler, Terminal

LEMMA Inductive == Spec => []IInv
<1>1. IInv /\ [Next]_vars => IInv'
  BY TypeStep, ClockStep, RequestStep, PullStep DEF IInv
<1>2. QED
  BY InitIInv, <1>1, PTL DEF Spec

(* Every field of the hub and of the terminals keeps its type.             *)
THEOREM TypeCorrect == Spec => []TypeOK
<1>1. IInv => TypeOK
  BY DEF IInv
<1>2. QED
  BY Inductive, <1>1, PTL

(* allocate_cloud_feed_timestamp keeps its clock at or beyond every        *)
(* publication, every cutoff and every stored cursor.                      *)
THEOREM ClockCovers == Spec => []ClockCoversFeed
<1>1. IInv => ClockCoversFeed
  BY DEF IInv, ClockInv, ClockCoversFeed
<1>2. QED
  BY Inductive, <1>1, PTL

(* What a step does to a terminal: its stored cursor stays or goes forward, *)
(* and so does the cursor of a pull that asks for another page.            *)
Forward(b) ==
  /\ durable'[b] >= durable[b]
  /\ (pull[b].state = "waiting" /\ pull'[b].state = "asking")
       => pull'[b].cursor >= pull[b].cursor

LEMMA ForwardStep == IInv /\ [Next]_vars => \A b \in Branches : Forward(b)
<1> SUFFICES ASSUME IInv, [Next]_vars, NEW d \in Branches PROVE Forward(d)
  OBVIOUS
<1> USE DEF IInv, TypeOK, Forward, Time, Request, Pull, hubData, terminals
<1>0. durable[d] \in Nat /\ pull[d].cursor \in Nat
  BY CloudFeedAssumption
<1>1. ASSUME NEW r \in Rows, Save(r) PROVE Forward(d)
  BY <1>0, <1>1 DEF Save
<1>2. ASSUME NEW r \in Rows, NEW v \in Version, Publish(r, v) PROVE Forward(d)
  BY <1>0, <1>2 DEF Publish
<1>3. ASSUME NEW r \in Rows, NEW v \in Version, LosePublisher(r, v) PROVE Forward(d)
  BY <1>0, <1>3 DEF LosePublisher
<1>4. ASSUME NEW w \in Workers, SelectNull(w) PROVE Forward(d)
  BY <1>0, <1>4 DEF SelectNull
<1>5. ASSUME NEW w \in Workers, Promote(w) PROVE Forward(d)
  BY <1>0, <1>5 DEF Promote
<1>6. ASSUME NEW w \in Workers, PromoteFails(w) PROVE Forward(d)
  BY <1>0, <1>6 DEF PromoteFails
<1>7. ASSUME NEW w \in Workers, ReadWhole(w) PROVE Forward(d)
  BY <1>0, <1>7 DEF ReadWhole
<1>8. ASSUME NEW w \in Workers, ReadOverflow(w) PROVE Forward(d)
  BY <1>0, <1>8 DEF ReadOverflow
<1>9. ASSUME NEW w \in Workers, Refetch(w) PROVE Forward(d)
  BY <1>0, <1>9 DEF Refetch
<1>10. ASSUME NEW w \in Workers, RequestDies(w) PROVE Forward(d)
  BY <1>0, <1>10 DEF RequestDies, AskAgain
<1>11. ASSUME NEW w \in Workers, DropAnswer(w) PROVE Forward(d)
  BY <1>0, <1>11 DEF DropAnswer
<1>12. ASSUME NEW b \in Branches, StartPull(b) PROVE Forward(d)
  BY <1>0, <1>12 DEF StartPull
<1>13. ASSUME NEW b \in Branches, TimeOut(b) PROVE Forward(d)
  BY <1>0, <1>13 DEF TimeOut, AskAgain
<1>14. ASSUME NEW b \in Branches, AbandonPull(b) PROVE Forward(d)
  BY <1>0, <1>14 DEF AbandonPull, IdlePull
<1>15. ASSUME NEW b \in Branches, NEW w \in Workers, Arrive(b, w) PROVE Forward(d)
  BY <1>0, <1>15 DEF Arrive
<1>16. ASSUME NEW b \in Branches, NEW w \in Workers, FinishPull(b, w) PROVE Forward(d)
  <2>1. durable'[d] # durable[d] => d = b /\ durable'[d] = ResumeCutoff(w)
    BY <1>16 DEF FinishPull, Stores
  <2>2. ResumeCutoff(w) \in Int /\ durable[b] <= ResumeCutoff(w)
    BY <1>16, CloudFeedAssumption DEF FinishPull, Answered, PullInv, None, ResumeCutoff
  <2>3. pull'[d].state = "asking" => pull'[d] = pull[d]
    BY <1>16 DEF FinishPull, IdlePull
  <2>4. QED
    BY <1>0, <2>1, <2>2, <2>3
<1>17. ASSUME NEW b \in Branches, NEW w \in Workers, NextPage(b, w) PROVE Forward(d)
  <2>1. durable'[d] = durable[d]
    BY <1>17 DEF NextPage
  <2>2. pull[b].cursor < AnswerNextSince(w) /\ AnswerNextSince(w) \in Int
    <3>1. AnswerNextSince(w) \notin {0, pull[b].cursor}
      BY <1>17 DEF NextPage
    <3>2. req[w].since = pull[b].cursor
      BY <1>17 DEF NextPage, Answered, PullInv
    <3>3. AnswerNextSince(w) = req[w].nextSince /\ req[w].nextSince # 0
      BY <3>1, <3>2 DEF AnswerNextSince
    <3>4. req[w].since < req[w].nextSince
      BY <3>3 DEF RequestInv
    <3>5. req[w].nextSince \in Int
      BY CloudFeedAssumption
    <3>6. QED
      BY <3>2, <3>3, <3>4, <3>5
  <2>3. pull'[b].cursor = AnswerNextSince(w) /\ (d # b => pull'[d] = pull[d])
    BY <1>17 DEF NextPage
  <2>4. QED
    BY <1>0, <2>1, <2>2, <2>3
<1>18. ASSUME NEW b \in Branches, NEW w \in Workers, StuckPull(b, w) PROVE Forward(d)
  <2>1. durable'[d] # durable[d] => d = b /\ durable'[d] = pull[b].cursor
    BY <1>18 DEF StuckPull, Stores
  <2>2. pull[b].cursor \in Int /\ durable[b] <= pull[b].cursor
    BY <1>18, CloudFeedAssumption DEF StuckPull, Answered, PullInv, None
  <2>3. pull'[d].state = "asking" => pull'[d] = pull[d]
    BY <1>18 DEF StuckPull, IdlePull
  <2>4. QED
    BY <1>0, <2>1, <2>2, <2>3
<1>19. CASE UNCHANGED vars
  BY <1>0, <1>19 DEF vars
<1>20. QED
  BY <1>1, <1>2, <1>3, <1>4, <1>5, <1>6, <1>7, <1>8, <1>9, <1>10, <1>11,
     <1>12, <1>13, <1>14, <1>15, <1>16, <1>17, <1>18, <1>19
     DEF Next, Writer, Handler, Terminal

(* The in-memory cursor of a pull never goes back: pull_from_cloud does    *)
(* not ask again for what an earlier page of the same pull passed.         *)
THEOREM PagesGoForward == Spec => PagesAdvance
<1>1. IInv /\ [Next]_vars =>
        [\A b \in Branches : (pull[b].state = "waiting" /\ pull'[b].state = "asking")
           => pull'[b].cursor >= pull[b].cursor]_vars
  BY ForwardStep DEF Forward
<1>2. QED
  BY Inductive, <1>1, PTL DEF Spec, PagesAdvance

(* No pull of a terminal stores a cursor behind the one it started from.   *)
THEOREM CursorForward == Spec => CursorNeverMovesBack
<1>1. IInv /\ [Next]_vars => [\A b \in Branches : durable'[b] >= durable[b]]_vars
  BY ForwardStep DEF Forward
<1>2. QED
  BY Inductive, <1>1, PTL DEF Spec, CursorNeverMovesBack

-----------------------------------------------------------------------------
(* One handler at a time: the request at work is ahead of every terminal,  *)
(* also of those it is not for.                                            *)
OneHandler == \A v, w \in Workers : v = w

CutoffInv == \A w \in Workers, b \in Branches :
  req[w].phase # "idle" => durable[b] < req[w].cutoff

LEMMA CutoffStep ==
  ASSUME OneHandler
  PROVE  IInv /\ CutoffInv /\ [Next]_vars => CutoffInv'
<1> SUFFICES ASSUME IInv, CutoffInv, [Next]_vars PROVE CutoffInv'
  OBVIOUS
<1> USE CloudFeedAssumption DEF IInv, TypeOK, CutoffInv, Time, Request, Pull, hubData, terminals
<1>1. ASSUME NEW r \in Rows, Save(r) PROVE CutoffInv'
  BY <1>1 DEF Save
<1>2. ASSUME NEW r \in Rows, NEW v \in Version, Publish(r, v) PROVE CutoffInv'
  BY <1>2 DEF Publish
<1>3. ASSUME NEW r \in Rows, NEW v \in Version, LosePublisher(r, v) PROVE CutoffInv'
  BY <1>3 DEF LosePublisher
<1>4. ASSUME NEW w \in Workers, SelectNull(w) PROVE CutoffInv'
  BY <1>4 DEF SelectNull
<1>5. ASSUME NEW w \in Workers, Promote(w) PROVE CutoffInv'
  BY <1>5 DEF Promote
<1>6. ASSUME NEW w \in Workers, PromoteFails(w) PROVE CutoffInv'
  BY <1>6 DEF PromoteFails
<1>7. ASSUME NEW w \in Workers, ReadWhole(w) PROVE CutoffInv'
  BY <1>7 DEF ReadWhole, NextModel
<1>8. ASSUME NEW w \in Workers, ReadOverflow(w) PROVE CutoffInv'
  BY <1>8 DEF ReadOverflow
<1>9. ASSUME NEW w \in Workers, Refetch(w) PROVE CutoffInv'
  BY <1>9 DEF Refetch, NextModel
<1>10. ASSUME NEW w \in Workers, RequestDies(w) PROVE CutoffInv'
  BY <1>10 DEF RequestDies, IdleRequest
<1>11. ASSUME NEW w \in Workers, DropAnswer(w) PROVE CutoffInv'
  BY <1>11 DEF DropAnswer, IdleRequest
<1>12. ASSUME NEW b \in Branches, StartPull(b) PROVE CutoffInv'
  BY <1>12 DEF StartPull
<1>13. ASSUME NEW b \in Branches, TimeOut(b) PROVE CutoffInv'
  BY <1>13 DEF TimeOut
<1>14. ASSUME NEW b \in Branches, AbandonPull(b) PROVE CutoffInv'
  <2>1. \A v \in Workers : req'[v] \in {req[v], IdleRequest}
    BY <1>14 DEF AbandonPull
  <2>2. \A v \in Workers : req'[v].phase # "idle" => req'[v] = req[v]
    BY <2>1 DEF IdleRequest
  <2>3. durable' = durable
    BY <1>14 DEF AbandonPull
  <2>4. QED
    BY <2>2, <2>3
<1>15. ASSUME NEW b \in Branches, NEW w \in Workers, Arrive(b, w) PROVE CutoffInv'
  <2>1. PICK t \in Time : t > clock /\ req' = [req EXCEPT ![w] =
           [IdleRequest EXCEPT !.phase = "select", !.branch = b,
                               !.since = pull[b].cursor, !.cutoff = t]]
    BY <1>15 DEF Arrive, Allocates
  <2>2. req'[w].cutoff = t /\ \A v \in Workers : v # w => req'[v] = req[v]
    BY <2>1 DEF IdleRequest
  <2>3. durable' = durable /\ \A c \in Branches : durable[c] <= clock
    BY <1>15 DEF Arrive, ClockInv
  <2>4. QED
    BY <2>1, <2>2, <2>3
<1>16. ASSUME NEW b \in Branches, NEW w \in Workers, FinishPull(b, w) PROVE CutoffInv'
  <2>1. req'[w].phase = "idle"
    BY <1>16 DEF FinishPull, IdleRequest
  <2>2. QED
    BY <2>1, OneHandler DEF OneHandler
<1>17. ASSUME NEW b \in Branches, NEW w \in Workers, NextPage(b, w) PROVE CutoffInv'
  BY <1>17 DEF NextPage, IdleRequest
<1>18. ASSUME NEW b \in Branches, NEW w \in Workers, StuckPull(b, w) PROVE CutoffInv'
  <2>1. req'[w].phase = "idle"
    BY <1>18 DEF StuckPull, IdleRequest
  <2>2. QED
    BY <2>1, OneHandler DEF OneHandler
<1>19. CASE UNCHANGED vars
  BY <1>19 DEF vars
<1>20. QED
  BY <1>1, <1>2, <1>3, <1>4, <1>5, <1>6, <1>7, <1>8, <1>9, <1>10, <1>11,
     <1>12, <1>13, <1>14, <1>15, <1>16, <1>17, <1>18, <1>19
     DEF Next, Writer, Handler, Terminal

(* Row r enters the feed beyond every cursor it must not be behind.        *)
EntersBeyond(r) == (synced[r] = 0 /\ synced'[r] # 0) =>
                     \A b \in Scope[r] : synced'[r] > durable[b]

LEMMA EntersBeyondStep ==
  IInv /\ CutoffInv /\ [Next]_vars => \A r \in Rows : EntersBeyond(r)
<1> SUFFICES ASSUME IInv, CutoffInv, [Next]_vars, NEW q \in Rows PROVE EntersBeyond(q)
  OBVIOUS
<1> USE DEF EntersBeyond, hubData, terminals
<1>0. /\ Scope[q] \subseteq Branches
      /\ clock \in Nat /\ \A b \in Branches : durable[b] \in Nat /\ durable[b] <= clock
  BY CloudFeedAssumption DEF IInv, TypeOK, ClockInv, Time
<1>1. ASSUME NEW r \in Rows, Save(r) PROVE EntersBeyond(q)
  BY <1>1 DEF Save, IInv, TypeOK
<1>2. ASSUME NEW r \in Rows, NEW v \in Version, Publish(r, v) PROVE EntersBeyond(q)
  <2>1. PICK t \in Time : t > clock /\ synced'[q] \in {synced[q], t}
    BY <1>2 DEF Publish, Allocates, IInv, TypeOK
  <2>2. QED
    BY <1>0, <2>1, CloudFeedAssumption DEF Time
<1>3. ASSUME NEW r \in Rows, NEW v \in Version, LosePublisher(r, v) PROVE EntersBeyond(q)
  BY <1>3 DEF LosePublisher
<1>4. ASSUME NEW w \in Workers, SelectNull(w) PROVE EntersBeyond(q)
  BY <1>4 DEF SelectNull
<1>5. ASSUME NEW w \in Workers, Promote(w) PROVE EntersBeyond(q)
  <2>1. synced'[q] # synced[q] => synced'[q] = req[w].cutoff /\ req[w].phase # "idle"
    BY <1>5 DEF Promote
  <2>2. QED
    BY <1>0, <2>1, CloudFeedAssumption DEF CutoffInv, IInv, TypeOK, Request, Time
<1>6. ASSUME NEW w \in Workers, PromoteFails(w) PROVE EntersBeyond(q)
  BY <1>6 DEF PromoteFails
<1>7. ASSUME NEW w \in Workers, ReadWhole(w) PROVE EntersBeyond(q)
  BY <1>7 DEF ReadWhole
<1>8. ASSUME NEW w \in Workers, ReadOverflow(w) PROVE EntersBeyond(q)
  BY <1>8 DEF ReadOverflow
<1>9. ASSUME NEW w \in Workers, Refetch(w) PROVE EntersBeyond(q)
  BY <1>9 DEF Refetch
<1>10. ASSUME NEW w \in Workers, RequestDies(w) PROVE EntersBeyond(q)
  BY <1>10 DEF RequestDies
<1>11. ASSUME NEW w \in Workers, DropAnswer(w) PROVE EntersBeyond(q)
  BY <1>11 DEF DropAnswer
<1>12. ASSUME NEW b \in Branches, StartPull(b) PROVE EntersBeyond(q)
  BY <1>12 DEF StartPull
<1>13. ASSUME NEW b \in Branches, TimeOut(b) PROVE EntersBeyond(q)
  BY <1>13 DEF TimeOut
<1>14. ASSUME NEW b \in Branches, AbandonPull(b) PROVE EntersBeyond(q)
  BY <1>14 DEF AbandonPull
<1>15. ASSUME NEW b \in Branches, NEW w \in Workers, Arrive(b, w) PROVE EntersBeyond(q)
  BY <1>15 DEF Arrive
<1>16. ASSUME NEW b \in Branches, NEW w \in Workers, FinishPull(b, w) PROVE EntersBeyond(q)
  BY <1>16 DEF FinishPull
<1>17. ASSUME NEW b \in Branches, NEW w \in Workers, NextPage(b, w) PROVE EntersBeyond(q)
  BY <1>17 DEF NextPage
<1>18. ASSUME NEW b \in Branches, NEW w \in Workers, StuckPull(b, w) PROVE EntersBeyond(q)
  BY <1>18 DEF StuckPull
<1>19. CASE UNCHANGED vars
  BY <1>19 DEF vars
<1>20. QED
  BY <1>1, <1>2, <1>3, <1>4, <1>5, <1>6, <1>7, <1>8, <1>9, <1>10, <1>11,
     <1>12, <1>13, <1>14, <1>15, <1>16, <1>17, <1>18, <1>19
     DEF Next, Writer, Handler, Terminal

(* What the clock promises a terminal that has pulled, on a hub that       *)
(* handles one feed request at a time: a later publication, also one that  *)
(* a request makes by promoting a row, is beyond the stored cursor of      *)
(* every terminal the row is for.                                          *)
THEOREM LaterVisible ==
  ASSUME OneHandler
  PROVE  Spec => LaterPublicationIsVisible
<1>1. Init => CutoffInv
  BY DEF Init, IdleRequest, CutoffInv
<1>2. IInv /\ CutoffInv /\ [Next]_vars => CutoffInv'
  BY CutoffStep
<1>3. IInv /\ CutoffInv /\ [Next]_vars =>
        [\A r \in Rows : (synced[r] = 0 /\ synced'[r] # 0) =>
           \A b \in Scope[r] : synced'[r] > durable[b]]_vars
  BY EntersBeyondStep DEF EntersBeyond
<1>4. QED
  BY Inductive, <1>1, <1>2, <1>3, PTL DEF Spec, LaterPublicationIsVisible

-----------------------------------------------------------------------------
(* The promise of the cursor, one handler at a time.                       *)

(* Only rows that exist are published.                                     *)
ExistInv ==
  /\ \A r \in Rows : synced[r] # 0 => version[r] # 0
  /\ \A r \in Rows, v \in Version : <<r, v>> \in callbacks => v # 0

(* How far the answer of w takes its terminal, unless it carries no cursor.*)
Limit(w) == IF req[w].nextSince = 0 THEN req[w].cutoff ELSE req[w].nextSince

Scanned(w, r) == ModelOf[r] < req[w].model \/ req[w].phase = "reply"

(* The answer of w must bring row r.                                       *)
Due(w, r) ==
  /\ Scanned(w, r) /\ req[w].publishable
  /\ req[w].branch \in Scope[r]
  /\ synced[r] # 0 /\ synced[r] > req[w].since /\ synced[r] <= Limit(w)

(* A request at work is beyond every cursor.  Of what it selected nothing  *)
(* is scanned yet; of what it has collected nothing was published at or    *)
(* below the cursor it was asked with, so that an older copy in the page   *)
(* never replaces a row the terminal must have.                            *)
ScanInv(w) == req[w].phase # "idle" =>
  /\ req[w].since < req[w].cutoff
  /\ \A b \in Branches : pull[b].cursor < req[w].cutoff
  /\ \A r \in req[w].sel :
       req[w].phase # "reply" /\ ModelOf[r] = req[w].model /\ version[r] # 0
  /\ req[w].fallback => ~req[w].publishable
  /\ req[w].nextSince # 0 => req[w].hasMore
  /\ req[w].phase = "refetch" => req[w].nextSince # 0 /\ req[w].nextSince <= req[w].frontier
  /\ \A r \in Rows : req[w].page[r] # 0 => synced[r] = 0 \/ synced[r] > req[w].since
  /\ \A r \in Rows : Due(w, r) => req[w].page[r] = version[r]

(* Terminal b has row r, if it was published to it at or below t.          *)
Holds(b, r, t) ==
  b \in Scope[r] /\ synced[r] # 0 /\ synced[r] <= t => applied[b][r] = version[r]

HeldInv == \A b \in Branches, r \in Rows :
  /\ Holds(b, r, durable[b])
  /\ pull[b].state # "idle" => Holds(b, r, pull[b].cursor)

FeedInv == IInv /\ CutoffInv /\ ExistInv /\ HeldInv /\ \A w \in Workers : ScanInv(w)

LEMMA FeedInitial == Init => FeedInv
<1> SUFFICES ASSUME Init PROVE FeedInv
  OBVIOUS
<1>1. IInv
  BY InitIInv
<1>2. CutoffInv /\ \A w \in Workers : ScanInv(w)
  BY DEF Init, IdleRequest, CutoffInv, ScanInv
<1>3. ExistInv
  BY CloudFeedAssumption DEF Init, ExistInv
<1>4. HeldInv
  BY CloudFeedAssumption DEF Init, HeldInv, Holds, IdlePull, Time
<1> QED BY <1>1, <1>2, <1>3, <1>4 DEF FeedInv

LEMMA ExistStep == FeedInv /\ [Next]_vars => ExistInv'
<1> SUFFICES ASSUME FeedInv, [Next]_vars PROVE ExistInv'
  OBVIOUS
<1> USE CloudFeedAssumption DEF ExistInv, hubData, terminals
<1>0. /\ ExistInv /\ version \in [Rows -> Version] /\ synced \in [Rows -> Time]
      /\ \A r \in Rows : version[r] \in Nat
  BY DEF FeedInv, IInv, TypeOK, Version
<1>1. ASSUME NEW r \in Rows, Save(r) PROVE ExistInv'
  BY <1>0, <1>1 DEF Save
<1>2. ASSUME NEW r \in Rows, NEW v \in Version, Publish(r, v) PROVE ExistInv'
  BY <1>0, <1>2 DEF Publish, StillPending
<1>3. ASSUME NEW r \in Rows, NEW v \in Version, LosePublisher(r, v) PROVE ExistInv'
  BY <1>0, <1>3 DEF LosePublisher
<1>4. ASSUME NEW w \in Workers, Promote(w) PROVE ExistInv'
  <2>1. \A r \in req[w].sel : version[r] # 0
    BY <1>4 DEF Promote, FeedInv, ScanInv
  <2> QED BY <1>0, <1>4, <2>1 DEF Promote
<1>5. ASSUME UNCHANGED <<version, synced, callbacks>> PROVE ExistInv'
  BY <1>0, <1>5
<1> QED
  BY <1>1, <1>2, <1>3, <1>4, <1>5
  DEF Next, Writer, Handler, Terminal, SelectNull, PromoteFails, ReadWhole, ReadOverflow, Refetch,
      RequestDies, DropAnswer, StartPull, TimeOut, AbandonPull, Arrive, FinishPull, NextPage,
      StuckPull, vars

(* A request is as it was, unless a row is published beyond the clock.     *)
LEMMA RequestStays ==
  ASSUME FeedInv, TypeOK', NEW w \in Workers, req'[w] = req[w],
         \A b \in Branches : pull'[b].cursor < req[w].cutoff \/ req[w].phase = "idle",
         \A r \in Rows : \/ synced'[r] = synced[r] /\ version'[r] = version[r]
                         \/ synced'[r] = 0 /\ version'[r] # 0
                         \/ synced'[r] > clock /\ version'[r] = version[r]
  PROVE  ScanInv(w)'
<1> SUFFICES ASSUME req[w].phase # "idle" PROVE ScanInv(w)'
  BY DEF ScanInv
<1>1. ScanInv(w)
  BY DEF FeedInv
<1>2. /\ clock \in Nat /\ req[w].since \in Nat /\ req[w].cutoff \in Nat /\ req[w].nextSince \in Nat
      /\ req[w].cutoff <= clock /\ (req[w].nextSince # 0 => req[w].nextSince <= req[w].cutoff)
      /\ req[w].since < req[w].cutoff /\ req[w].sel \subseteq Rows
  BY <1>1, CloudFeedAssumption DEF FeedInv, IInv, TypeOK, Request, Time, ClockInv, RequestInv, ScanInv
<1>3. Limit(w) \in Nat /\ Limit(w) <= clock /\ Limit(w)' = Limit(w)
  BY <1>2 DEF Limit
<1>a. \A r \in Rows : synced'[r] \in Nat
  BY CloudFeedAssumption DEF TypeOK, Time
<1>4. \A r \in req[w].sel : version'[r] # 0
  BY <1>1, <1>2 DEF ScanInv
<1>5. \A r \in Rows : req[w].page[r] # 0 => synced'[r] = 0 \/ synced'[r] > req[w].since
  BY <1>1, <1>2, <1>a DEF ScanInv
<1>6. \A r \in Rows : Due(w, r)' => req[w].page[r] = version'[r]
  <2> SUFFICES ASSUME NEW r \in Rows, Due(w, r)' PROVE req[w].page[r] = version'[r]
    OBVIOUS
  <2>1. synced'[r] # 0 /\ synced'[r] <= Limit(w)
    BY <1>3 DEF Due
  <2>2. synced'[r] = synced[r] /\ version'[r] = version[r]
    BY <1>2, <1>3, <1>a, <2>1
  <2>3. Due(w, r)
    BY <1>3, <2>1, <2>2 DEF Due, Scanned
  <2> QED BY <1>1, <2>2, <2>3 DEF ScanInv
<1> QED BY <1>1, <1>4, <1>5, <1>6 DEF ScanInv

(* The scan of a model collects what is due of it.                         *)
LEMMA ModelDone ==
  ASSUME FeedInv, NEW w \in Workers, req[w].phase \in {"read", "refetch"}, NEW g \in [Rows -> Version],
         NextModel(w, [req[w] EXCEPT !.page = g]), UNCHANGED <<version, synced, pull>>,
         \A r \in Rows : g[r] = req[w].page[r] \/ (g[r] = version[r] /\ r \in Timed(w)),
         req[w].publishable => \A r \in Timed(w) : synced[r] <= Limit(w) => g[r] = version[r]
  PROVE  ScanInv(w)'
<1> DEFINE q == [req[w] EXCEPT !.page = g]
<1>1. req \in [Workers -> Request] /\ ScanInv(w) /\ req[w].phase # "idle"
  BY DEF FeedInv, IInv, TypeOK
<1>2. /\ q \in Request /\ q.page = g /\ q.model = req[w].model /\ q.since = req[w].since
      /\ q.cutoff = req[w].cutoff /\ q.branch = req[w].branch /\ q.nextSince = req[w].nextSince
      /\ q.publishable = req[w].publishable /\ q.hasMore = req[w].hasMore
  BY <1>1 DEF Request
<1>3. NextModel(w, q)
  OBVIOUS
<1> HIDE DEF q
<1>4. /\ req'[w].page = g /\ req'[w].sel = {} /\ req'[w].fallback = FALSE
      /\ req'[w].since = req[w].since /\ req'[w].cutoff = req[w].cutoff
      /\ req'[w].branch = req[w].branch /\ req'[w].nextSince = req[w].nextSince
      /\ req'[w].publishable = req[w].publishable /\ req'[w].hasMore = req[w].hasMore
      /\ \/ req'[w].phase = "reply" /\ req[w].model = NModels /\ req'[w].model = req[w].model
         \/ req'[w].phase = "select" /\ req'[w].model = req[w].model + 1
  BY <1>1, <1>2, <1>3 DEF NextModel, Request
<1>5. /\ req[w].model \in Int /\ \A r \in Rows : ModelOf[r] \in Int /\ ModelOf[r] <= NModels
      /\ \A r \in Rows : synced[r] \in Nat
      /\ req[w].cutoff \in Nat /\ Limit(w) \in Nat /\ Limit(w) <= req[w].cutoff /\ NModels \in Nat
  BY <1>1, CloudFeedAssumption DEF FeedInv, IInv, TypeOK, Time, Request, RequestInv, Limit
<1>6. ASSUME NEW r \in Rows, Due(w, r)' PROVE g[r] = version[r]
  <2>1. /\ req[w].publishable /\ req[w].branch \in Scope[r]
        /\ synced[r] # 0 /\ synced[r] > req[w].since /\ synced[r] <= Limit(w)
    BY <1>4, <1>6 DEF Due, Limit
  <2>2. ModelOf[r] < req[w].model \/ ModelOf[r] = req[w].model
    BY <1>4, <1>5, <1>6 DEF Due, Scanned
  <2>3. CASE ModelOf[r] = req[w].model
    <3>1. r \in Timed(w)
      BY <1>5, <2>1, <2>3 DEF Timed, InScan, FeedInv, ExistInv
    <3> QED BY <2>1, <3>1
  <2>4. CASE ModelOf[r] < req[w].model
    <3>1. Due(w, r)
      BY <2>1, <2>4 DEF Due, Scanned
    <3> QED BY <1>1, <3>1 DEF ScanInv
  <2> QED BY <2>2, <2>3, <2>4
<1>7. \A r \in Rows : g[r] # 0 => synced[r] = 0 \/ synced[r] > req[w].since
  BY <1>1 DEF ScanInv, Timed
<1>8. /\ req[w].since < req[w].cutoff /\ \A b \in Branches : pull[b].cursor < req[w].cutoff
      /\ req[w].nextSince # 0 => req[w].hasMore
  BY <1>1 DEF ScanInv
<1> QED BY <1>4, <1>6, <1>7, <1>8 DEF ScanInv

LEMMA ScanStep ==
  ASSUME OneHandler
  PROVE  FeedInv /\ [Next]_vars => \A w \in Workers : ScanInv(w)'
<1> SUFFICES ASSUME FeedInv, [Next]_vars, NEW w \in Workers PROVE ScanInv(w)'
  OBVIOUS
<1>0. IInv /\ TypeOK' /\ ScanInv(w) /\ \A v \in Workers : v = w
  BY TypeStep, OneHandler DEF FeedInv, OneHandler
<1> USE DEF hubData, terminals
<1>a. ASSUME req'[w].phase = "idle" PROVE ScanInv(w)'
  BY <1>a DEF ScanInv
<1>b. ASSUME UNCHANGED <<req, version, synced>>,
             \A b \in Branches : pull'[b].cursor < req[w].cutoff \/ req[w].phase = "idle"
      PROVE  ScanInv(w)'
  BY <1>0, <1>b, RequestStays
<1>c. req[w].phase # "idle" => \A b \in Branches : pull[b].cursor < req[w].cutoff
  BY <1>0 DEF ScanInv
<1>1. ASSUME NEW r \in Rows, Save(r) PROVE ScanInv(w)'
  <2>1. \A q \in Rows : \/ synced'[q] = synced[q] /\ version'[q] = version[q]
                        \/ synced'[q] = 0 /\ version'[q] # 0
    BY <1>0, <1>1 DEF Save, IInv, TypeOK, Version
  <2> QED BY <1>0, <1>1, <1>c, <2>1, RequestStays DEF Save
<1>2. ASSUME NEW r \in Rows, NEW v \in Version, Publish(r, v) PROVE ScanInv(w)'
  <2>1. \A q \in Rows : \/ synced'[q] = synced[q] /\ version'[q] = version[q]
                        \/ synced'[q] > clock /\ version'[q] = version[q]
    BY <1>0, <1>2 DEF Publish, Allocates, IInv, TypeOK
  <2> QED BY <1>0, <1>2, <1>c, <2>1, RequestStays DEF Publish
<1>3. ASSUME NEW r \in Rows, NEW v \in Version, LosePublisher(r, v) PROVE ScanInv(w)'
  BY <1>3, <1>b, <1>c DEF LosePublisher
<1>4. ASSUME SelectNull(w) PROVE ScanInv(w)'
  <2>1. /\ req'[w].sel \subseteq NullRows(w) /\ req'[w].phase \in {"read", "promote"}
        /\ UNCHANGED <<req[w].since, req[w].cutoff, req[w].branch, req[w].fallback, req[w].model,
                       req[w].publishable, req[w].page, req[w].nextSince, req[w].hasMore, version, synced, pull>>
        /\ req[w].phase = "select"
    <3> DEFINE s == FirstPage(NullRows(w))
               p == IF s = {} THEN "read" ELSE "promote"
               q == [req[w] EXCEPT !.sel = s, !.phase = p]
    <3>1. /\ req[w].phase = "select" /\ UNCHANGED <<version, synced, pull>>
          /\ req' = [req EXCEPT ![w] = q]
      BY <1>4 DEF SelectNull
    <3>2. s \subseteq NullRows(w) /\ p \in {"read", "promote"}
      BY DEF FirstPage
    <3>3. req \in [Workers -> Request]
      BY <1>0 DEF IInv, TypeOK
    <3>4. req'[w] = q
      BY <3>1, <3>3
    <3> HIDE DEF s, p
    <3>5. /\ q.phase = p /\ q.sel = s
          /\ q.since = req[w].since /\ q.cutoff = req[w].cutoff /\ q.branch = req[w].branch
          /\ q.fallback = req[w].fallback /\ q.model = req[w].model /\ q.publishable = req[w].publishable
          /\ q.page = req[w].page /\ q.nextSince = req[w].nextSince /\ q.hasMore = req[w].hasMore
      BY <3>3 DEF Request
    <3> HIDE DEF q
    <3> QED BY <3>1, <3>2, <3>4, <3>5
  <2>2. \A r \in Rows : Due(w, r)' => Due(w, r)
    BY <2>1 DEF Due, Scanned, Limit
  <2> QED BY <1>0, <2>1, <2>2 DEF ScanInv, NullRows, InScan
<1>5. ASSUME Promote(w) PROVE ScanInv(w)'
  <2>1. /\ req'[w].phase = "read" /\ req[w].phase = "promote"
        /\ UNCHANGED <<req[w].since, req[w].cutoff, req[w].branch, req[w].fallback, req[w].model, req[w].sel,
                       req[w].publishable, req[w].page, req[w].nextSince, req[w].hasMore, version, pull>>
    BY <1>0, <1>5 DEF Promote, IInv, TypeOK, Request
  <2>2. \A r \in Rows : synced'[r] = IF r \in req[w].sel /\ synced[r] = 0 THEN req[w].cutoff ELSE synced[r]
    BY <1>5 DEF Promote
  <2>3. req[w].since < req[w].cutoff /\ \A r \in req[w].sel : ModelOf[r] = req[w].model
    BY <1>0, <2>1 DEF ScanInv
  <2>4. \A r \in Rows : Due(w, r)' => Due(w, r)
    <3> SUFFICES ASSUME NEW r \in Rows, Due(w, r)' PROVE Due(w, r)
      OBVIOUS
    <3>1. ModelOf[r] < req[w].model /\ ModelOf[r] \in Int
      BY <2>1, CloudFeedAssumption DEF Due, Scanned
    <3>2. r \notin req[w].sel
      BY <2>3, <3>1
    <3> QED BY <2>1, <2>2, <3>1, <3>2 DEF Due, Scanned, Limit
  <2>5. \A r \in Rows : req'[w].page[r] # 0 => synced'[r] = 0 \/ synced'[r] > req'[w].since
    BY <1>0, <2>1, <2>2, <2>3 DEF ScanInv
  <2> QED BY <1>0, <2>1, <2>4, <2>5 DEF ScanInv
<1>6. ASSUME PromoteFails(w) PROVE ScanInv(w)'
  <2> DEFINE still == {r \in req[w].sel : synced[r] = 0}
  <2>1. /\ req'[w].phase = "read" /\ req[w].phase = "promote"
        /\ req'[w].publishable = FALSE /\ req'[w].page = Collect(w, still)
        /\ UNCHANGED <<req[w].since, req[w].cutoff, req[w].branch, req[w].model, req[w].sel,
                       req[w].nextSince, req[w].hasMore, version, synced, pull>>
    <3> DEFINE f == still # {}
               g == Collect(w, still)
               q == [req[w] EXCEPT !.phase = "read", !.publishable = FALSE, !.fallback = f, !.page = g]
    <3>1. /\ req[w].phase = "promote" /\ UNCHANGED <<version, synced, pull>>
          /\ req' = [req EXCEPT ![w] = q]
      BY <1>6 DEF PromoteFails
    <3>2. req \in [Workers -> Request]
      BY <1>0 DEF IInv, TypeOK
    <3>3. req'[w] = q
      BY <3>1, <3>2
    <3> HIDE DEF f, g, still
    <3>4. /\ q.phase = "read" /\ q.publishable = FALSE /\ q.page = g
          /\ q.since = req[w].since /\ q.cutoff = req[w].cutoff /\ q.branch = req[w].branch
          /\ q.model = req[w].model /\ q.sel = req[w].sel
          /\ q.nextSince = req[w].nextSince /\ q.hasMore = req[w].hasMore
      BY <3>2 DEF Request
    <3> HIDE DEF q
    <3> QED BY <3>1, <3>3, <3>4 DEF g
  <2>2. \A r \in Rows : req'[w].page[r] = IF r \in still THEN version[r] ELSE req[w].page[r]
    BY <2>1 DEF Collect
  <2>3. \A r \in Rows : req'[w].page[r] # 0 => synced[r] = 0 \/ synced[r] > req[w].since
    BY <1>0, <2>1, <2>2 DEF ScanInv
  <2>4. \A r \in Rows : ~Due(w, r)'
    BY <2>1 DEF Due
  <2> QED BY <1>0, <2>1, <2>3, <2>4 DEF ScanInv
<1>7. ASSUME ReadWhole(w) PROVE ScanInv(w)'
  <2> DEFINE g == IF req[w].fallback THEN req[w].page ELSE Collect(w, Timed(w))
  <2>1. /\ req[w].phase = "read" /\ UNCHANGED <<version, synced, pull>>
        /\ NextModel(w, [req[w] EXCEPT !.page = g])
    BY <1>7 DEF ReadWhole
  <2>2. g \in [Rows -> Version]
    BY <1>0, CollectType DEF IInv, TypeOK, Request
  <2>3. \A r \in Rows : g[r] = req[w].page[r] \/ (g[r] = version[r] /\ r \in Timed(w))
    BY DEF Collect
  <2>4. req[w].publishable => \A r \in Timed(w) : g[r] = version[r]
    BY <1>0, <2>1 DEF ScanInv, Collect, Timed
  <2> HIDE DEF g
  <2> QED BY <2>1, <2>2, <2>3, <2>4, ModelDone
<1>8. ASSUME ReadOverflow(w) PROVE ScanInv(w)'
  <2>1. PICK t \in Time :
          /\ IsFrontier(Timed(w), t)
          /\ req' = [req EXCEPT ![w] = [@ EXCEPT !.phase = "refetch", !.frontier = t, !.hasMore = TRUE,
                                                 !.nextSince = EarlierResume(w, t)]]
    BY <1>8 DEF ReadOverflow
  <2>2. /\ req'[w].phase = "refetch" /\ req[w].phase = "read" /\ req'[w].hasMore
        /\ req'[w].frontier = t /\ req'[w].nextSince = EarlierResume(w, t)
        /\ UNCHANGED <<req[w].since, req[w].cutoff, req[w].branch, req[w].model, req[w].sel,
                       req[w].publishable, req[w].page, req[w].fallback, version, synced, pull>>
    <3>1. req[w].phase = "read" /\ UNCHANGED <<version, synced, pull>>
      BY <1>8 DEF ReadOverflow
    <3>2. req[w] \in Request /\ DOMAIN req = Workers
      BY <1>0 DEF IInv, TypeOK
    <3> DEFINE n == EarlierResume(w, t)
               q == [req[w] EXCEPT !.phase = "refetch", !.frontier = t, !.hasMore = TRUE, !.nextSince = n]
    <3>3. req'[w] = q
      BY <2>1, <3>2
    <3> HIDE DEF n
    <3>4. /\ q.phase = "refetch" /\ q.hasMore /\ q.frontier = t /\ q.nextSince = n
          /\ q.since = req[w].since /\ q.cutoff = req[w].cutoff /\ q.branch = req[w].branch
          /\ q.model = req[w].model /\ q.sel = req[w].sel /\ q.publishable = req[w].publishable
          /\ q.page = req[w].page /\ q.fallback = req[w].fallback
      BY <3>2 DEF Request
    <3> HIDE DEF q
    <3> QED BY <3>1, <3>3, <3>4 DEF n
  <2>3. t \in Nat /\ t # 0 /\ t <= req[w].cutoff /\ req[w].cutoff \in Nat /\ req[w].nextSince \in Nat
    BY <1>0, <2>1, CloudFeedAssumption DEF IsFrontier, Timed, IInv, TypeOK, Request, Time
  <2>4. /\ EarlierResume(w, t) # 0 /\ EarlierResume(w, t) <= t /\ EarlierResume(w, t) \in Nat
        /\ Limit(w)' <= Limit(w) /\ Limit(w) \in Nat /\ Limit(w)' \in Nat
    BY <2>2, <2>3 DEF EarlierResume, Limit
  <2>5. \A r \in Rows : Due(w, r)' => Due(w, r)
    <3>1. \A r \in Rows : synced[r] \in Nat
      BY <1>0, CloudFeedAssumption DEF IInv, TypeOK, Time
    <3> QED BY <2>2, <2>4, <3>1 DEF Due, Scanned
  <2> QED BY <1>0, <2>2, <2>4, <2>5 DEF ScanInv
<1>9. ASSUME Refetch(w) PROVE ScanInv(w)'
  <2> DEFINE S == UpTo(Timed(w), req[w].frontier)
             g == IF req[w].fallback THEN req[w].page ELSE Collect(w, S)
  <2>1. /\ req[w].phase = "refetch" /\ UNCHANGED <<version, synced, pull>>
        /\ NextModel(w, [req[w] EXCEPT !.page = g])
    BY <1>9 DEF Refetch
  <2>2. g \in [Rows -> Version]
    BY <1>0, CollectType DEF IInv, TypeOK, Request
  <2>3. \A r \in Rows : g[r] = req[w].page[r] \/ (g[r] = version[r] /\ r \in Timed(w))
    BY DEF Collect, UpTo
  <2>4. req[w].publishable => \A r \in Timed(w) : synced[r] <= Limit(w) => g[r] = version[r]
    <3>1. Limit(w) <= req[w].frontier /\ Limit(w) \in Nat /\ req[w].frontier \in Nat
      BY <1>0, <2>1, CloudFeedAssumption DEF ScanInv, Limit, IInv, TypeOK, Request, Time
    <3>2. \A r \in Timed(w) : synced[r] \in Nat /\ (synced[r] <= Limit(w) => r \in S)
      BY <1>0, <3>1, CloudFeedAssumption DEF Timed, UpTo, IInv, TypeOK, Time
    <3>3. req[w].publishable => g = Collect(w, S)
      BY <1>0, <2>1 DEF ScanInv
    <3> QED BY <3>2, <3>3 DEF Collect, Timed
  <2> HIDE DEF g
  <2> QED BY <2>1, <2>2, <2>3, <2>4, ModelDone
<1>10. ASSUME RequestDies(w) \/ DropAnswer(w) PROVE ScanInv(w)'
  BY <1>0, <1>10, <1>a DEF RequestDies, DropAnswer, IdleRequest, IInv, TypeOK
<1>11. ASSUME NEW b \in Branches, StartPull(b) PROVE ScanInv(w)'
  <2>1. req[w].phase # "idle" => durable[b] < req[w].cutoff
    BY DEF FeedInv, CutoffInv
  <2> QED BY <1>0, <1>11, <1>b, <1>c, <2>1 DEF StartPull, IInv, TypeOK
<1>12. ASSUME NEW b \in Branches, TimeOut(b) PROVE ScanInv(w)'
  BY <1>0, <1>12, <1>b, <1>c DEF TimeOut, AskAgain, IInv, TypeOK
<1>13. ASSUME NEW b \in Branches, AbandonPull(b) PROVE ScanInv(w)'
  <2>1. CASE UNCHANGED req
    <3>1. req[w].phase # "idle" => req[w].cutoff \in Nat \ {0}
      BY <1>0, CloudFeedAssumption DEF IInv, RequestInv, TypeOK, Request, Time
    <3>2. \A c \in Branches : pull'[c].cursor < req[w].cutoff \/ req[w].phase = "idle"
      BY <1>0, <1>13, <1>c, <3>1 DEF AbandonPull, IdlePull, IInv, TypeOK
    <3> QED BY <1>13, <1>b, <2>1, <3>2 DEF AbandonPull
  <2>2. CASE req' = [req EXCEPT ![w] = IdleRequest]
    BY <1>0, <1>a, <2>2 DEF IdleRequest, IInv, TypeOK
  <2> QED BY <1>0, <1>13, <2>1, <2>2 DEF AbandonPull
<1>14. ASSUME NEW b \in Branches, Arrive(b, w) PROVE ScanInv(w)'
  <2>1. PICK t \in Time : t > clock /\ req' = [req EXCEPT ![w] =
           [IdleRequest EXCEPT !.phase = "select", !.branch = b,
                               !.since = pull[b].cursor, !.cutoff = t]]
    BY <1>14 DEF Arrive, Allocates
  <2>2. /\ req'[w].phase = "select" /\ req'[w].since = pull[b].cursor /\ req'[w].cutoff = t
        /\ req'[w].sel = {} /\ req'[w].fallback = FALSE /\ req'[w].model = 1 /\ req'[w].page = NoPage
        /\ req'[w].nextSince = 0
    BY <1>0, <2>1 DEF IdleRequest, IInv, TypeOK
  <2>3. \A c \in Branches : pull'[c].cursor = pull[c].cursor /\ pull[c].cursor < t
    BY <1>0, <1>14, <2>1, CloudFeedAssumption DEF Arrive, IInv, TypeOK, PullInv, Pull, Time
  <2>4. \A r \in Rows : NoPage[r] = 0 /\ ~Due(w, r)'
    BY <2>2, CloudFeedAssumption DEF NoPage, Due, Scanned
  <2> QED BY <2>2, <2>3, <2>4 DEF ScanInv
<1>15. ASSUME NEW b \in Branches, FinishPull(b, w) \/ NextPage(b, w) \/ StuckPull(b, w)
       PROVE  ScanInv(w)'
  BY <1>0, <1>15, <1>a DEF FinishPull, NextPage, StuckPull, IdleRequest, IInv, TypeOK
<1>16. ASSUME UNCHANGED vars PROVE ScanInv(w)'
  BY <1>16, <1>b, <1>c DEF vars
<1> QED
  BY <1>0, <1>1, <1>2, <1>3, <1>4, <1>5, <1>6, <1>7, <1>8, <1>9, <1>10, <1>11, <1>12, <1>13, <1>14,
     <1>15, <1>16 DEF Next, Writer, Handler, Terminal

(* A page holds no older copy of a row the terminal has up to its cursor.  *)
LEMMA PageKeeps ==
  ASSUME FeedInv, NEW b \in Branches, NEW w \in Workers, Answered(b, w),
         NEW S \in SUBSET Served(w), Applies(b, w, S), UNCHANGED <<version, synced>>,
         NEW c \in Branches, NEW r \in Rows, NEW t \in Nat, t <= pull[c].cursor \/ c # b, Holds(c, r, t)
  PROVE  c \in Scope[r] /\ synced[r] # 0 /\ synced[r] <= t => applied'[c][r] = version[r]
<1>1. /\ ScanInv(w) /\ req[w].phase = "reply" /\ req[w].since = pull[b].cursor
      /\ applied \in [Branches -> [Rows -> Version]]
      /\ \A q \in Rows : synced[q] \in Nat
      /\ pull[c].cursor \in Nat /\ pull[b].cursor \in Nat
  BY CloudFeedAssumption DEF FeedInv, Answered, IInv, PullInv, TypeOK, Time, Pull
<1>2. CASE c # b
  BY <1>1, <1>2 DEF Applies, Holds
<1>3. CASE c = b
  <2>1. SUFFICES ASSUME c \in Scope[r], synced[r] # 0, synced[r] <= t PROVE applied'[b][r] = version[r]
    BY <1>3
  <2>2. req[w].page[r] = 0
    BY <1>1, <1>3, <2>1 DEF ScanInv
  <2>3. r \notin S
    BY <2>2 DEF Served
  <2> QED BY <1>1, <1>3, <2>1, <2>3 DEF Applies, Holds
<1> QED BY <1>2, <1>3

(* A whole page brings all up to the point it answers for.                 *)
LEMMA PageBrings ==
  ASSUME FeedInv, NEW b \in Branches, NEW w \in Workers, Answered(b, w), req[w].publishable,
         Applies(b, w, Served(w)), UNCHANGED <<version, synced>>,
         NEW r \in Rows, NEW t \in Nat, t <= Limit(w)
  PROVE  b \in Scope[r] /\ synced[r] # 0 /\ synced[r] <= t => applied'[b][r] = version[r]
<1> SUFFICES ASSUME b \in Scope[r], synced[r] # 0, synced[r] <= t PROVE applied'[b][r] = version[r]
  OBVIOUS
<1>a. /\ ScanInv(w) /\ req[w].phase = "reply" /\ pull[b].by = w
      /\ req \in [Workers -> Request] /\ pull \in [Branches -> Pull]
      /\ applied \in [Branches -> [Rows -> Version]] /\ synced \in [Rows -> Time]
  BY DEF FeedInv, Answered, IInv, TypeOK
<1>b. req[w].since = pull[b].cursor /\ req[w].branch = b /\ pull[b].state # "idle"
  BY <1>a, CloudFeedAssumption DEF FeedInv, IInv, PullInv
<1>c. /\ synced[r] \in Nat /\ req[w].cutoff \in Nat /\ req[w].nextSince \in Nat
      /\ pull[b].cursor \in Nat /\ Limit(w) \in Nat
  BY <1>a, CloudFeedAssumption DEF Request, Pull, Time, Limit
<1>d. version[r] # 0
  BY DEF FeedInv, ExistInv
<1>1. /\ ScanInv(w) /\ req[w].phase = "reply" /\ req[w].since = pull[b].cursor /\ req[w].branch = b
      /\ applied \in [Branches -> [Rows -> Version]]
      /\ pull[b].cursor \in Nat /\ pull[b].state # "idle" /\ version[r] # 0
      /\ synced[r] \in Nat /\ Limit(w) \in Nat
  BY <1>a, <1>b, <1>c, <1>d
<1>2. CASE synced[r] <= pull[b].cursor
  <2>1. Holds(b, r, pull[b].cursor)
    BY <1>1 DEF FeedInv, HeldInv
  <2>2. Served(w) \in SUBSET Served(w) /\ pull[b].cursor <= pull[b].cursor
    BY <1>1
  <2> QED BY <1>1, <1>2, <2>1, <2>2, PageKeeps
<1>3. CASE synced[r] > pull[b].cursor
  <2>1. Due(w, r)
    BY <1>1, <1>3 DEF Due, Scanned
  <2>2. req[w].page[r] = version[r]
    BY <1>1, <2>1 DEF ScanInv
  <2> QED BY <1>1, <2>2 DEF Applies, Served
<1> QED BY <1>1, <1>2, <1>3

(* A pull that ends leaves the terminal with what it had and what it read. *)
LEMMA HeldAfterPull ==
  ASSUME FeedInv, NEW b \in Branches, NEW w \in Workers, Answered(b, w),
         NEW S \in SUBSET Served(w), Applies(b, w, S), UNCHANGED <<version, synced>>,
         pull' = [pull EXCEPT ![b] = IdlePull],
         \/ UNCHANGED durable
         \/ durable' = [durable EXCEPT ![b] = pull[b].cursor]
         \/ /\ req[w].publishable /\ S = Served(w)
            /\ durable' = [durable EXCEPT ![b] = req[w].cutoff - 1]
            /\ req[w].cutoff # 0 /\ req[w].nextSince = 0
  PROVE  HeldInv'
<1>1. SUFFICES ASSUME NEW c \in Branches, NEW r \in Rows,
                      c \in Scope[r], synced[r] # 0
               PROVE  /\ synced[r] <= durable'[c] => applied'[c][r] = version[r]
                      /\ pull'[c].state # "idle" =>
                           (synced[r] <= pull'[c].cursor => applied'[c][r] = version[r])
  BY DEF HeldInv, Holds
<1>2. /\ pull \in [Branches -> Pull] /\ durable \in [Branches -> Time]
      /\ \A d \in Branches : durable[d] \in Nat /\ pull[d].cursor \in Nat
      /\ req[w].cutoff \in Nat /\ pull[b].by = w
  BY CloudFeedAssumption DEF FeedInv, IInv, TypeOK, Time, Pull, Request, Answered
<1>3. pull[b].state # "idle" /\ durable[b] <= pull[b].cursor
  BY <1>2, CloudFeedAssumption DEF FeedInv, IInv, PullInv
<1>4. /\ Holds(c, r, durable[c])
      /\ pull[c].state # "idle" => Holds(c, r, pull[c].cursor)
  BY DEF FeedInv, HeldInv
<1>5. ASSUME NEW t \in Nat, t <= pull[c].cursor \/ c # b, Holds(c, r, t), synced[r] <= t
      PROVE  applied'[c][r] = version[r]
  BY <1>1, <1>5, PageKeeps
<1>6. CASE c # b
  <2>1. durable'[c] = durable[c] /\ pull'[c] = pull[c]
    BY <1>2, <1>6
  <2> QED BY <1>2, <1>4, <1>5, <1>6, <2>1
<1>7. CASE c = b
  <2>1. pull'[c].state = "idle"
    BY <1>2, <1>7 DEF IdlePull
  <2>2. CASE UNCHANGED durable
    BY <1>2, <1>3, <1>4, <1>5, <1>7, <2>1, <2>2
  <2>3. CASE durable' = [durable EXCEPT ![b] = pull[b].cursor]
    <3>1. durable'[c] = pull[c].cursor
      BY <1>2, <1>7, <2>3
    <3> QED BY <1>2, <1>3, <1>4, <1>5, <1>7, <2>1, <3>1
  <2>4. CASE /\ req[w].publishable /\ S = Served(w)
             /\ durable' = [durable EXCEPT ![b] = req[w].cutoff - 1]
             /\ req[w].cutoff # 0 /\ req[w].nextSince = 0
    <3>1. durable'[c] = req[w].cutoff - 1 /\ durable'[c] \in Nat /\ durable'[c] <= Limit(w)
      BY <1>2, <1>7, <2>4 DEF Limit
    <3>2. Applies(b, w, Served(w))
      BY <2>4
    <3>3. b \in Scope[r] /\ synced[r] # 0 /\ synced[r] <= durable'[c] => applied'[b][r] = version[r]
      BY <2>4, <3>1, <3>2, PageBrings
    <3> QED BY <1>1, <1>7, <2>1, <3>3
  <2> QED BY <2>2, <2>3, <2>4
<1> QED BY <1>6, <1>7

LEMMA HeldStep ==
  ASSUME OneHandler
  PROVE  FeedInv /\ [Next]_vars => HeldInv'
<1> SUFFICES ASSUME FeedInv, [Next]_vars PROVE HeldInv'
  OBVIOUS
<1>0. /\ IInv /\ HeldInv
      /\ pull \in [Branches -> Pull] /\ durable \in [Branches -> Time]
      /\ req \in [Workers -> Request]
      /\ synced \in [Rows -> Time] /\ version \in [Rows -> Version]
      /\ applied \in [Branches -> [Rows -> Version]] /\ clock \in Nat
      /\ \A b \in Branches : /\ durable[b] \in Nat /\ pull[b].cursor \in Nat
                             /\ durable[b] <= clock /\ pull[b].cursor <= clock
      /\ \A r \in Rows : synced[r] \in Nat
  BY CloudFeedAssumption DEF FeedInv, IInv, TypeOK, ClockInv, PullInv, Time, Pull
<1> USE DEF hubData, terminals
(* Rows leave the feed or enter it beyond every cursor.                    *)
<1>a. ASSUME UNCHANGED <<pull, durable, applied>>,
             NEW t \in Nat, \A b \in Branches : durable[b] < t /\ (pull[b].state # "idle" => pull[b].cursor < t),
             \A r \in Rows : \/ synced'[r] = synced[r] /\ version'[r] = version[r]
                             \/ synced'[r] = 0
                             \/ synced'[r] = t
      PROVE  HeldInv'
  <2> SUFFICES ASSUME NEW b \in Branches, NEW r \in Rows
               PROVE  /\ Holds(b, r, durable[b])'
                      /\ pull[b].state # "idle" => Holds(b, r, pull[b].cursor)'
    BY <1>a DEF HeldInv
  <2>1. CASE synced'[r] = synced[r] /\ version'[r] = version[r]
    BY <1>0, <1>a, <2>1 DEF HeldInv, Holds
  <2>2. CASE synced'[r] = 0
    BY <1>a, <2>2 DEF Holds
  <2>3. CASE synced'[r] = t
    BY <1>0, <1>a, <2>3 DEF Holds
  <2> QED BY <1>a, <2>1, <2>2, <2>3
(* Terminals move, and no cursor does.                                     *)
<1>b. ASSUME UNCHANGED <<version, synced, durable, applied>>,
             \A b \in Branches : pull'[b].state # "idle" =>
               \/ (pull[b].state # "idle" /\ pull'[b].cursor = pull[b].cursor)
               \/ pull'[b].cursor = durable[b]
      PROVE  HeldInv'
  BY <1>0, <1>b DEF HeldInv, Holds
<1>1. ASSUME NEW r \in Rows, Save(r) PROVE HeldInv'
  <2>1. /\ clock + 1 \in Nat /\ UNCHANGED <<pull, durable, applied>>
        /\ \A b \in Branches : durable[b] < clock + 1 /\ pull[b].cursor < clock + 1
        /\ \A q \in Rows : \/ synced'[q] = 0
                           \/ synced'[q] = synced[q] /\ version'[q] = version[q]
    BY <1>0, <1>1 DEF Save
  <2> QED BY <2>1, <1>a
<1>2. ASSUME NEW r \in Rows, NEW v \in Version, Publish(r, v) PROVE HeldInv'
  <2>1. PICK t \in Time : /\ t > clock
                          /\ synced' = IF StillPending(r, v) THEN [synced EXCEPT ![r] = t] ELSE synced
    BY <1>2 DEF Publish, Allocates
  <2>2. t \in Nat /\ \A b \in Branches : durable[b] < t /\ pull[b].cursor < t
    BY <1>0, <2>1, CloudFeedAssumption DEF Time
  <2>3. \A q \in Rows : synced'[q] = t \/ synced'[q] = synced[q]
    BY <1>0, <2>1
  <2>4. UNCHANGED <<pull, durable, applied, version>>
    BY <1>2 DEF Publish
  <2> QED BY <2>2, <2>3, <2>4, <1>a
<1>3. ASSUME NEW r \in Rows, NEW v \in Version, LosePublisher(r, v) PROVE HeldInv'
  BY <1>3, <1>b DEF LosePublisher
<1>4. ASSUME NEW w \in Workers, Promote(w) PROVE HeldInv'
  <2>1. /\ req[w].phase # "idle" /\ UNCHANGED <<pull, durable, applied, version>>
        /\ \A q \in Rows : synced'[q] = req[w].cutoff \/ synced'[q] = synced[q]
    BY <1>4 DEF Promote
  <2>2. ScanInv(w) /\ CutoffInv
    BY DEF FeedInv
  <2>3. req[w].cutoff \in Nat
    BY <1>0, CloudFeedAssumption DEF Request, Time
  <2>4. \A b \in Branches : durable[b] < req[w].cutoff /\ pull[b].cursor < req[w].cutoff
    BY <2>1, <2>2 DEF ScanInv, CutoffInv
  <2> QED BY <2>1, <2>3, <2>4, <1>a
<1>5. ASSUME NEW w \in Workers,
             \/ SelectNull(w) \/ PromoteFails(w) \/ ReadWhole(w) \/ ReadOverflow(w)
             \/ Refetch(w) \/ DropAnswer(w)
      PROVE  HeldInv'
  <2>1. UNCHANGED <<version, synced, durable, applied, pull>>
    BY <1>5 DEF SelectNull, PromoteFails, ReadWhole, ReadOverflow, Refetch, DropAnswer
  <2> QED BY <2>1, <1>b
<1>6. ASSUME NEW w \in Workers, RequestDies(w) PROVE HeldInv'
  <2>1. \A b \in Branches : pull[b].by = w => pull[b].state # "idle"
    BY <1>0, CloudFeedAssumption DEF IInv, PullInv
  <2>2. \A b \in Branches : pull'[b].state # "idle" =>
           pull[b].state # "idle" /\ pull'[b].cursor = pull[b].cursor
    BY <1>0, <1>6, <2>1 DEF RequestDies, AskAgain
  <2> QED BY <1>6, <2>2, <1>b DEF RequestDies
<1>7. ASSUME NEW b \in Branches, StartPull(b) PROVE HeldInv'
  <2>1. \A c \in Branches : pull'[c].state # "idle" =>
           \/ pull[c].state # "idle" /\ pull'[c].cursor = pull[c].cursor
           \/ pull'[c].cursor = durable[c]
    BY <1>0, <1>7 DEF StartPull
  <2> QED BY <1>7, <2>1, <1>b DEF StartPull
<1>8. ASSUME NEW b \in Branches, TimeOut(b) PROVE HeldInv'
  <2>1. \A c \in Branches : pull'[c].state # "idle" =>
           pull[c].state # "idle" /\ pull'[c].cursor = pull[c].cursor
    BY <1>0, <1>8 DEF TimeOut, AskAgain
  <2> QED BY <1>8, <2>1, <1>b DEF TimeOut
<1>9. ASSUME NEW b \in Branches, NEW w \in Workers, Arrive(b, w) PROVE HeldInv'
  <2>1. pull[b].state = "asking" /\ pull' = [pull EXCEPT ![b] = [@ EXCEPT !.state = "waiting", !.by = w]]
    BY <1>9 DEF Arrive
  <2>2. \A c \in Branches : pull'[c].state # "idle" =>
           pull[c].state # "idle" /\ pull'[c].cursor = pull[c].cursor
    BY <1>0, <2>1 DEF Pull
  <2> QED BY <1>9, <2>2, <1>b DEF Arrive
<1>10. ASSUME NEW b \in Branches, AbandonPull(b) PROVE HeldInv'
  <2>1. pull' = [pull EXCEPT ![b] = IdlePull] /\ UNCHANGED <<version, synced, durable>>
    BY <1>10 DEF AbandonPull
  <2>2. CASE UNCHANGED applied
    <3>1. \A c \in Branches : pull'[c].state # "idle" =>
             pull[c].state # "idle" /\ pull'[c].cursor = pull[c].cursor
      BY <1>0, <2>1 DEF IdlePull
    <3> QED BY <2>1, <2>2, <3>1, <1>b
  <2>3. ASSUME NEW w \in Workers, Answered(b, w), NEW S \in SUBSET Served(w), Applies(b, w, S)
        PROVE  HeldInv'
    BY <2>1, <2>3, HeldAfterPull
  <2> QED BY <1>10, <2>2, <2>3 DEF AbandonPull
<1>11. ASSUME NEW b \in Branches, NEW w \in Workers, FinishPull(b, w) PROVE HeldInv'
  <2>1. /\ Answered(b, w) /\ req[w].publishable /\ ~req[w].hasMore /\ Applies(b, w, Served(w))
        /\ pull' = [pull EXCEPT ![b] = IdlePull] /\ UNCHANGED <<version, synced>>
    BY <1>11 DEF FinishPull, AnswerHasMore
  <2>2. req[w].nextSince = 0 /\ req[w].cutoff # 0
    BY <2>1 DEF FeedInv, ScanInv, Answered, IInv, RequestInv
  <2>3. UNCHANGED durable \/ durable' = [durable EXCEPT ![b] = req[w].cutoff - 1]
    BY <1>11 DEF FinishPull, Stores, ResumeCutoff
  <2>4. Served(w) \in SUBSET Served(w)
    OBVIOUS
  <2> QED BY <2>1, <2>2, <2>3, <2>4, HeldAfterPull
<1>12. ASSUME NEW b \in Branches, NEW w \in Workers, StuckPull(b, w) PROVE HeldInv'
  <2>1. /\ Answered(b, w) /\ Applies(b, w, Served(w))
        /\ pull' = [pull EXCEPT ![b] = IdlePull] /\ UNCHANGED <<version, synced>>
    BY <1>12 DEF StuckPull
  <2>2. UNCHANGED durable \/ durable' = [durable EXCEPT ![b] = pull[b].cursor]
    BY <1>12 DEF StuckPull, Stores
  <2>3. Served(w) \in SUBSET Served(w)
    OBVIOUS
  <2> QED BY <2>1, <2>2, <2>3, HeldAfterPull
<1>13. ASSUME NEW b \in Branches, NEW w \in Workers, NextPage(b, w) PROVE HeldInv'
  <2>1. /\ Answered(b, w) /\ Applies(b, w, Served(w)) /\ UNCHANGED <<version, synced, durable>>
        /\ AnswerNextSince(w) \notin {0, pull[b].cursor}
        /\ pull' = [pull EXCEPT ![b] = [state |-> "asking", cursor |-> AnswerNextSince(w), by |-> None]]
    BY <1>13 DEF NextPage
  <2>2. req[w].since = pull[b].cursor /\ pull[b].state # "idle" /\ durable[b] <= pull[b].cursor
    BY <2>1, CloudFeedAssumption DEF Answered, FeedInv, IInv, PullInv
  <2>3. req[w].publishable /\ AnswerNextSince(w) = req[w].nextSince /\ req[w].nextSince # 0
    BY <2>1, <2>2 DEF AnswerNextSince
  <2>4. req[w].nextSince \in Nat /\ req[w].nextSince <= Limit(w)
    BY <1>0, <2>3, CloudFeedAssumption DEF Limit, Request, Time
  <2>5. \A c \in Branches : pull'[c] = IF c = b
           THEN [state |-> "asking", cursor |-> req[w].nextSince, by |-> None] ELSE pull[c]
    BY <1>0, <2>1, <2>3
  <2>6. Served(w) \in SUBSET Served(w)
    OBVIOUS
  <2>7. ASSUME NEW c \in Branches, NEW r \in Rows
        PROVE  /\ Holds(c, r, durable[c])'
               /\ pull'[c].state # "idle" => Holds(c, r, pull[c].cursor)'
    <3>1. /\ Holds(c, r, durable[c])
          /\ pull[c].state # "idle" => Holds(c, r, pull[c].cursor)
      BY <1>0 DEF HeldInv
    <3>2. Holds(c, r, durable[c])'
      <4>1. durable[c] <= pull[c].cursor \/ c # b
        BY <2>2
      <4> QED BY <1>0, <2>1, <2>6, <3>1, <4>1, PageKeeps DEF Holds
    <3>3. CASE c = b
      <4>1. b \in Scope[r] /\ synced[r] # 0 /\ synced[r] <= req[w].nextSince => applied'[b][r] = version[r]
        BY <2>1, <2>3, <2>4, PageBrings
      <4> QED BY <2>1, <2>5, <3>2, <3>3, <4>1 DEF Holds
    <3>4. CASE c # b
      <4>1. pull'[c] = pull[c]
        BY <2>5, <3>4
      <4>2. pull[c].state # "idle" => Holds(c, r, pull[c].cursor)'
        BY <1>0, <2>1, <2>6, <3>1, <3>4, <4>1, PageKeeps DEF Holds
      <4> QED BY <3>2, <4>1, <4>2
    <3> QED BY <3>3, <3>4
  <2> QED BY <2>7 DEF HeldInv
<1>14. ASSUME UNCHANGED vars PROVE HeldInv'
  BY <1>14, <1>b DEF vars
<1> QED
  BY <1>1, <1>2, <1>3, <1>4, <1>5, <1>6, <1>7, <1>8, <1>9, <1>10, <1>11, <1>12, <1>13, <1>14
  DEF Next, Writer, Handler, Terminal

(* The promise of the cursor, on a hub that handles one feed request at a  *)
(* time: a terminal holds the current version of every row published to it *)
(* at or below the cursor it has stored, whatever pages were cut, replayed *)
(* or abandoned and whatever was saved or promoted meanwhile.              *)
THEOREM CursorProves ==
  ASSUME OneHandler
  PROVE  Spec => []NothingBehindCursor
<1>1. Init => FeedInv
  BY FeedInitial
<1>2. FeedInv /\ [Next]_vars => FeedInv'
  <2>1. IInv /\ [Next]_vars => IInv'
    BY ClockStep, PullStep, RequestStep, TypeStep DEF IInv
  <2> QED BY <2>1, CutoffStep, ExistStep, HeldStep, ScanStep DEF FeedInv
<1>3. FeedInv => NothingBehindCursor
  BY DEF FeedInv, HeldInv, Holds, NothingBehindCursor
<1> QED BY <1>1, <1>2, <1>3, PTL DEF Spec

-----------------------------------------------------------------------------
(***************************************************************************)
(* The messages about an order.  A creation is followed through the places *)
(* it may be in: for a chat no fault has left in doubt it is in one at     *)
(* most, and the chat has it when none is left (Single).  For what the     *)
(* retry queue has taken it is enough that a claimed batch is told by the  *)
(* pass that works on it (BatchTold) and that the queue is never longer    *)
(* than its limit (Fits).                                                  *)
(***************************************************************************)
Messages == {"new", "edit", "reply"}
Roles == Messages \cup {"persist"}
Items == [role : Roles, chats : SUBSET Chats, attempts : Nat]

NoticeTyped ==
  /\ routed \subseteq Chats /\ audience \subseteq Chats /\ ids \subseteq Chats /\ doubt \subseteq Chats
  /\ mailbox \in [Webs -> Seq(Messages)]
  /\ doing \in [Webs -> Seq(Items)]
  /\ pending \in Seq(Items) /\ processing \in Seq(Items) /\ dead \in Seq(Items)
  /\ pass \in [on : BOOLEAN, left : Seq(Items), back : Seq(Items), lost : Seq(Items)]
  /\ roots \in [Chats -> 0..2]

(* A worker has nothing in hand, a message, or what is left of one.        *)
InHand(items) ==
  \/ items = <<>>
  \/ /\ Len(items) = 1 /\ items[1].role \in Messages
  \/ /\ Len(items) = 3 /\ items[2].role = "persist"
     /\ items[3].role = items[1].role /\ items[3].chats \subseteq items[1].chats

HandsRight == \A w \in Webs : InHand(doing[w])

(* How often something of X is in a sequence.                              *)
Never(s, X) == \A n \in 1..Len(s) : s[n] \notin X
Once(s, X) == \A m, n \in 1..Len(s) : s[m] \in X /\ s[n] \in X => m = n

LEMMA JoinedOnce ==
  ASSUME NEW S, NEW s \in Seq(S), NEW t \in Seq(S), NEW X
  PROVE  /\ s \o t \in Seq(S)
         /\ Never(s \o t, X) <=> Never(s, X) /\ Never(t, X)
         /\ Once(s, X) /\ Never(t, X) => Once(s \o t, X)
         /\ Never(s, X) /\ Once(t, X) => Once(s \o t, X)
<1> DEFINE u == s \o t
<1>1. /\ u \in Seq(S) /\ Len(u) = Len(s) + Len(t)
      /\ \A n \in 1..Len(s) : u[n] = s[n]
      /\ \A n \in 1..Len(t) : u[n + Len(s)] = t[n]
      /\ \A n \in (Len(s) + 1)..Len(u) : u[n] = t[n - Len(s)] /\ n - Len(s) \in 1..Len(t)
  OBVIOUS
<1>2. Len(s) \in Nat /\ Len(t) \in Nat
  OBVIOUS
<1> HIDE DEF u
<1>3. Never(u, X) <=> Never(s, X) /\ Never(t, X)
  <2>1. ASSUME Never(u, X) PROVE Never(s, X) /\ Never(t, X)
    <3>1. \A n \in 1..Len(s) : n \in 1..Len(u)
      BY <1>1, <1>2
    <3>2. \A n \in 1..Len(t) : n + Len(s) \in 1..Len(u)
      BY <1>1, <1>2
    <3> QED BY <1>1, <2>1, <3>1, <3>2 DEF Never
  <2>2. ASSUME Never(s, X), Never(t, X) PROVE Never(u, X)
    <3> SUFFICES ASSUME NEW n \in 1..Len(u) PROVE u[n] \notin X
      BY DEF Never
    <3>1. n \in 1..Len(s) \/ n \in (Len(s) + 1)..Len(u)
      BY <1>1, <1>2
    <3> QED BY <1>1, <2>2, <3>1 DEF Never
  <2> QED BY <2>1, <2>2
<1>4. ASSUME Once(s, X), Never(t, X) PROVE Once(u, X)
  <2> SUFFICES ASSUME NEW m \in 1..Len(u), NEW n \in 1..Len(u),
                      u[m] \in X, u[n] \in X
               PROVE  m = n
    BY DEF Once
  <2>1. \A k \in (Len(s) + 1)..Len(u) : u[k] \notin X
    BY <1>1, <1>4 DEF Never
  <2>2. m \notin (Len(s) + 1)..Len(u) /\ n \notin (Len(s) + 1)..Len(u)
    BY <2>1
  <2>3. m \in 1..Len(s) /\ n \in 1..Len(s)
    BY <1>1, <1>2, <2>2
  <2> QED BY <1>1, <1>4, <2>3 DEF Once
<1>5. ASSUME Never(s, X), Once(t, X) PROVE Once(u, X)
  <2> SUFFICES ASSUME NEW m \in 1..Len(u), NEW n \in 1..Len(u),
                      u[m] \in X, u[n] \in X
               PROVE  m = n
    BY DEF Once
  <2>1. \A k \in 1..Len(s) : u[k] \notin X
    BY <1>1, <1>5 DEF Never
  <2>2. m \notin 1..Len(s) /\ n \notin 1..Len(s)
    BY <2>1
  <2>3. m \in (Len(s) + 1)..Len(u) /\ n \in (Len(s) + 1)..Len(u)
    BY <1>1, <1>2, <2>2
  <2>4. m - Len(s) = n - Len(s)
    BY <1>1, <1>5, <2>3 DEF Once
  <2> QED BY <1>2, <2>4
<1> QED BY <1>1, <1>3, <1>4, <1>5 DEF u

LEMMA NewestKeeps ==
  ASSUME NEW S, NEW s \in Seq(S), NEW n \in Int
  PROVE  /\ Newest(s, n) \in Seq(S)
         /\ Len(Newest(s, n)) <= Len(s)
         /\ \A k \in 1..Len(Newest(s, n)) :
              Newest(s, n)[k] = s[k + Len(s) - Len(Newest(s, n))]
<1> DEFINE u == SubSeq(s, Len(s) - n + 1, Len(s))
<1>1. CASE Len(s) > n /\ n >= 0
  <2>1. Newest(s, n) = u
    BY <1>1 DEF Newest
  <2>2. u \in Seq(S) /\ Len(u) = n /\ \A k \in 1..n : u[k] = s[k + Len(s) - n]
    BY <1>1
  <2> HIDE DEF u
  <2> QED BY <1>1, <2>1, <2>2
<1>2. CASE Len(s) > n /\ n < 0
  <2>1. Newest(s, n) = u
    BY <1>2 DEF Newest
  <2>2. u = <<>>
    BY <1>2
  <2> HIDE DEF u
  <2> QED BY <1>2, <2>1, <2>2
<1>3. CASE Len(s) <= n
  <2>1. Newest(s, n) = s
    BY <1>3 DEF Newest
  <2> QED BY <2>1
<1> QED BY <1>1, <1>2, <1>3

LEMMA NewestOnce ==
  ASSUME NEW S, NEW s \in Seq(S), NEW n \in Int, NEW X
  PROVE  /\ Never(s, X) => Never(Newest(s, n), X)
         /\ Once(s, X) => Once(Newest(s, n), X)
<1> DEFINE u == Newest(s, n)
           d == Len(s) - Len(u)
<1>1. /\ Len(u) \in Nat /\ Len(s) \in Nat /\ Len(u) <= Len(s)
      /\ \A k \in 1..Len(u) : u[k] = s[k + Len(s) - Len(u)]
  <2>1. Newest(s, n) \in Seq(S)
    BY NewestKeeps
  <2>2. Len(Newest(s, n)) \in Nat /\ Len(s) \in Nat
    BY <2>1
  <2> QED BY <2>2, NewestKeeps
<1> HIDE DEF u
<1>2. \A k \in 1..Len(u) : k + Len(s) - Len(u) \in 1..Len(s)
  BY <1>1
<1>3. Never(s, X) => Never(u, X)
  BY <1>1, <1>2 DEF Never
<1>4. ASSUME Once(s, X) PROVE Once(u, X)
  <2> SUFFICES ASSUME NEW k \in 1..Len(u), NEW m \in 1..Len(u),
                      u[k] \in X, u[m] \in X
               PROVE  k = m
    BY DEF Once
  <2>1. k + Len(s) - Len(u) = m + Len(s) - Len(u)
    BY <1>1, <1>2, <1>4 DEF Once
  <2> QED BY <1>1, <2>1
<1> QED BY <1>3, <1>4 DEF u
LEMMA TailOnce ==
  ASSUME NEW S, NEW s \in Seq(S), s # <<>>, NEW X
  PROVE  /\ Tail(s) \in Seq(S) /\ Head(s) \in S
         /\ Never(s, X) <=> Head(s) \notin X /\ Never(Tail(s), X)
         /\ Once(s, X) => Once(Tail(s), X)
         /\ Once(s, X) /\ Head(s) \in X => Never(Tail(s), X)
<1> DEFINE t == Tail(s)
<1>1. /\ t \in Seq(S) /\ Len(s) = Len(t) + 1 /\ Len(t) \in Nat /\ Head(s) = s[1]
      /\ \A n \in 1..Len(t) : t[n] = s[n + 1]
      /\ s[1] \in S
  OBVIOUS
<1> HIDE DEF t
<1>2. /\ 1 \in 1..Len(s)
      /\ \A n \in 1..Len(t) : n + 1 \in 1..Len(s) /\ n + 1 # 1
      /\ \A n \in 1..Len(s) : n = 1 \/ (n - 1 \in 1..Len(t) /\ (n - 1) + 1 = n)
  BY <1>1
<1>3. Never(s, X) <=> s[1] \notin X /\ Never(t, X)
  <2>1. ASSUME s[1] \notin X, Never(t, X) PROVE Never(s, X)
    <3> SUFFICES ASSUME NEW n \in 1..Len(s), n # 1 PROVE s[n] \notin X
      BY <2>1 DEF Never
    <3>1. n - 1 \in 1..Len(t) /\ (n - 1) + 1 = n
      BY <1>2
    <3>2. t[n - 1] \notin X /\ t[n - 1] = s[(n - 1) + 1]
      BY <1>1, <2>1, <3>1 DEF Never
    <3> QED BY <3>1, <3>2
  <2>2. ASSUME Never(s, X) PROVE s[1] \notin X /\ Never(t, X)
    BY <1>1, <1>2, <2>2 DEF Never
  <2> QED BY <2>1, <2>2
<1>4. ASSUME Once(s, X) PROVE Once(t, X)
  <2> SUFFICES ASSUME NEW m \in 1..Len(t), NEW n \in 1..Len(t), t[m] \in X, t[n] \in X
               PROVE  m = n
    BY DEF Once
  <2>1. m + 1 = n + 1
    BY <1>1, <1>2, <1>4 DEF Once
  <2> QED BY <2>1
<1>5. ASSUME Once(s, X), s[1] \in X PROVE Never(t, X)
  BY <1>1, <1>2, <1>5 DEF Never, Once
<1> QED BY <1>1, <1>3, <1>4, <1>5 DEF t

LEMMA OneOnce ==
  ASSUME NEW S, NEW i \in S, NEW X
  PROVE  /\ <<>> \in Seq(S) /\ <<i>> \in Seq(S)
         /\ Once(<<>>, X) /\ Once(<<i>>, X)
         /\ Never(<<>>, X)
         /\ Never(<<i>>, X) <=> i \notin X
<1>1. <<>> \in Seq(S) /\ <<i>> \in Seq(S)
  OBVIOUS
<1>2. Once(<<>>, X) /\ Once(<<i>>, X) /\ Never(<<>>, X)
  BY DEF Once, Never
<1>3. Never(<<i>>, X) <=> i \notin X
  <2>1. Len(<<i>>) = 1 /\ <<i>>[1] = i
    OBVIOUS
  <2> QED BY <2>1 DEF Never
<1> QED BY <1>1, <1>2, <1>3

(* f tells for every place of t which place of s it shows.                 *)
Shows(f, t, s, at) ==
  /\ f \in [1..Len(t) -> at]
  /\ \A n \in 1..Len(t) : t[n] = s[f[n]]
  /\ \A m, n \in 1..Len(t) : f[m] = f[n] => m = n
  /\ \A k \in at : \E n \in 1..Len(t) : f[n] = k

LEMMA PickedFrom ==
  ASSUME NEW S, NEW s \in Seq(S), NEW at \in SUBSET DOMAIN s, NEW t \in Picked(s, at)
  PROVE  /\ t \in Seq(S) /\ Len(t) = Cardinality(at)
         /\ \E f : Shows(f, t, s, at)
<1>1. IsFiniteSet(at)
  <2>1. DOMAIN s = 1..Len(s) /\ Len(s) \in Nat
    OBVIOUS
  <2>2. IsFiniteSet(1..Len(s))
    BY <2>1, FS_Interval
  <2> QED BY <2>1, <2>2, FS_Subset
<1> DEFINE n == Cardinality(at)
<1>2. n \in Nat
  BY <1>1, FS_CardinalityType
<1>3. PICK f \in Bijection(1..n, at) : t = [k \in 1..n |-> s[f[k]]]
  BY DEF Picked
<1>4. /\ f \in [1..n -> at]
      /\ \A k, m \in 1..n : f[k] = f[m] => k = m
      /\ \A x \in at : \E k \in 1..n : f[k] = x
  BY <1>3 DEF Bijection, Injection, Surjection, IsInjective
<1> HIDE DEF n
<1>5. \A k \in 1..n : s[f[k]] \in S
  <2>1. \A k \in 1..n : f[k] \in DOMAIN s
    BY <1>4
  <2> QED BY <2>1
<1>6. t \in Seq(S) /\ Len(t) = n
  BY <1>2, <1>3, <1>5
<1>7. Shows(f, t, s, at)
  BY <1>3, <1>4, <1>6 DEF Shows
<1> QED BY <1>6, <1>7 DEF n

LEMMA PickedOnce ==
  ASSUME NEW S, NEW s \in Seq(S), NEW at \in SUBSET DOMAIN s, NEW X,
         NEW t \in Picked(s, at), NEW u \in Picked(s, DOMAIN s \ at)
  PROVE  /\ t \in Seq(S) /\ u \in Seq(S)
         /\ Never(s, X) => Never(t, X) /\ Never(u, X)
         /\ Once(s, X) => Once(t, X) /\ Once(u, X) /\ (Never(t, X) \/ Never(u, X))
<1>1. DOMAIN s \ at \in SUBSET DOMAIN s /\ DOMAIN s = 1..Len(s)
  OBVIOUS
<1>2. PICK f : Shows(f, t, s, at)
  BY PickedFrom
<1>3. PICK g : Shows(g, u, s, DOMAIN s \ at)
  BY <1>1, PickedFrom
<1>4. t \in Seq(S) /\ u \in Seq(S)
  BY <1>1, PickedFrom
<1>5. /\ \A n \in 1..Len(t) : f[n] \in at /\ f[n] \in 1..Len(s)
      /\ \A n \in 1..Len(u) : g[n] \notin at /\ g[n] \in 1..Len(s)
  BY <1>1, <1>2, <1>3 DEF Shows
<1>6. ASSUME Never(s, X) PROVE Never(t, X) /\ Never(u, X)
  <2>1. \A k \in 1..Len(s) : s[k] \notin X
    BY <1>6 DEF Never
  <2>2. \A n \in 1..Len(t) : t[n] \notin X
    BY <1>2, <1>5, <2>1 DEF Shows
  <2>3. \A n \in 1..Len(u) : u[n] \notin X
    BY <1>3, <1>5, <2>1 DEF Shows
  <2> QED BY <2>2, <2>3 DEF Never
<1>7. ASSUME Once(s, X) PROVE Once(t, X) /\ Once(u, X) /\ (Never(t, X) \/ Never(u, X))
  <2>1. Once(t, X)
    <3> SUFFICES ASSUME NEW m \in 1..Len(t), NEW n \in 1..Len(t), t[m] \in X, t[n] \in X
                 PROVE  m = n
      BY DEF Once
    <3>1. f[m] \in 1..Len(s) /\ f[n] \in 1..Len(s) /\ s[f[m]] \in X /\ s[f[n]] \in X
      BY <1>2, <1>5 DEF Shows
    <3>2. f[m] = f[n]
      BY <1>7, <3>1 DEF Once
    <3> QED BY <1>2, <3>2 DEF Shows
  <2>3. Once(u, X)
    <3> SUFFICES ASSUME NEW m \in 1..Len(u), NEW n \in 1..Len(u), u[m] \in X, u[n] \in X
                 PROVE  m = n
      BY DEF Once
    <3>1. g[m] \in 1..Len(s) /\ g[n] \in 1..Len(s) /\ s[g[m]] \in X /\ s[g[n]] \in X
      BY <1>3, <1>5 DEF Shows
    <3>2. g[m] = g[n]
      BY <1>7, <3>1 DEF Once
    <3> QED BY <1>3, <3>2 DEF Shows
  <2>2. ASSUME NEW m \in 1..Len(t), NEW n \in 1..Len(u), t[m] \in X, u[n] \in X
        PROVE  FALSE
    <3>1. f[m] \in 1..Len(s) /\ g[n] \in 1..Len(s) /\ s[f[m]] \in X /\ s[g[n]] \in X
      BY <1>2, <1>3, <1>5, <2>2 DEF Shows
    <3>2. f[m] = g[n]
      BY <1>7, <3>1 DEF Once
    <3> QED BY <1>5, <3>2
  <2> QED BY <2>1, <2>2, <2>3 DEF Never
<1> QED BY <1>4, <1>6, <1>7

(* What one creation for a chat may be: not queued yet, in the mailbox or  *)
(* the hands of a web process, in the retry queue, in a claimed batch, or  *)
(* delivered.                                                              *)
Creation(c) == {i \in Items : i.role = "new" /\ c \in i.chats}

Mailed(w) == ~Never(mailbox[w], {"new"})
Handed(w, c) == doing[w] # <<>> /\ Last(doing[w]) \in Creation(c)
AtWeb(c) == \E w \in Webs : Mailed(w) \/ Handed(w, c)
Queued(c) == ~Never(pending, Creation(c))
Claimed(c) ==
  IF pass.on
  THEN ~Never(pass.left, Creation(c)) \/ ~Never(pass.back, Creation(c))
  ELSE ~Never(processing, Creation(c))
Came(c) == roots[c] > 0

OneWeb(c) ==
  /\ \A w \in Webs : Once(mailbox[w], {"new"})
  /\ \A w \in Webs : ~(Mailed(w) /\ Handed(w, c))
  /\ \A v, w \in Webs : (Mailed(v) \/ Handed(v, c)) /\ (Mailed(w) \/ Handed(w, c)) => v = w
ClaimedOnce(c) ==
  IF pass.on
  THEN /\ Once(pass.left, Creation(c)) /\ Once(pass.back, Creation(c))
       /\ Never(pass.left, Creation(c)) \/ Never(pass.back, Creation(c))
  ELSE Once(processing, Creation(c))

Single(c) ==
  /\ OneWeb(c) /\ Once(pending, Creation(c)) /\ ClaimedOnce(c) /\ roots[c] <= 1
  /\ "new" \notin disp => ~AtWeb(c) /\ ~Queued(c) /\ ~Claimed(c) /\ ~Came(c)
  /\ AtWeb(c) => ~Queued(c) /\ ~Claimed(c) /\ ~Came(c)
  /\ Queued(c) => ~Claimed(c) /\ ~Came(c)
  /\ Claimed(c) => ~Came(c)

NoticeInv == NoticeTyped /\ HandsRight /\ \A c \in Chats \ doubt : Single(c)

LEMMA WholeOnce ==
  ASSUME NEW i \in Items, NEW c
  PROVE  /\ Whole(i) \in Seq(Items)
         /\ Once(Whole(i), Creation(c))
         /\ Never(Whole(i), Creation(c)) <=> i \notin Creation(c)
<1>1. (Whole(i) = <<>> /\ i \notin Creation(c)) \/ Whole(i) = <<i>>
  BY DEF Whole, Creation
<1>2. /\ <<>> \in Seq(Items) /\ <<i>> \in Seq(Items)
      /\ Once(<<>>, Creation(c)) /\ Once(<<i>>, Creation(c)) /\ Never(<<>>, Creation(c))
      /\ Never(<<i>>, Creation(c)) <=> i \notin Creation(c)
  BY OneOnce
<1> QED BY <1>1, <1>2

LEMMA NoticeStarts ==
  ASSUME NoticeInit
  PROVE  NoticeInv
<1> USE DEF NoticeInit
<1>1. NoticeTyped
  BY DEF NoticeTyped, Idle
<1>2. HandsRight
  BY DEF HandsRight, InHand
<1>3. ASSUME NEW c \in Chats PROVE Single(c)
  <2>1. ~AtWeb(c) /\ OneWeb(c)
    BY DEF AtWeb, OneWeb, Mailed, Handed, Never, Once
  <2>2. Never(<<>>, Creation(c)) /\ Once(<<>>, Creation(c))
    BY DEF Never, Once
  <2>3. ~Queued(c) /\ ~Claimed(c) /\ ClaimedOnce(c) /\ Once(pending, Creation(c))
    BY <2>2 DEF Queued, Claimed, ClaimedOnce, Idle
  <2>4. roots[c] = 0 /\ ~Came(c)
    BY DEF Came
  <2> QED BY <2>1, <2>3, <2>4 DEF Single
<1> QED BY <1>1, <1>2, <1>3 DEF NoticeInv

-----------------------------------------------------------------------------
(* Types.                                                                  *)

Passes == [on : BOOLEAN, left : Seq(Items), back : Seq(Items), lost : Seq(Items)]

LEMMA AddOnce ==
  ASSUME NoticeTyped, NEW items \in Seq(Items), Add(items)
  PROVE  /\ pending' \in Seq(Items)
         /\ \A X : Never(pending, X) /\ Never(items, X) => Never(pending', X)
         /\ \A X : Never(pending, X) /\ Once(items, X) => Once(pending', X)
         /\ \A X : Once(pending, X) /\ Never(items, X) => Once(pending', X)
<1> DEFINE n == MaxPending - Len(processing)
           all == pending \o items
<1>1. pending \in Seq(Items) /\ processing \in Seq(Items) /\ MaxPending \in Nat
  BY NotificationsAssumption DEF NoticeTyped
<1>2. n \in Int
  BY <1>1
<1>3. pending' = Newest(all, n)
  BY DEF Add
<1>4. all \in Seq(Items)
  BY <1>1
<1> HIDE DEF n
<1>5. pending' \in Seq(Items)
  <2> HIDE DEF all
  <2> QED BY <1>2, <1>3, <1>4, NewestKeeps
<1>6. ASSUME NEW X
      PROVE  /\ Never(pending, X) /\ Never(items, X) => Never(pending', X)
             /\ Never(pending, X) /\ Once(items, X) => Once(pending', X)
             /\ Once(pending, X) /\ Never(items, X) => Once(pending', X)
  <2>1. /\ Never(all, X) <=> Never(pending, X) /\ Never(items, X)
        /\ Once(pending, X) /\ Never(items, X) => Once(all, X)
        /\ Never(pending, X) /\ Once(items, X) => Once(all, X)
    BY <1>1, JoinedOnce
  <2> HIDE DEF all
  <2>2. (Never(all, X) => Never(pending', X)) /\ (Once(all, X) => Once(pending', X))
    BY <1>2, <1>3, <1>4, NewestOnce
  <2> QED BY <2>1, <2>2
<1> QED BY <1>5, <1>6

(* What is left of the head of a batch.                                    *)
Left(failed) == [Head(pass.left) EXCEPT !.chats = failed, !.attempts = @ + 1]

LEMMA OnceMore ==
  ASSUME NEW i \in Items, NEW failed \in SUBSET Chats
  PROVE  LET j == [i EXCEPT !.chats = failed, !.attempts = @ + 1]
         IN j \in Items /\ j.role = i.role /\ j.chats = failed
<1> DEFINE n == i.attempts + 1
           j == [i EXCEPT !.chats = failed, !.attempts = n]
<1>1. n \in Nat
  BY DEF Items
<1>2. [i EXCEPT !.chats = failed, !.attempts = @ + 1] = j
  BY DEF Items
<1> HIDE DEF n
<1>3. j \in Items /\ j.role = i.role /\ j.chats = failed
  BY <1>1 DEF Items
<1> QED BY <1>2, <1>3

LEMMA AfterOne ==
  ASSUME NoticeTyped, pass.left # <<>>, NEW failed \in SUBSET Chats, NEW follow \in Seq(Items),
         After(failed, follow)
  PROVE  /\ Left(failed) \in Items /\ Left(failed).role = Head(pass.left).role /\ Left(failed).chats = failed
         /\ pass' \in Passes
         /\ pass'.on = pass.on /\ pass'.left = Tail(pass.left)
         /\ \/ failed = {} /\ pass'.back = pass.back \o follow /\ pass'.lost = pass.lost
            \/ /\ pass'.back = (pass.back \o follow) \o <<Left(failed)>>
               /\ pass'.lost = pass.lost
            \/ pass'.back = pass.back \o follow /\ pass'.lost = pass.lost \o <<Left(failed)>>
<1> DEFINE i == Head(pass.left)
           again == Left(failed)
           gone == failed # {} /\ again.attempts >= MaxAttempts
           more == IF gone \/ failed = {} THEN <<>> ELSE <<again>>
           most == IF gone THEN <<again>> ELSE <<>>
<1>1. pass \in Passes
  BY DEF NoticeTyped, Passes
<1>2. i \in Items /\ Tail(pass.left) \in Seq(Items)
  BY <1>1 DEF Passes
<1>3. again \in Items /\ again.role = i.role /\ again.chats = failed
  BY <1>2, OnceMore DEF Left
<1>4. pass' = [pass EXCEPT !.left = Tail(@), !.back = @ \o follow \o more, !.lost = @ \o most]
  BY DEF After, Left
<1>5. /\ more \in Seq(Items) /\ most \in Seq(Items)
      /\ \/ failed = {} /\ more = <<>> /\ most = <<>>
         \/ more = <<again>> /\ most = <<>>
         \/ more = <<>> /\ most = <<again>>
  <2> HIDE DEF again
  <2> QED BY <1>3
<1> HIDE DEF i, again, more, most
<1>6. /\ pass'.on = pass.on /\ pass'.left = Tail(pass.left)
      /\ pass'.back = pass.back \o follow \o more /\ pass'.lost = pass.lost \o most
  BY <1>1, <1>4 DEF Passes
<1>7. pass.back \o follow \in Seq(Items) /\ pass.lost \in Seq(Items)
  BY <1>1 DEF Passes
<1>8. pass' \in Passes
  <2>1. pass.back \o follow \o more \in Seq(Items) /\ pass.lost \o most \in Seq(Items)
    BY <1>5, <1>7
  <2> QED BY <1>1, <1>2, <1>4, <2>1 DEF Passes
<1>9. (pass.back \o follow) \o <<>> = pass.back \o follow /\ pass.lost \o <<>> = pass.lost
  BY <1>7
<1> QED BY <1>3, <1>5, <1>6, <1>8, <1>9 DEF again, i

-----------------------------------------------------------------------------
(* The steps.                                                              *)

LEMMA Announces ==
  /\ Announced \in Seq(Messages)
  /\ Once(Announced, {"new"})
  /\ ~Never(Announced, {"new"}) => "new" \notin disp /\ "new" \in ToSet(Announced)
<1> DEFINE n == <<"new">>  e == <<"edit">>  r == <<"reply">>
<1>1. /\ <<>> \in Seq(Messages) /\ n \in Seq(Messages) /\ e \in Seq(Messages) /\ r \in Seq(Messages)
      /\ Len(n) = 1 /\ n[1] = "new"
  BY DEF Messages
<1>2. \A s \in {<<>>, e, r} : Never(s, {"new"}) /\ Once(s, {"new"})
  BY DEF Never, Once
<1>3. Once(n, {"new"})
  BY DEF Once
<1>4. Announced \in {<<>>, r} \/ \E new \in {<<>>, n}, edit \in {<<>>, e} :
        Announced = new \o edit /\ (new = n => "new" \notin disp)
  <2>1. CASE status = "CANCELED"
    BY <2>1 DEF Announced
  <2>2. CASE status # "CANCELED"
    <3> DEFINE new == IF "new" \notin disp /\ routed # {} THEN n ELSE <<>>
               edit == IF /\ status = "READY" /\ "edit" \notin disp
                          /\ "new" \in disp \/ new # <<>>
                       THEN e ELSE <<>>
    <3>1. Announced = new \o edit
      BY <2>2 DEF Announced
    <3>2. new \in {<<>>, n} /\ (new = n => "new" \notin disp)
      OBVIOUS
    <3>3. edit \in {<<>>, e}
      OBVIOUS
    <3> HIDE DEF new, edit, n, e
    <3> QED BY <3>1, <3>2, <3>3
  <2> QED BY <2>1, <2>2
<1> HIDE DEF n, e, r
<1>5. CASE Announced \in {<<>>, r}
  BY <1>1, <1>2, <1>5
<1>6. ASSUME NEW new \in {<<>>, n}, NEW edit \in {<<>>, e},
             Announced = new \o edit, new = n => "new" \notin disp
      PROVE  /\ Announced \in Seq(Messages)
             /\ Once(Announced, {"new"})
             /\ ~Never(Announced, {"new"}) => "new" \notin disp /\ "new" \in ToSet(Announced)
  <2>1. new \in Seq(Messages) /\ edit \in Seq(Messages)
    BY <1>1
  <2>2. Once(new, {"new"}) /\ Never(edit, {"new"}) /\ (new = <<>> => Never(new, {"new"}))
    BY <1>2, <1>3
  <2>3. /\ Announced \in Seq(Messages) /\ Once(Announced, {"new"})
        /\ Never(Announced, {"new"}) <=> Never(new, {"new"})
    BY <1>6, <2>1, <2>2, JoinedOnce
  <2>4. new = n => "new" \in ToSet(Announced)
    <3>1. /\ Len(new \o edit) = Len(new) + Len(edit) /\ Len(edit) \in Nat
          /\ DOMAIN (new \o edit) = 1..Len(new \o edit)
          /\ \A k \in 1..Len(new) : (new \o edit)[k] = new[k]
      BY <2>1
    <3>2. new = n => Len(new) = 1 /\ new[1] = "new"
      BY <1>1
    <3>3. ASSUME new = n PROVE Announced[1] = "new" /\ 1 \in DOMAIN Announced
      <4>1. Len(new) = 1 /\ new[1] = "new"
        BY <3>2, <3>3
      <4>2. 1 \in 1..Len(new) /\ 1 \in 1..(Len(new) + Len(edit))
        BY <3>1, <4>1
      <4> QED BY <1>6, <3>1, <4>1, <4>2
    <3> QED BY <3>3 DEF ToSet
  <2> QED BY <1>6, <2>2, <2>3, <2>4
<1> QED BY <1>4, <1>5, <1>6

LEMMA DispatchRight ==
  ASSUME NoticeInv, NEW w \in Webs, Dispatch(w)
  PROVE  NoticeInv'
<1>1. /\ NoticeTyped /\ HandsRight
      /\ mailbox' = [mailbox EXCEPT ![w] = @ \o Announced]
      /\ \/ disp' = disp \cup ToSet(Announced) /\ doubt' = doubt
         \/ Chats \subseteq doubt' /\ doubt' = doubt \cup Chats
      /\ UNCHANGED <<routed, audience, ids, doing, pending, processing, dead, pass, roots>>
  BY DEF NoticeInv, Dispatch, Fault, NoFault, redis, telegram
<1>2. mailbox \in [Webs -> Seq(Messages)] /\ mailbox[w] \in Seq(Messages)
  BY <1>1 DEF NoticeTyped
<1>3. NoticeTyped' /\ HandsRight'
  <2>1. mailbox[w] \o Announced \in Seq(Messages)
    BY <1>2, Announces
  <2>2. mailbox' \in [Webs -> Seq(Messages)]
    BY <1>1, <1>2, <2>1
  <2>3. doubt' \subseteq Chats
    BY <1>1 DEF NoticeTyped
  <2> QED BY <1>1, <2>2, <2>3 DEF NoticeTyped, HandsRight
<1>4. ASSUME NEW c \in Chats \ doubt' PROVE Single(c)'
  <2>1. Single(c) /\ disp' = disp \cup ToSet(Announced)
    BY <1>1, <1>4 DEF NoticeInv
  <2>2. /\ (Queued(c)' <=> Queued(c)) /\ (Claimed(c)' <=> Claimed(c)) /\ (ClaimedOnce(c)' <=> ClaimedOnce(c))
        /\ (Came(c)' <=> Came(c)) /\ \A v \in Webs : (Handed(v, c)' <=> Handed(v, c))
    BY <1>1 DEF Queued, Claimed, ClaimedOnce, Came, Handed
  <2>3. /\ \A v \in Webs \ {w} : mailbox'[v] = mailbox[v]
        /\ mailbox'[w] = mailbox[w] \o Announced
    BY <1>1, <1>2
  <2>4. \A v \in Webs \ {w} : (Mailed(v)' <=> Mailed(v))
    BY <2>3 DEF Mailed
  <2>5. /\ Mailed(w)' <=> Mailed(w) \/ ~Never(Announced, {"new"})
        /\ Mailed(w) \/ Once(mailbox'[w], {"new"})
        /\ Never(Announced, {"new"}) /\ Once(mailbox[w], {"new"}) => Once(mailbox'[w], {"new"})
    BY <1>2, <2>3, Announces, JoinedOnce DEF Mailed
  <2>6. CASE Never(Announced, {"new"})
    <3>1. \A v \in Webs : (Mailed(v)' <=> Mailed(v))
      BY <2>4, <2>5, <2>6
    <3>2. AtWeb(c)' <=> AtWeb(c)
      BY <2>2, <3>1 DEF AtWeb
    <3>3. OneWeb(c)'
      BY <2>1, <2>2, <2>3, <2>5, <2>6, <3>1 DEF OneWeb, Single
    <3> QED BY <1>1, <2>1, <2>2, <3>2, <3>3 DEF Single
  <2>7. CASE ~Never(Announced, {"new"})
    <3>1. "new" \notin disp /\ "new" \in disp'
      BY <2>1, <2>7, Announces
    <3>2. ~AtWeb(c) /\ ~Queued(c) /\ ~Claimed(c) /\ ~Came(c) /\ OneWeb(c)
      BY <2>1, <3>1 DEF Single
    <3>3. \A v \in Webs : ~Mailed(v) /\ ~Handed(v, c)
      BY <3>2 DEF AtWeb
    <3>4. OneWeb(c)'
      <4>1. \A v \in Webs : Once(mailbox[v], {"new"})'
        BY <2>3, <2>5, <3>2, <3>3 DEF OneWeb
      <4>2. \A v \in Webs : Mailed(v)' \/ Handed(v, c)' => v = w
        BY <2>2, <2>4, <3>3
      <4> QED BY <2>2, <3>3, <4>1, <4>2 DEF OneWeb
    <3> QED BY <1>1, <2>1, <2>2, <3>1, <3>2, <3>4 DEF Single
  <2> QED BY <2>6, <2>7
<1> QED BY <1>3, <1>4 DEF NoticeInv

LEMMA TakeRight ==
  ASSUME NoticeInv, NEW w \in Webs, Take(w)
  PROVE  NoticeInv'
<1> DEFINE role == Head(mailbox[w])
           chats == Targets(role)
<1>1. /\ NoticeTyped /\ HandsRight
      /\ doing[w] = <<>> /\ mailbox[w] # <<>>
      /\ mailbox' = [mailbox EXCEPT ![w] = Tail(@)]
      /\ UNCHANGED <<routed, disp, ids, processing, dead, pass, roots>>
      /\ \/ UNCHANGED <<audience, doing, pending, doubt>>
         \/ /\ Frozen(role, chats)
            /\ doing' = [doing EXCEPT ![w] = <<Item(role, chats, 0)>>]
            /\ UNCHANGED <<pending, doubt>>
         \/ /\ role = "new" /\ Add(<<Item("new", chats, 1)>>)
            /\ doubt' = doubt \cup {} /\ UNCHANGED <<audience, doing>>
  BY DEF NoticeInv, Take, Fault, NoFault, telegram
<1>2. /\ mailbox \in [Webs -> Seq(Messages)] /\ mailbox[w] \in Seq(Messages)
      /\ role \in Messages /\ Tail(mailbox[w]) \in Seq(Messages)
  BY <1>1 DEF NoticeTyped
<1>3. chats \in SUBSET Chats
  BY <1>1 DEF NoticeTyped, Targets
<1>4. Item(role, chats, 0) \in Items /\ Item(role, chats, 1) \in Items /\ Item(role, chats, 0).role = role
  BY <1>2, <1>3 DEF Items, Item, Roles
<1> DEFINE i == Item(role, chats, 0)
           j == Item(role, chats, 1)
<1> HIDE DEF role, chats, i, j
<1>5. doubt' = doubt
  BY <1>1
<1>6. \/ UNCHANGED <<audience, doing, pending>>
      \/ Frozen(role, chats) /\ doing' = [doing EXCEPT ![w] = <<i>>] /\ UNCHANGED pending
      \/ role = "new" /\ Add(<<j>>) /\ UNCHANGED <<audience, doing>>
  BY <1>1 DEF i, j
<1>7. /\ \A v \in Webs \ {w} : mailbox'[v] = mailbox[v]
      /\ mailbox'[w] = Tail(mailbox[w])
  BY <1>1, <1>2
<1>8. i \in Items /\ j \in Items /\ i.role = role
  BY <1>4 DEF i, j
<1>9. NoticeTyped' /\ HandsRight'
  <2>1. mailbox' \in [Webs -> Seq(Messages)]
    BY <1>1, <1>2
  <2>2. pending' \in Seq(Items)
    <3>1. <<j>> \in Seq(Items)
      BY <1>8
    <3> QED BY <1>1, <1>6, <3>1, AddOnce DEF NoticeTyped
  <2>3. audience' \subseteq Chats
    BY <1>1, <1>3, <1>6 DEF NoticeTyped, Frozen
  <2>4. doing' \in [Webs -> Seq(Items)] /\ HandsRight'
    <3>1. <<i>> \in Seq(Items) /\ InHand(<<i>>)
      BY <1>2, <1>8 DEF InHand
    <3>2. doing \in [Webs -> Seq(Items)]
      BY <1>1 DEF NoticeTyped
    <3>3. CASE doing' = doing
      BY <1>1, <3>2, <3>3 DEF HandsRight
    <3>4. CASE doing' = [doing EXCEPT ![w] = <<i>>]
      <4>1. \A v \in Webs : doing'[v] = IF v = w THEN <<i>> ELSE doing[v]
        BY <3>2, <3>4
      <4> QED BY <1>1, <3>1, <3>2, <3>4, <4>1 DEF HandsRight
    <3> QED BY <1>6, <3>3, <3>4
  <2> QED BY <1>1, <1>5, <2>1, <2>2, <2>3, <2>4 DEF NoticeTyped
<1>10. ASSUME NEW c \in Chats \ doubt' PROVE Single(c)'
  <2>1. Single(c)
    BY <1>5 DEF NoticeInv
  <2>2. /\ Claimed(c)' <=> Claimed(c)
        /\ ClaimedOnce(c)' <=> ClaimedOnce(c)
        /\ Came(c)' <=> Came(c)
    BY <1>1 DEF Claimed, ClaimedOnce, Came
  <2>3. /\ \A v \in Webs \ {w} : Mailed(v)' <=> Mailed(v)
        /\ Mailed(w)' => Mailed(w)
        /\ role = "new" => Mailed(w)
        /\ Once(mailbox[w], {"new"}) => Once(mailbox'[w], {"new"})
        /\ Once(mailbox[w], {"new"}) /\ role = "new" => ~Mailed(w)'
    <3>1. /\ Never(mailbox[w], {"new"}) <=> role \notin {"new"} /\ Never(Tail(mailbox[w]), {"new"})
          /\ Once(mailbox[w], {"new"}) => Once(Tail(mailbox[w]), {"new"})
          /\ Once(mailbox[w], {"new"}) /\ role \in {"new"} => Never(Tail(mailbox[w]), {"new"})
      BY <1>1, <1>2, TailOnce DEF role
    <3> QED BY <1>7, <3>1 DEF Mailed
  <2>4. OneWeb(c) /\ \A v \in Webs : Once(mailbox[v], {"new"})
    BY <2>1 DEF Single, OneWeb
  <2>5. ~Handed(w, c)
    BY <1>1 DEF Handed
  <2>6. CASE UNCHANGED <<doing, pending>>
    <3>1. \A v \in Webs : Handed(v, c)' <=> Handed(v, c)
      BY <2>6 DEF Handed
    <3>2. (AtWeb(c)' => AtWeb(c)) /\ (Queued(c)' <=> Queued(c))
      BY <2>3, <2>6, <3>1 DEF AtWeb, Queued
    <3>3. OneWeb(c)'
      BY <1>7, <2>3, <2>4, <3>1 DEF OneWeb
    <3> QED BY <1>1, <2>1, <2>2, <2>6, <3>2, <3>3 DEF Single
  <2>7. CASE doing' = [doing EXCEPT ![w] = <<i>>] /\ UNCHANGED pending
    <3>1. doing \in [Webs -> Seq(Items)]
      BY <1>1 DEF NoticeTyped
    <3>2. doing'[w] = <<i>> /\ \A v \in Webs \ {w} : doing'[v] = doing[v]
      BY <2>7, <3>1
    <3>3. \A v \in Webs \ {w} : Handed(v, c)' <=> Handed(v, c)
      BY <3>2 DEF Handed
    <3>4. Handed(w, c)' => role = "new"
      <4>1. Last(<<i>>) = i
        BY DEF Last
      <4> QED BY <1>8, <3>2, <4>1 DEF Handed, Creation
    <3>5. (Handed(w, c)' => Mailed(w) /\ ~Mailed(w)')
      BY <2>3, <2>4, <3>4
    <3>6. (AtWeb(c)' => AtWeb(c)) /\ (Queued(c)' <=> Queued(c))
      BY <2>3, <2>7, <3>3, <3>5 DEF AtWeb, Queued
    <3>7. OneWeb(c)'
      BY <1>7, <2>3, <2>4, <3>3, <3>5 DEF OneWeb
    <3> QED BY <1>1, <2>1, <2>2, <2>7, <3>6, <3>7 DEF Single
  <2>8. CASE role = "new" /\ Add(<<j>>) /\ doing' = doing
    <3>1. \A v \in Webs : Handed(v, c)' <=> Handed(v, c)
      BY <2>8 DEF Handed
    <3>2. /\ AtWeb(c) /\ ~Queued(c) /\ ~Claimed(c) /\ ~Came(c) /\ "new" \in disp
          /\ \A v \in Webs \ {w} : ~Mailed(v) /\ ~Handed(v, c)
      BY <2>1, <2>3, <2>4, <2>8 DEF Single, AtWeb, OneWeb
    <3>3. ~AtWeb(c)' /\ OneWeb(c)'
      BY <1>7, <2>3, <2>4, <2>5, <2>8, <3>1, <3>2 DEF AtWeb, OneWeb
    <3>4. Once(pending', Creation(c))
      <4>1. <<j>> \in Seq(Items) /\ Once(<<j>>, Creation(c))
        BY <1>8, OneOnce
      <4> QED BY <1>1, <2>8, <3>2, <4>1, AddOnce DEF Queued
    <3> QED BY <1>1, <2>1, <2>2, <3>2, <3>3, <3>4 DEF Single
  <2> QED BY <1>6, <2>6, <2>7, <2>8
<1> QED BY <1>9, <1>10 DEF NoticeInv

LEMMA HandHolds ==
  ASSUME NEW s \in Seq(Items)
  PROVE  /\ Len(s) = 1 => s # <<>> /\ s[1] \in Items
         /\ Len(s) = 3 => s # <<>> /\ s[1] \in Items /\ s[2] \in Items /\ s[3] \in Items
<1>1. \A n \in 1..Len(s) : s[n] \in Items
  OBVIOUS
<1>2. s = <<>> => Len(s) = 0
  OBVIOUS
<1>3. Len(s) = 1 => 1 \in 1..Len(s)
  OBVIOUS
<1>4. Len(s) = 3 => 1 \in 1..Len(s) /\ 2 \in 1..Len(s) /\ 3 \in 1..Len(s)
  OBVIOUS
<1> QED BY <1>1, <1>2, <1>3, <1>4

LEMMA SendRight ==
  ASSUME NoticeInv, NEW w \in Webs, Send(w)
  PROVE  NoticeInv'
<1> DEFINE i == doing[w][1]
<1>1. PICK o \in Outcomes(i.role, i.chats) :
        /\ Reaches(i.role, o.answered \cup o.silent)
        /\ IF o.silent = {} THEN NoFault ELSE Fault(o.silent)
        /\ doing' = [doing EXCEPT ![w] =
             <<i, Item("persist", IF i.role = "new" THEN o.answered ELSE {}, 0),
               Item(i.role, i.chats \ o.answered, 1)>>]
  BY DEF Send
<1>2. /\ NoticeTyped /\ HandsRight /\ Len(doing[w]) = 1
      /\ UNCHANGED <<routed, audience, ids, disp, mailbox, pending, processing, dead, pass>>
  BY DEF NoticeInv, Send, database, redis
<1>3. doing \in [Webs -> Seq(Items)] /\ doing[w] \in Seq(Items) /\ i \in Items /\ roots \in [Chats -> 0..2]
  <2>1. doing \in [Webs -> Seq(Items)] /\ doing[w] \in Seq(Items) /\ roots \in [Chats -> 0..2]
    BY <1>2 DEF NoticeTyped
  <2>2. i \in Items
    BY <1>2, <2>1, HandHolds
  <2> QED BY <2>1, <2>2
<1>4. i.role \in Messages /\ i.chats \in SUBSET Chats
  <2>1. InHand(doing[w])
    BY <1>2 DEF HandsRight
  <2>2. doing[w] # <<>>
    BY <1>2, <1>3, HandHolds
  <2>3. i.role \in Messages
    BY <1>2, <2>1, <2>2 DEF InHand
  <2> QED BY <1>3, <2>3 DEF Items
<1>5. o.answered \in SUBSET i.chats /\ o.silent \in SUBSET i.chats
  BY DEF Outcomes
<1> DEFINE persist == Item("persist", IF i.role = "new" THEN o.answered ELSE {}, 0)
           again == Item(i.role, i.chats \ o.answered, 1)
<1>6. /\ persist \in Items /\ persist.role = "persist"
      /\ again \in Items /\ again.role = i.role /\ again.chats = i.chats \ o.answered
  BY <1>4, <1>5 DEF Items, Item, Roles
<1> HIDE DEF i, persist, again
<1>7. doing' = [doing EXCEPT ![w] = <<i, persist, again>>]
  BY <1>1 DEF persist, again, i
<1>8. doing'[w] = <<i, persist, again>> /\ \A v \in Webs \ {w} : doing'[v] = doing[v]
  BY <1>3, <1>7
<1>9. /\ <<i, persist, again>> \in Seq(Items) /\ Last(<<i, persist, again>>) = again
      /\ InHand(<<i, persist, again>>) /\ <<i, persist, again>> # <<>>
  BY <1>3, <1>6 DEF Last, InHand
<1>10. doubt' = doubt \cup o.silent
  BY <1>1 DEF NoFault, Fault
<1>11. roots' = [c \in Chats |->
         IF i.role = "new" /\ c \in o.answered \cup o.silent /\ roots[c] < 2 THEN roots[c] + 1 ELSE roots[c]]
  BY <1>1 DEF Reaches, i
<1>12. NoticeTyped' /\ HandsRight'
  <2>1. doing' \in [Webs -> Seq(Items)]
    BY <1>3, <1>7, <1>9
  <2>2. HandsRight'
    BY <1>2, <1>8, <1>9 DEF HandsRight
  <2>3. roots' \in [Chats -> 0..2]
    BY <1>3, <1>11
  <2>4. doubt' \subseteq Chats
    BY <1>2, <1>4, <1>5, <1>10 DEF NoticeTyped
  <2> QED BY <1>2, <2>1, <2>2, <2>3, <2>4 DEF NoticeTyped
<1>13. ASSUME NEW c \in Chats \ doubt' PROVE Single(c)'
  <2>1. Single(c) /\ c \notin o.silent
    BY <1>10, <1>13 DEF NoticeInv
  <2>2. /\ Claimed(c)' <=> Claimed(c)
        /\ ClaimedOnce(c)' <=> ClaimedOnce(c)
        /\ Queued(c)' <=> Queued(c)
        /\ \A v \in Webs : Mailed(v)' <=> Mailed(v)
    BY <1>2 DEF Claimed, ClaimedOnce, Queued, Mailed
  <2>3. \A v \in Webs \ {w} : Handed(v, c)' <=> Handed(v, c)
    BY <1>8 DEF Handed
  <2>4. Handed(w, c) <=> i.role = "new" /\ c \in i.chats
    <3>1. doing[w] # <<>>
      BY <1>2, <1>3, HandHolds
    <3>2. Last(doing[w]) = i
      BY <1>2 DEF Last, i
    <3> QED BY <1>3, <3>1, <3>2 DEF Handed, Creation
  <2>5. Handed(w, c)' <=> i.role = "new" /\ c \in i.chats \ o.answered
    BY <1>6, <1>8, <1>9 DEF Handed, Creation
  <2>6. OneWeb(c)'
    BY <1>2, <2>1, <2>2, <2>3, <2>4, <2>5 DEF OneWeb, Single
  <2>7. CASE i.role = "new" /\ c \in o.answered
    <3>1. Handed(w, c) /\ ~Handed(w, c)'
      BY <1>5, <2>4, <2>5, <2>7
    <3>2. /\ AtWeb(c) /\ ~Queued(c) /\ ~Claimed(c) /\ ~Came(c) /\ "new" \in disp
          /\ \A v \in Webs : ~Mailed(v) /\ (v # w => ~Handed(v, c))
      BY <2>1, <3>1 DEF Single, AtWeb, OneWeb
    <3>3. ~AtWeb(c)'
      BY <2>2, <2>3, <3>1, <3>2 DEF AtWeb
    <3>4. roots[c] = 0
      BY <1>3, <3>2 DEF Came
    <3>5. roots'[c] = 1
      BY <1>11, <2>7, <3>4
    <3> QED BY <1>2, <2>1, <2>2, <2>6, <3>2, <3>3, <3>5 DEF Single
  <2>8. CASE ~(i.role = "new" /\ c \in o.answered)
    <3>1. roots'[c] = roots[c]
      BY <1>11, <2>1, <2>8
    <3>2. Came(c)' <=> Came(c)
      BY <3>1 DEF Came
    <3>3. AtWeb(c)' => AtWeb(c)
      BY <2>2, <2>3, <2>4, <2>5 DEF AtWeb
    <3> QED BY <1>2, <2>1, <2>2, <2>6, <3>1, <3>2, <3>3 DEF Single
  <2> QED BY <2>7, <2>8
<1> QED BY <1>12, <1>13 DEF NoticeInv

LEMMA FinishRight ==
  ASSUME NoticeInv, NEW w \in Webs, Finish(w)
  PROVE  NoticeInv'
<1> DEFINE i == doing[w][1]
           persist == doing[w][2]
           again == doing[w][3]
           whole == Item(i.role, i.chats, 1)
<1>1. /\ NoticeTyped /\ HandsRight /\ Len(doing[w]) = 3
      /\ doing' = [doing EXCEPT ![w] = <<>>]
      /\ UNCHANGED <<routed, audience, disp, mailbox, processing, dead, pass, roots>>
      /\ \/ ids' = ids \cup persist.chats /\ Add(Whole(again)) /\ doubt' = doubt
         \/ doubt' = doubt \cup {} /\ Add(Whole(persist) \o Whole(again)) /\ UNCHANGED ids
         \/ /\ doubt' = doubt \cup i.chats
            /\ ids' \in {ids, ids \cup persist.chats}
            /\ Add(<<whole>>) \/ UNCHANGED pending
  BY DEF NoticeInv, Finish, Fault, NoFault, Stored, telegram
<1>2. /\ doing \in [Webs -> Seq(Items)] /\ doing[w] \in Seq(Items)
      /\ i \in Items /\ persist \in Items /\ again \in Items
  <2>1. doing \in [Webs -> Seq(Items)] /\ doing[w] \in Seq(Items)
    BY <1>1 DEF NoticeTyped
  <2>2. i \in Items /\ persist \in Items /\ again \in Items
    BY <1>1, <2>1, HandHolds
  <2> QED BY <2>1, <2>2
<1>3. /\ persist.role = "persist" /\ again.role = i.role /\ again.chats \subseteq i.chats
      /\ persist.chats \subseteq Chats /\ i.chats \subseteq Chats
  <2>1. InHand(doing[w])
    BY <1>1 DEF HandsRight
  <2>2. doing[w] # <<>>
    BY <1>1, <1>2, HandHolds
  <2>3. persist.role = "persist" /\ again.role = i.role /\ again.chats \subseteq i.chats
    BY <1>1, <2>1, <2>2 DEF InHand
  <2> QED BY <1>2, <2>3 DEF Items
<1>4. whole \in Items /\ whole.role = i.role /\ whole.chats = i.chats
  BY <1>2 DEF Items, Item
<1>5. Last(doing[w]) = again /\ doing[w] # <<>>
  <2>1. doing[w] # <<>>
    BY <1>1, <1>2, HandHolds
  <2> QED BY <1>1, <2>1 DEF Last
<1> HIDE DEF i, persist, again, whole
<1>6. doing'[w] = <<>> /\ \A v \in Webs \ {w} : doing'[v] = doing[v]
  BY <1>1, <1>2
<1>7. /\ Whole(again) \in Seq(Items) /\ Whole(persist) \in Seq(Items) /\ <<whole>> \in Seq(Items)
      /\ Whole(persist) \o Whole(again) \in Seq(Items)
  <2>1. Whole(again) \in Seq(Items) /\ Whole(persist) \in Seq(Items)
    BY <1>2, WholeOnce
  <2>2. <<whole>> \in Seq(Items)
    BY <1>4
  <2> QED BY <2>1, <2>2
<1>8. NoticeTyped' /\ HandsRight'
  <2>1. doing' \in [Webs -> Seq(Items)]
    BY <1>1, <1>2
  <2>2. HandsRight'
    BY <1>1, <1>6 DEF HandsRight, InHand
  <2>3. pending' \in Seq(Items)
    BY <1>1, <1>7, AddOnce DEF NoticeTyped
  <2>4. ids' \subseteq Chats /\ doubt' \subseteq Chats
    BY <1>1, <1>3 DEF NoticeTyped
  <2> QED BY <1>1, <2>1, <2>2, <2>3, <2>4 DEF NoticeTyped
<1>9. ASSUME NEW c \in Chats \ doubt' PROVE Single(c)'
  <2>1. Single(c)
    BY <1>1, <1>9 DEF NoticeInv
  <2>2. /\ Claimed(c)' <=> Claimed(c)
        /\ ClaimedOnce(c)' <=> ClaimedOnce(c)
        /\ Came(c)' <=> Came(c)
        /\ \A v \in Webs : Mailed(v)' <=> Mailed(v)
    BY <1>1 DEF Claimed, ClaimedOnce, Came, Mailed
  <2>3. (\A v \in Webs \ {w} : Handed(v, c)' <=> Handed(v, c)) /\ ~Handed(w, c)'
    BY <1>6 DEF Handed
  <2>4. Handed(w, c) <=> again \in Creation(c)
    BY <1>5 DEF Handed
  <2>5. OneWeb(c)' /\ (AtWeb(c)' => AtWeb(c))
    BY <1>1, <2>1, <2>2, <2>3 DEF OneWeb, Single, AtWeb
  <2>6. \/ again \in Creation(c) /\ \E items \in Seq(Items) : Once(items, Creation(c)) /\ Add(items)
        \/ again \notin Creation(c) /\ \E items \in Seq(Items) : Never(items, Creation(c)) /\ Add(items)
        \/ again \notin Creation(c) /\ UNCHANGED pending
    <3>1. persist \notin Creation(c)
      BY <1>3 DEF Creation
    <3>2. /\ Once(Whole(again), Creation(c))
          /\ Never(Whole(again), Creation(c)) <=> again \notin Creation(c)
          /\ Never(Whole(persist), Creation(c))
      BY <1>2, <3>1, WholeOnce
    <3>3. /\ Once(Whole(persist) \o Whole(again), Creation(c))
          /\ Never(Whole(persist) \o Whole(again), Creation(c)) <=> again \notin Creation(c)
      BY <1>7, <3>2, JoinedOnce
    <3>4. CASE c \in i.chats
      BY <1>1, <1>7, <1>9, <3>2, <3>3, <3>4
    <3>5. CASE c \notin i.chats
      <4>1. again \notin Creation(c) /\ whole \notin Creation(c)
        BY <1>3, <1>4, <3>5 DEF Creation
      <4>2. Never(<<whole>>, Creation(c))
        BY <1>4, <4>1, OneOnce
      <4> QED BY <1>1, <1>7, <3>2, <3>3, <4>1, <4>2
    <3> QED BY <3>4, <3>5
  <2>7. CASE again \in Creation(c) /\ \E items \in Seq(Items) : Once(items, Creation(c)) /\ Add(items)
    <3>1. Handed(w, c)
      BY <2>4, <2>7
    <3>2. /\ AtWeb(c) /\ ~Queued(c) /\ ~Claimed(c) /\ ~Came(c) /\ "new" \in disp
          /\ \A v \in Webs : ~Mailed(v) /\ (v # w => ~Handed(v, c))
      BY <2>1, <3>1 DEF Single, AtWeb, OneWeb
    <3>3. ~AtWeb(c)'
      BY <2>2, <2>3, <3>2 DEF AtWeb
    <3>4. Once(pending', Creation(c))
      BY <1>1, <2>7, <3>2, AddOnce DEF Queued
    <3> QED BY <1>1, <2>1, <2>2, <2>5, <3>2, <3>3, <3>4 DEF Single
  <2>8. CASE again \notin Creation(c) /\ \E items \in Seq(Items) : Never(items, Creation(c)) /\ Add(items)
    <3>1. Once(pending', Creation(c)) /\ (Queued(c)' => Queued(c))
      BY <1>1, <2>1, <2>8, AddOnce DEF Queued, Single
    <3> QED BY <1>1, <2>1, <2>2, <2>5, <3>1 DEF Single
  <2>9. CASE UNCHANGED pending
    <3>1. Queued(c)' <=> Queued(c)
      BY <2>9 DEF Queued
    <3> QED BY <1>1, <2>1, <2>2, <2>5, <2>9, <3>1 DEF Single
  <2> QED BY <2>6, <2>7, <2>8, <2>9
<1> QED BY <1>8, <1>9 DEF NoticeInv

LEMMA CrashWebRight ==
  ASSUME NoticeInv, NEW w \in Webs, CrashWeb(w)
  PROVE  NoticeInv'
<1>1. /\ NoticeTyped /\ HandsRight
      /\ mailbox' = [mailbox EXCEPT ![w] = <<>>] /\ doing' = [doing EXCEPT ![w] = <<>>]
      /\ doubt' = doubt \cup Chats
      /\ UNCHANGED <<routed, audience, ids, disp, pending, processing, dead, pass, roots>>
  BY DEF NoticeInv, CrashWeb, Fault, database, redis, telegram
<1>2. mailbox \in [Webs -> Seq(Messages)] /\ doing \in [Webs -> Seq(Items)]
  BY <1>1 DEF NoticeTyped
<1>3. mailbox' \in [Webs -> Seq(Messages)] /\ doing' \in [Webs -> Seq(Items)]
  BY <1>1, <1>2
<1>4. HandsRight'
  BY <1>1, <1>2 DEF HandsRight, InHand
<1>5. NoticeTyped'
  BY <1>1, <1>3 DEF NoticeTyped
<1> QED BY <1>1, <1>4, <1>5 DEF NoticeInv

(* A step of the retry worker moves a creation between its own places.     *)
LEMMA WebsStay ==
  ASSUME NEW c, Single(c), UNCHANGED <<disp, mailbox, doing>>,
         Once(pending', Creation(c)), ClaimedOnce(c)', roots'[c] <= 1,
         Queued(c)' => ~Claimed(c)' /\ ~Came(c)', Claimed(c)' => ~Came(c)',
         Queued(c)' \/ Claimed(c)' \/ Came(c)' => Queued(c) \/ Claimed(c) \/ Came(c)
  PROVE  Single(c)'
<1>1. \A w \in Webs : (Mailed(w)' <=> Mailed(w)) /\ (Handed(w, c)' <=> Handed(w, c))
  BY DEF Mailed, Handed
<1>2. (AtWeb(c)' <=> AtWeb(c)) /\ OneWeb(c)'
  BY <1>1 DEF AtWeb, OneWeb, Single
<1> QED BY <1>2 DEF Single

LEMMA ClaimRight ==
  ASSUME NoticeInv, Claim
  PROVE  NoticeInv'
<1>1. /\ NoticeTyped /\ HandsRight /\ ~pass.on
      /\ pass' = [Idle EXCEPT !.on = TRUE, !.left = pass'.left]
      /\ \/ /\ processing # <<>> /\ pass'.left = processing
            /\ UNCHANGED <<pending, processing>>
         \/ /\ processing = <<>> /\ pass'.left = processing'
            /\ \E due \in SUBSET DOMAIN pending :
                 /\ processing' \in Picked(pending, due)
                 /\ pending' \in Picked(pending, DOMAIN pending \ due)
      /\ UNCHANGED <<routed, audience, ids, disp, mailbox, doing, dead, roots, doubt>>
  BY DEF NoticeInv, Claim, database, processes, telegram, NoFault, Idle
<1>2. pending \in Seq(Items) /\ processing \in Seq(Items)
  BY <1>1 DEF NoticeTyped
<1>3. ASSUME NEW X
      PROVE  /\ pending' \in Seq(Items) /\ processing' \in Seq(Items) /\ pass'.left \in Seq(Items)
             /\ Once(pending, X) /\ Once(processing, X) => Once(pending', X) /\ Once(pass'.left, X)
             /\ Never(pending, X) => Never(pending', X)
             /\ Never(pending, X) /\ Never(processing, X) => Never(pass'.left, X)
             /\ Once(pending, X) /\ (Never(pending, X) \/ Never(processing, X))
                  => Never(pending', X) \/ Never(pass'.left, X)
  <2>1. CASE pass'.left = processing /\ UNCHANGED <<pending, processing>>
    BY <1>2, <2>1
  <2>2. ASSUME processing = <<>>, pass'.left = processing', NEW due \in SUBSET DOMAIN pending,
               processing' \in Picked(pending, due),
               pending' \in Picked(pending, DOMAIN pending \ due)
        PROVE  /\ pending' \in Seq(Items) /\ processing' \in Seq(Items)
               /\ Never(pending, X) => Never(processing', X) /\ Never(pending', X)
               /\ Once(pending, X) => /\ Once(processing', X) /\ Once(pending', X)
                                      /\ Never(processing', X) \/ Never(pending', X)
    BY <1>2, <2>2, PickedOnce
  <2> QED BY <1>1, <2>1, <2>2
<1>4. pass'.on /\ pass'.back = <<>> /\ pass' \in Passes
  <2>1. pass'.left \in Seq(Items)
    BY <1>3
  <2> DEFINE left == pass'.left
  <2>2. pass' = [Idle EXCEPT !.on = TRUE, !.left = left]
    BY <1>1
  <2> HIDE DEF left
  <2>3. left \in Seq(Items)
    BY <2>1 DEF left
  <2>4. Idle \in Passes /\ Idle.back = <<>>
    BY DEF Idle, Passes
  <2>5. pass' \in Passes /\ pass'.on /\ pass'.back = Idle.back
    BY <2>2, <2>3, <2>4 DEF Passes
  <2> QED BY <2>4, <2>5
<1>5. NoticeTyped' /\ HandsRight'
  BY <1>1, <1>3, <1>4 DEF NoticeTyped, HandsRight, Passes
<1>6. ASSUME NEW c \in Chats \ doubt' PROVE Single(c)'
  <2>1. Single(c)
    BY <1>1, <1>6 DEF NoticeInv
  <2>2. /\ Once(pending, Creation(c)) /\ Once(processing, Creation(c))
        /\ Never(pending, Creation(c)) \/ Never(processing, Creation(c))
        /\ ~Never(pending, Creation(c)) \/ ~Never(processing, Creation(c)) => ~Came(c)
    BY <1>1, <2>1 DEF Single, ClaimedOnce, Queued, Claimed
  <2>3. Never(<<>>, Creation(c)) /\ Once(<<>>, Creation(c))
    BY DEF Never, Once
  <2>4. /\ Once(pending', Creation(c)) /\ ClaimedOnce(c)'
        /\ Queued(c)' <=> ~Never(pending', Creation(c))
        /\ Claimed(c)' <=> ~Never(pass'.left, Creation(c))
        /\ Came(c)' <=> Came(c)
    BY <1>1, <1>3, <1>4, <2>2, <2>3 DEF ClaimedOnce, Queued, Claimed, Came
  <2>5. /\ Never(pending', Creation(c)) \/ Never(pass'.left, Creation(c))
        /\ Never(pending, Creation(c)) => Never(pending', Creation(c))
        /\ Never(pending, Creation(c)) /\ Never(processing, Creation(c)) => Never(pass'.left, Creation(c))
    BY <1>3, <2>2
  <2>6. Queued(c) \/ Claimed(c) <=> ~Never(pending, Creation(c)) \/ ~Never(processing, Creation(c))
    BY <1>1 DEF Queued, Claimed
  <2>7. roots'[c] <= 1
    BY <1>1, <2>1 DEF Single
  <2> QED BY <1>1, <2>1, <2>2, <2>4, <2>5, <2>6, <2>7, WebsStay
<1> QED BY <1>5, <1>6 DEF NoticeInv

(* The batch after one item of it, for one chat.                           *)
LEMMA ClaimedAfter ==
  ASSUME NoticeInv, pass.on, pass.left # <<>>, NEW c, Single(c),
         NEW failed \in SUBSET Chats, failed \subseteq Head(pass.left).chats,
         NEW follow \in Seq(Items), After(failed, follow),
         Never(follow, Creation(c))
  PROVE  /\ pass'.on /\ ClaimedOnce(c)'
         /\ Claimed(c)' => Claimed(c)
         /\ Head(pass.left) \in Creation(c) => Claimed(c)
         /\ Head(pass.left) \in Creation(c) /\ c \notin failed => ~Claimed(c)'
<1> DEFINE C == Creation(c)
           h == Head(pass.left)
           t == Tail(pass.left)
           b == pass.back \o follow
           x == Left(failed)
<1>1. /\ x \in Items /\ x.role = h.role /\ x.chats = failed
      /\ pass' \in Passes
      /\ pass'.on = pass.on /\ pass'.left = t
      /\ pass'.back = b \/ pass'.back = b \o <<x>>
  BY AfterOne DEF NoticeInv
<1>2. pass.left \in Seq(Items) /\ pass.back \in Seq(Items)
  BY DEF NoticeInv, NoticeTyped
<1>3. /\ t \in Seq(Items) /\ h \in Items
      /\ Never(pass.left, C) <=> h \notin C /\ Never(t, C)
      /\ Once(pass.left, C) => Once(t, C)
      /\ Once(pass.left, C) /\ h \in C => Never(t, C)
  BY <1>2, TailOnce
<1>4. /\ b \in Seq(Items)
      /\ Never(b, C) <=> Never(pass.back, C)
      /\ Once(pass.back, C) => Once(b, C)
  BY <1>2, JoinedOnce
<1>5. x \in C => h \in C /\ c \in failed
  BY <1>1, <1>3 DEF Creation
<1> HIDE DEF C, h, t, b, x
<1>6. <<x>> \in Seq(Items) /\ Once(<<x>>, C) /\ (Never(<<x>>, C) <=> x \notin C)
  BY <1>1, OneOnce
<1>7. /\ Never(b \o <<x>>, C) <=> Never(b, C) /\ x \notin C
      /\ Once(b, C) /\ x \notin C => Once(b \o <<x>>, C)
      /\ Never(b, C) => Once(b \o <<x>>, C)
  BY <1>4, <1>6, JoinedOnce
<1>8. /\ Once(pass.left, C) /\ Once(pass.back, C) /\ (Never(pass.left, C) \/ Never(pass.back, C))
      /\ Claimed(c) <=> ~Never(pass.left, C) \/ ~Never(pass.back, C)
  BY DEF Single, ClaimedOnce, Claimed, C
<1>9. pass'.on
  BY <1>1
<1>10. /\ ClaimedOnce(c)' <=> /\ Once(pass'.left, C) /\ Once(pass'.back, C)
                              /\ Never(pass'.left, C) \/ Never(pass'.back, C)
       /\ Claimed(c)' <=> ~Never(pass'.left, C) \/ ~Never(pass'.back, C)
  BY <1>9 DEF ClaimedOnce, Claimed, C
<1>11. CASE h \in C
  <2>1. Never(t, C) /\ Never(b, C) /\ Once(t, C) /\ Once(b, C)
    BY <1>3, <1>4, <1>8, <1>11
  <2>2. Once(pass'.back, C) /\ (c \notin failed => Never(pass'.back, C))
    BY <1>1, <1>5, <1>7, <2>1
  <2> QED BY <1>1, <1>3, <1>8, <1>9, <1>10, <1>11, <2>1, <2>2 DEF C, h
<1>12. CASE h \notin C
  <2>1. x \notin C
    BY <1>5, <1>12
  <2>2. (Never(pass'.back, C) <=> Never(pass.back, C)) /\ Once(pass'.back, C)
    BY <1>1, <1>4, <1>7, <1>8, <2>1
  <2>3. (Never(pass'.left, C) <=> Never(pass.left, C)) /\ Once(pass'.left, C)
    BY <1>1, <1>3, <1>8, <1>12
  <2> QED BY <1>8, <1>9, <1>10, <1>12, <2>2, <2>3 DEF C, h
<1> QED BY <1>11, <1>12

LEMMA WorkPersistRight ==
  ASSUME NoticeInv, WorkPersist
  PROVE  NoticeInv'
<1> DEFINE i == Head(pass.left)
<1>1. /\ NoticeTyped /\ HandsRight /\ pass.on /\ pass.left # <<>> /\ i.role = "persist"
      /\ \/ audience' = audience \cup i.chats /\ ids' = ids \cup i.chats /\ After({}, <<>>) /\ doubt' = doubt
         \/ UNCHANGED <<audience, ids>> /\ After(i.chats, <<>>) /\ doubt' = doubt \cup {}
      /\ UNCHANGED <<routed, disp, mailbox, doing, pending, processing, dead, roots>>
  BY DEF NoticeInv, WorkPersist, Stored, NoFault, Fault, processes, telegram
<1>2. i \in Items /\ i.chats \in SUBSET Chats
  <2>1. pass.left \in Seq(Items)
    BY <1>1 DEF NoticeTyped
  <2>2. i \in Items
    BY <1>1, <2>1, TailOnce
  <2> QED BY <2>2 DEF Items
<1>3. PICK failed \in SUBSET Chats : failed \subseteq i.chats /\ After(failed, <<>>)
  BY <1>1, <1>2
<1>4. <<>> \in Seq(Items)
  OBVIOUS
<1>5. pass' \in Passes
  BY <1>1, <1>3, <1>4, AfterOne
<1>6. NoticeTyped' /\ HandsRight'
  BY <1>1, <1>2, <1>5 DEF NoticeTyped, HandsRight, Passes
<1>7. ASSUME NEW c \in Chats \ doubt' PROVE Single(c)'
  <2>1. Single(c)
    BY <1>1, <1>7 DEF NoticeInv
  <2>2. Never(<<>>, Creation(c))
    BY DEF Never
  <2>3. ClaimedOnce(c)' /\ (Claimed(c)' => Claimed(c))
    BY <1>1, <1>3, <1>4, <2>1, <2>2, ClaimedAfter
  <2>4. (Queued(c)' <=> Queued(c)) /\ (Came(c)' <=> Came(c)) /\ Once(pending', Creation(c)) /\ roots'[c] <= 1
    BY <1>1, <2>1 DEF Queued, Came, Single
  <2>5. (Queued(c) => ~Claimed(c) /\ ~Came(c)) /\ (Claimed(c) => ~Came(c))
    BY <2>1 DEF Single
  <2> QED BY <1>1, <2>1, <2>3, <2>4, <2>5, WebsStay
<1> QED BY <1>6, <1>7 DEF NoticeInv

LEMMA WorkSendRight ==
  ASSUME NoticeInv, WorkSend
  PROVE  NoticeInv'
<1> DEFINE i == Head(pass.left)
           sent(o) == IF i.role = "new" THEN o.answered ELSE {}
<1>1. PICK o \in Outcomes(i.role, i.chats) :
        /\ Reaches(i.role, o.answered \cup o.silent)
        /\ \/ ids' = ids \cup sent(o) /\ After(i.chats \ o.answered, <<>>)
           \/ UNCHANGED ids /\ After(i.chats \ o.answered, <<Item("persist", sent(o), 0)>>)
        /\ doubt' = doubt \cup o.silent
  BY DEF WorkSend, Stored, NoFault, Fault
<1>2. /\ NoticeTyped /\ HandsRight /\ pass.on /\ pass.left # <<>>
      /\ audience' = audience \/ audience' = audience \cup i.chats
      /\ UNCHANGED <<routed, disp, mailbox, doing, pending, processing, dead>>
  BY DEF NoticeInv, WorkSend, Frozen, processes
<1>3. i \in Items /\ i.chats \in SUBSET Chats
  <2>1. pass.left \in Seq(Items)
    BY <1>2 DEF NoticeTyped
  <2>2. i \in Items
    BY <1>2, <2>1, TailOnce
  <2> QED BY <2>2 DEF Items
<1>4. o.answered \in SUBSET i.chats /\ o.silent \in SUBSET i.chats
  BY DEF Outcomes
<1> DEFINE failed == i.chats \ o.answered
           persist == Item("persist", sent(o), 0)
<1>5. /\ persist \in Items /\ persist.role = "persist"
      /\ failed \in SUBSET Chats /\ failed \subseteq i.chats /\ sent(o) \subseteq Chats
  BY <1>3, <1>4 DEF Items, Item, Roles
<1>6. roots' = [c \in Chats |->
         IF i.role = "new" /\ c \in o.answered \cup o.silent /\ roots[c] < 2 THEN roots[c] + 1 ELSE roots[c]]
  BY <1>1 DEF Reaches
<1>7. roots \in [Chats -> 0..2]
  BY <1>2 DEF NoticeTyped
<1> HIDE DEF sent, failed, persist
<1>8. After(failed, <<>>) \/ After(failed, <<persist>>)
  BY <1>1 DEF failed, persist
<1>9. PICK follow \in {<<>>, <<persist>>} : After(failed, follow)
  BY <1>8
<1>10. follow \in Seq(Items) /\ \A c : Never(follow, Creation(c))
  <2>1. \A c : persist \notin Creation(c)
    BY <1>5 DEF Creation
  <2>2. <<>> \in Seq(Items) /\ <<persist>> \in Seq(Items)
    BY <1>5
  <2>3. \A c : Never(<<>>, Creation(c)) /\ Never(<<persist>>, Creation(c))
    BY <1>5, <2>1, OneOnce
  <2> QED BY <1>9, <2>2, <2>3
<1>11. pass' \in Passes
  BY <1>2, <1>5, <1>9, <1>10, AfterOne
<1>12. NoticeTyped' /\ HandsRight'
  <2>1. roots' \in [Chats -> 0..2]
    BY <1>6, <1>7
  <2>2. ids' \subseteq Chats /\ audience' \subseteq Chats /\ doubt' \subseteq Chats
    BY <1>1, <1>2, <1>3, <1>4, <1>5 DEF NoticeTyped
  <2> QED BY <1>2, <1>11, <2>1, <2>2 DEF NoticeTyped, HandsRight, Passes
<1>13. ASSUME NEW c \in Chats \ doubt' PROVE Single(c)'
  <2>1. Single(c) /\ c \notin o.silent
    BY <1>1, <1>13 DEF NoticeInv
  <2>2. /\ ClaimedOnce(c)' /\ (Claimed(c)' => Claimed(c))
        /\ i \in Creation(c) => Claimed(c)
        /\ i \in Creation(c) /\ c \notin failed => ~Claimed(c)'
    BY <1>2, <1>5, <1>9, <1>10, <2>1, ClaimedAfter
  <2>3. (Queued(c)' <=> Queued(c)) /\ Once(pending', Creation(c))
    BY <1>2, <2>1 DEF Queued, Single
  <2>4. (Queued(c) => ~Claimed(c) /\ ~Came(c)) /\ (Claimed(c) => ~Came(c)) /\ roots[c] <= 1
    BY <2>1 DEF Single
  <2>5. CASE i.role = "new" /\ c \in o.answered
    <3>1. i \in Creation(c) /\ c \notin failed
      BY <1>3, <1>4, <2>5 DEF Creation, failed
    <3>2. Claimed(c) /\ ~Claimed(c)' /\ ~Queued(c) /\ ~Came(c)
      BY <2>2, <2>4, <3>1
    <3>3. roots[c] = 0
      BY <1>7, <3>2 DEF Came
    <3>4. roots'[c] <= 1
      BY <1>6, <2>5, <3>3
    <3> QED BY <1>2, <2>1, <2>2, <2>3, <3>2, <3>4, WebsStay
  <2>6. CASE ~(i.role = "new" /\ c \in o.answered)
    <3>1. roots'[c] = roots[c]
      BY <1>6, <2>1, <2>6
    <3>2. (Came(c)' <=> Came(c)) /\ roots'[c] <= 1
      BY <2>4, <3>1 DEF Came
    <3> QED BY <1>2, <2>1, <2>2, <2>3, <2>4, <3>2, WebsStay
  <2> QED BY <2>5, <2>6
<1> QED BY <1>12, <1>13 DEF NoticeInv

LEMMA CompleteRight ==
  ASSUME NoticeInv, Complete
  PROVE  NoticeInv'
<1> DEFINE all == pass.back \o pending
<1>1. /\ NoticeTyped /\ HandsRight /\ pass.on /\ pass.left = <<>>
      /\ pending' = Newest(all, MaxPending)
      /\ dead' = dead \o pass.lost /\ processing' = <<>> /\ pass' = Idle
      /\ UNCHANGED <<routed, audience, ids, disp, mailbox, doing, roots, doubt>>
  BY DEF NoticeInv, Complete, NoFault, database, processes, telegram
<1>2. /\ pending \in Seq(Items) /\ pass.back \in Seq(Items) /\ pass.lost \in Seq(Items)
      /\ dead \in Seq(Items) /\ MaxPending \in Int
  BY <1>1, NotificationsAssumption DEF NoticeTyped
<1>3. all \in Seq(Items)
  BY <1>2
<1>4. NoticeTyped' /\ HandsRight'
  <2>1. pending' \in Seq(Items)
    <3> HIDE DEF all
    <3> QED BY <1>1, <1>2, <1>3, NewestKeeps
  <2>2. dead' \in Seq(Items) /\ processing' \in Seq(Items) /\ pass' \in Passes
    BY <1>1, <1>2 DEF Idle, Passes
  <2> QED BY <1>1, <2>1, <2>2 DEF NoticeTyped, HandsRight, Passes
<1>5. ASSUME NEW c \in Chats \ doubt' PROVE Single(c)'
  <2> DEFINE C == Creation(c)
  <2>1. Single(c)
    BY <1>1, <1>5 DEF NoticeInv
  <2>2. /\ Once(pending, C) /\ Once(pass.back, C) /\ (Never(pending, C) \/ Never(pass.back, C))
        /\ ~Never(pending, C) \/ ~Never(pass.back, C) => (Queued(c) \/ Claimed(c)) /\ ~Came(c)
    BY <1>1, <2>1 DEF Single, ClaimedOnce, Queued, Claimed
  <2>3. Once(all, C) /\ (Never(all, C) <=> Never(pending, C) /\ Never(pass.back, C))
    <3> HIDE DEF C
    <3> QED BY <1>2, <2>2, JoinedOnce
  <2>4. Once(pending', C) /\ (Never(all, C) => Never(pending', C))
    <3> HIDE DEF all, C
    <3> QED BY <1>1, <1>2, <1>3, <2>3, NewestOnce
  <2>5. Never(<<>>, C) /\ Once(<<>>, C)
    BY DEF Never, Once
  <2>6. ~Claimed(c)' /\ ClaimedOnce(c)'
    BY <1>1, <2>5 DEF Claimed, ClaimedOnce, Idle
  <2>7. (Came(c)' <=> Came(c)) /\ roots'[c] <= 1
    BY <1>1, <2>1 DEF Came, Single
  <2>8. Queued(c)' => (Queued(c) \/ Claimed(c)) /\ ~Came(c)
    BY <2>2, <2>3, <2>4 DEF Queued
  <2> QED BY <1>1, <2>1, <2>4, <2>6, <2>7, <2>8, WebsStay
<1> QED BY <1>4, <1>5 DEF NoticeInv

(* What no item names, none creates.                                       *)
LEMMA Unnamed ==
  ASSUME NEW s \in Seq(Items), NEW c, c \notin Named(s)
  PROVE  Never(s, Creation(c))
<1> SUFFICES ASSUME NEW n \in 1..Len(s) PROVE s[n] \notin Creation(c)
  BY DEF Never
<1>1. s[n] \in ToSet(s)
  BY DEF ToSet
<1> QED BY <1>1 DEF Named, Creation

LEMMA NamedChats ==
  ASSUME NEW s \in Seq(Items)
  PROVE  Named(s) \subseteq Chats
<1>1. \A i \in ToSet(s) : i.chats \subseteq Chats
  <2>1. \A i \in ToSet(s) : i \in Items
    BY DEF ToSet
  <2> QED BY <2>1 DEF Items
<1> QED BY <1>1 DEF Named

LEMMA CrashRetryRight ==
  ASSUME NoticeInv, CrashRetry
  PROVE  NoticeInv'
<1>1. /\ NoticeTyped /\ HandsRight /\ pass' = Idle
      /\ doubt' = doubt \cup Named(processing)
      /\ UNCHANGED <<routed, audience, ids, disp, mailbox, doing, pending, processing, dead, roots>>
  BY DEF NoticeInv, CrashRetry, Fault, database, processes, telegram
<1>2. processing \in Seq(Items)
  BY <1>1 DEF NoticeTyped
<1>3. NoticeTyped' /\ HandsRight'
  <2>1. pass' \in Passes
    BY <1>1 DEF Idle, Passes
  <2>2. Named(processing) \subseteq Chats
    BY <1>2, NamedChats
  <2> QED BY <1>1, <2>1, <2>2 DEF NoticeTyped, HandsRight, Passes
<1>4. ASSUME NEW c \in Chats \ doubt' PROVE Single(c)'
  <2>1. Single(c) /\ c \notin Named(processing)
    BY <1>1, <1>4 DEF NoticeInv
  <2>2. Never(processing, Creation(c))
    BY <1>2, <2>1, Unnamed
  <2>3. ~Claimed(c)' /\ ClaimedOnce(c)'
    BY <1>1, <2>2 DEF Claimed, ClaimedOnce, Idle, Never, Once
  <2>4. (Queued(c)' <=> Queued(c)) /\ (Came(c)' <=> Came(c)) /\ Once(pending', Creation(c)) /\ roots'[c] <= 1
    BY <1>1, <2>1 DEF Queued, Came, Single
  <2>5. Queued(c) => ~Came(c)
    BY <2>1 DEF Single
  <2> QED BY <1>1, <2>1, <2>3, <2>4, <2>5, WebsStay
<1> QED BY <1>3, <1>4 DEF NoticeInv

LEMMA ClearRight ==
  ASSUME NoticeInv, Clear
  PROVE  NoticeInv'
<1>1. /\ NoticeTyped /\ HandsRight /\ ~pass.on /\ pass' = pass
      /\ doubt' = doubt \cup Named(pending \o processing)
      /\ pending' = <<>> /\ processing' = <<>>
      /\ UNCHANGED <<routed, audience, ids, disp, mailbox, doing, dead, roots>>
  BY DEF NoticeInv, Clear, Fault, database, processes, telegram
<1>2. pending \o processing \in Seq(Items)
  BY <1>1 DEF NoticeTyped
<1>3. NoticeTyped' /\ HandsRight'
  <2>1. Named(pending \o processing) \subseteq Chats
    BY <1>2, NamedChats
  <2> QED BY <1>1, <2>1 DEF NoticeTyped, HandsRight
<1>4. ASSUME NEW c \in Chats \ doubt' PROVE Single(c)'
  <2>1. Single(c)
    BY <1>1, <1>4 DEF NoticeInv
  <2>2. Never(<<>>, Creation(c)) /\ Once(<<>>, Creation(c))
    BY DEF Never, Once
  <2>3. ~Claimed(c)' /\ ClaimedOnce(c)' /\ ~Queued(c)' /\ Once(pending', Creation(c))
    BY <1>1, <2>2 DEF Claimed, ClaimedOnce, Queued
  <2>4. (Came(c)' <=> Came(c)) /\ roots'[c] <= 1
    BY <1>1, <2>1 DEF Came, Single
  <2> QED BY <1>1, <2>1, <2>3, <2>4, WebsStay
<1> QED BY <1>3, <1>4 DEF NoticeInv

LEMMA NoticeStutters ==
  ASSUME NoticeInv, UNCHANGED noticeVars
  PROVE  NoticeInv'
<1>1. UNCHANGED <<routed, audience, ids, disp, mailbox, doing, pending, processing, dead, pass, roots, doubt>>
  BY DEF noticeVars, database, processes, redis, telegram
<1>2. NoticeTyped' /\ HandsRight'
  BY <1>1 DEF NoticeInv, NoticeTyped, HandsRight
<1>3. ASSUME NEW c \in Chats \ doubt' PROVE Single(c)'
  BY <1>1, <1>3 DEF NoticeInv, Single, OneWeb, AtWeb, Mailed, Handed, Queued, Claimed, ClaimedOnce, Came
<1> QED BY <1>2, <1>3 DEF NoticeInv

LEMMA OrderRight ==
  ASSUME NoticeInv,
         (\E s \in {"READY", "CANCELED"} : SaveOrder(s)) \/ (\E chats \in Routings : Reroute(chats))
  PROVE  NoticeInv'
<1>1. /\ UNCHANGED <<audience, ids, disp, mailbox, doing, pending, processing, dead, pass, roots, doubt>>
      /\ routed' \subseteq Chats
  BY NotificationsAssumption
     DEF SaveOrder, Reroute, processes, redis, telegram, NoFault, NoticeInv, NoticeTyped
<1>2. NoticeTyped' /\ HandsRight'
  BY <1>1 DEF NoticeInv, NoticeTyped, HandsRight
<1>3. ASSUME NEW c \in Chats \ doubt' PROVE Single(c)'
  BY <1>1, <1>3 DEF NoticeInv, Single, OneWeb, AtWeb, Mailed, Handed, Queued, Claimed, ClaimedOnce, Came
<1> QED BY <1>2, <1>3 DEF NoticeInv

LEMMA NoticeStep ==
  ASSUME NoticeInv, [NoticeNext]_noticeVars
  PROVE  NoticeInv'
<1>1. ASSUME NEW w \in Webs, Dispatch(w) \/ Take(w) \/ Send(w) \/ Finish(w) \/ CrashWeb(w)
      PROVE  NoticeInv'
  BY <1>1, DispatchRight, TakeRight, SendRight, FinishRight, CrashWebRight
<1>2. CASE Claim \/ WorkPersist \/ WorkSend \/ Complete \/ CrashRetry \/ Clear
  BY <1>2, ClaimRight, WorkPersistRight, WorkSendRight, CompleteRight, CrashRetryRight, ClearRight
<1>3. CASE (\E s \in {"READY", "CANCELED"} : SaveOrder(s)) \/ (\E chats \in Routings : Reroute(chats))
  BY <1>3, OrderRight
<1> QED BY <1>1, <1>2, <1>3, NoticeStutters DEF NoticeNext

(* Unless a fault left its delivery in doubt, the creation of an order     *)
(* comes to a chat once (queue_service.py:71), however the routing, the    *)
(* queues and the retries run.                                             *)
THEOREM RootSentOnce == NoticeSpec => []RootOnce
<1>1. NoticeInit => NoticeInv
  BY NoticeStarts
<1>2. NoticeInv /\ [NoticeNext]_noticeVars => NoticeInv'
  BY NoticeStep
<1>3. NoticeInv => RootOnce
  <2> SUFFICES ASSUME NoticeInv, NEW c \in Chats, roots[c] > 1, c \notin doubt PROVE FALSE
    BY DEF RootOnce
  <2>1. roots[c] <= 1 /\ roots[c] \in 0..2
    BY DEF NoticeInv, NoticeTyped, Single
  <2> QED BY <2>1
<1> QED BY <1>1, <1>2, <1>3, PTL DEF NoticeSpec

-----------------------------------------------------------------------------
(* What the retry queue has taken.                                         *)

Fits == Len(pending) + Len(processing) <= MaxPending

(* What was claimed is still to do, or to come back, or done.              *)
BatchTold ==
  pass.on => \A role \in Roles, c \in Chats :
    In(processing, role, c) =>
      In(pass.left, role, c) \/ In(pass.back, role, c) \/ In(pass.lost, role, c) \/ Done(role, c)

KeptInv == NoticeInv /\ Fits /\ BatchTold

Keeps ==
  \A role \in Roles, c \in Chats : Held(role, c) => Held(role, c)' \/ Done(role, c)'
DoneStays == \A role \in Roles, c \in Chats : Done(role, c) => Done(role, c)'

LEMMA JoinedMembers ==
  ASSUME NEW S, NEW s \in Seq(S), NEW t \in Seq(S)
  PROVE  ToSet(s \o t) = ToSet(s) \cup ToSet(t)
<1> DEFINE u == s \o t
<1>1. /\ u \in Seq(S) /\ Len(u) = Len(s) + Len(t)
      /\ \A n \in 1..Len(s) : u[n] = s[n]
      /\ \A n \in 1..Len(t) : u[n + Len(s)] = t[n]
      /\ \A n \in (Len(s) + 1)..Len(u) : u[n] = t[n - Len(s)] /\ n - Len(s) \in 1..Len(t)
      /\ DOMAIN u = 1..Len(u) /\ DOMAIN s = 1..Len(s) /\ DOMAIN t = 1..Len(t)
  OBVIOUS
<1>2. Len(s) \in Nat /\ Len(t) \in Nat
  OBVIOUS
<1> HIDE DEF u
<1>3. ASSUME NEW n \in 1..Len(u) PROVE u[n] \in ToSet(s) \cup ToSet(t)
  <2>1. CASE n \in 1..Len(s)
    BY <1>1, <2>1 DEF ToSet
  <2>2. CASE n \in (Len(s) + 1)..Len(u)
    BY <1>1, <2>2 DEF ToSet
  <2> QED BY <1>1, <1>2, <2>1, <2>2
<1>4. ASSUME NEW n \in 1..Len(s) PROVE s[n] \in ToSet(u)
  <2>1. n \in 1..Len(u)
    BY <1>1, <1>2
  <2> QED BY <1>1, <2>1 DEF ToSet
<1>5. ASSUME NEW n \in 1..Len(t) PROVE t[n] \in ToSet(u)
  <2>1. n + Len(s) \in 1..Len(u)
    BY <1>1, <1>2
  <2> QED BY <1>1, <2>1 DEF ToSet
<1>6. ToSet(u) \subseteq ToSet(s) \cup ToSet(t)
  BY <1>1, <1>3 DEF ToSet
<1>7. ToSet(s) \subseteq ToSet(u) /\ ToSet(t) \subseteq ToSet(u)
  BY <1>1, <1>4, <1>5 DEF ToSet
<1> QED BY <1>6, <1>7 DEF u

LEMMA TailMembers ==
  ASSUME NEW S, NEW s \in Seq(S), s # <<>>
  PROVE  ToSet(s) = {Head(s)} \cup ToSet(Tail(s))
<1> DEFINE t == Tail(s)
<1>1. /\ t \in Seq(S) /\ Len(s) = Len(t) + 1 /\ Len(t) \in Nat /\ Head(s) = s[1]
      /\ \A n \in 1..Len(t) : t[n] = s[n + 1]
      /\ DOMAIN s = 1..Len(s) /\ DOMAIN t = 1..Len(t)
  OBVIOUS
<1> HIDE DEF t
<1>2. /\ 1 \in 1..Len(s)
      /\ \A n \in 1..Len(t) : n + 1 \in 1..Len(s)
      /\ \A n \in 1..Len(s) : n = 1 \/ (n - 1 \in 1..Len(t) /\ (n - 1) + 1 = n)
  BY <1>1
<1>3. ASSUME NEW n \in 1..Len(s), n # 1 PROVE s[n] \in ToSet(t)
  <2>1. n - 1 \in 1..Len(t) /\ s[n] = t[n - 1]
    BY <1>1, <1>2, <1>3
  <2> QED BY <1>1, <2>1 DEF ToSet
<1>4. ASSUME NEW n \in 1..Len(t) PROVE t[n] \in ToSet(s)
  BY <1>1, <1>2 DEF ToSet
<1>5. s[1] \in ToSet(s)
  BY <1>1, <1>2 DEF ToSet
<1>6. ToSet(s) \subseteq {s[1]} \cup ToSet(t)
  BY <1>1, <1>3 DEF ToSet
<1>7. ToSet(t) \subseteq ToSet(s)
  BY <1>1, <1>4 DEF ToSet
<1> QED BY <1>1, <1>5, <1>6, <1>7 DEF t

LEMMA InJoined ==
  ASSUME NEW s \in Seq(Items), NEW t \in Seq(Items), NEW role, NEW c
  PROVE  In(s \o t, role, c) <=> In(s, role, c) \/ In(t, role, c)
BY JoinedMembers DEF In

LEMMA InOne ==
  ASSUME NEW i, NEW role, NEW c
  PROVE  /\ ~In(<<>>, role, c)
         /\ In(<<i>>, role, c) <=> i.role = role /\ c \in i.chats
<1>1. ToSet(<<>>) = {} /\ ToSet(<<i>>) = {i}
  BY DEF ToSet
<1> QED BY <1>1 DEF In

LEMMA NewestFits ==
  ASSUME NEW s \in Seq(Items), NEW n \in Nat
  PROVE  /\ Len(Newest(s, n)) <= n
         /\ Len(Newest(s, n)) # n => Newest(s, n) = s
<1> DEFINE u == SubSeq(s, Len(s) - n + 1, Len(s))
<1>1. CASE Len(s) > n
  <2>1. Newest(s, n) = u
    BY <1>1 DEF Newest
  <2>2. Len(u) = n
    BY <1>1
  <2> HIDE DEF u
  <2> QED BY <2>1, <2>2
<1>2. CASE Len(s) <= n
  <2>1. Newest(s, n) = s
    BY <1>2 DEF Newest
  <2> QED BY <1>2, <2>1
<1> QED BY <1>1, <1>2

LEMMA QueueStays ==
  ASSUME KeptInv, DoneStays, UNCHANGED <<pending, processing, dead, pass>>
  PROVE  Fits' /\ BatchTold' /\ Keeps
<1>1. Fits'
  BY DEF KeptInv, Fits
<1>2. \A role, c : Held(role, c)' <=> Held(role, c)
  BY DEF Held, Waits
<1>3. Keeps
  BY <1>2 DEF Keeps
<1>4. BatchTold'
  <2> SUFFICES ASSUME pass.on, NEW role \in Roles, NEW c \in Chats, In(processing, role, c),
                      ~Done(role, c)'
               PROVE  In(pass.left, role, c) \/ In(pass.back, role, c) \/ In(pass.lost, role, c)
    BY DEF BatchTold
  <2>1. ~Done(role, c)
    BY DEF DoneStays
  <2> QED BY <2>1 DEF KeptInv, BatchTold
<1> QED BY <1>1, <1>3, <1>4

LEMMA QueueAdds ==
  ASSUME KeptInv, DoneStays, NEW items \in Seq(Items), Add(items), UNCHANGED <<processing, dead, pass>>
  PROVE  Fits' /\ BatchTold' /\ (Full' \/ Keeps)
<1> DEFINE n == MaxPending - Len(processing)
           all == pending \o items
<1>1. /\ pending \in Seq(Items) /\ processing \in Seq(Items) /\ MaxPending \in Nat
      /\ Len(pending) + Len(processing) <= MaxPending
  BY NotificationsAssumption DEF KeptInv, NoticeInv, NoticeTyped, Fits
<1>2. n \in Nat /\ Len(processing) \in Nat /\ n + Len(processing) = MaxPending
  BY <1>1
<1>3. pending' = Newest(all, n)
  BY DEF Add
<1>4. all \in Seq(Items)
  BY <1>1
<1> HIDE DEF n
<1>5. /\ pending' \in Seq(Items) /\ Len(pending') <= n
      /\ Len(pending') # n => pending' = all
  <2> HIDE DEF all
  <2>1. Newest(all, n) \in Seq(Items)
    BY <1>2, <1>4, NewestKeeps
  <2>2. Len(Newest(all, n)) <= n
    BY <1>2, <1>4, NewestFits
  <2>3. Len(Newest(all, n)) # n => Newest(all, n) = all
    BY <1>2, <1>4, NewestFits
  <2> QED BY <1>3, <2>1, <2>2, <2>3
<1>6. Len(pending') \in Nat
  BY <1>5
<1>7. Fits' /\ (Len(pending') = n => Full')
  BY <1>1, <1>2, <1>5, <1>6 DEF Fits, Full
<1>8. ASSUME pending' = all PROVE Keeps
  <2> SUFFICES ASSUME NEW role \in Roles, NEW c \in Chats, Held(role, c) PROVE Held(role, c)'
    BY DEF Keeps
  <2>1. CASE In(dead, role, c)
    BY <2>1 DEF Held
  <2>2. CASE Waits(role, c)
    <3>1. In(pending, role, c) \/ In(processing, role, c)
      BY <1>1, <2>2, InJoined DEF Waits
    <3>2. In(pending', role, c) \/ In(processing', role, c)
      <4>1. In(pending, role, c) => In(all, role, c)
        BY <1>1, InJoined
      <4> HIDE DEF all
      <4> QED BY <1>8, <3>1, <4>1
    <3>3. In(pending' \o processing', role, c)
      BY <1>1, <1>5, <3>2, InJoined
    <3> QED BY <3>3 DEF Held, Waits
  <2> QED BY <2>1, <2>2 DEF Held
<1>9. BatchTold'
  <2> SUFFICES ASSUME pass.on, NEW role \in Roles, NEW c \in Chats, In(processing, role, c),
                      ~Done(role, c)'
               PROVE  In(pass.left, role, c) \/ In(pass.back, role, c) \/ In(pass.lost, role, c)
    BY DEF BatchTold
  <2>1. ~Done(role, c)
    BY DEF DoneStays
  <2> QED BY <2>1 DEF KeptInv, BatchTold
<1> QED BY <1>5, <1>7, <1>8, <1>9

LEMMA ReachesDone ==
  ASSUME NoticeTyped, NEW role \in Messages, NEW reached, Reaches(role, reached), ids \subseteq ids'
  PROVE  DoneStays /\ \A c \in Chats \cap reached : Done(role, c)'
<1>1. roots \in [Chats -> 0..2]
  BY DEF NoticeTyped
<1>2. roots' = [c \in Chats |->
        IF role = "new" /\ c \in reached /\ roots[c] < 2 THEN roots[c] + 1 ELSE roots[c]]
  BY DEF Reaches
<1>3. \A c \in Chats : (roots[c] > 0 => roots'[c] > 0) /\ (role = "new" /\ c \in reached => roots'[c] > 0)
  BY <1>1, <1>2
<1>4. /\ edited \subseteq edited' /\ told \subseteq told'
      /\ role = "edit" => reached \subseteq edited'
      /\ role = "reply" => reached \subseteq told'
  BY DEF Reaches
<1>5. DoneStays
  BY <1>3, <1>4 DEF DoneStays, Done, Roles, Messages
<1>6. ASSUME NEW c \in Chats \cap reached PROVE Done(role, c)'
  BY <1>3, <1>4 DEF Done, Messages
<1> QED BY <1>5, <1>6

(* Steps that touch none of the three lists.                               *)
LEMMA WebsKeep ==
  ASSUME KeptInv, UNCHANGED <<pending, processing, dead, pass>>,
         \/ UNCHANGED <<ids, roots, edited, told>>
         \/ \E w \in Webs : Send(w)
  PROVE  Fits' /\ BatchTold' /\ Keeps
<1>1. CASE UNCHANGED <<ids, roots, edited, told>>
  <2>1. DoneStays
    BY <1>1 DEF DoneStays, Done, Roles, Messages
  <2> QED BY <2>1, QueueStays
<1>2. ASSUME NEW w \in Webs, Send(w) PROVE Fits' /\ BatchTold' /\ Keeps
  <2> DEFINE i == doing[w][1]
  <2>1. /\ NoticeTyped /\ HandsRight /\ Len(doing[w]) = 1 /\ ids' = ids
        /\ \E reached : Reaches(i.role, reached)
    BY <1>2 DEF KeptInv, NoticeInv, Send, database
  <2>2. i.role \in Messages
    <3>1. doing[w] \in Seq(Items) /\ InHand(doing[w])
      BY <2>1 DEF NoticeTyped, HandsRight
    <3>2. doing[w] # <<>>
      BY <2>1, <3>1, HandHolds
    <3> QED BY <2>1, <3>1, <3>2 DEF InHand
  <2> HIDE DEF i
  <2>3. DoneStays
    BY <2>1, <2>2, ReachesDone
  <2> QED BY <2>3, QueueStays
<1> QED BY <1>1, <1>2

LEMMA TakeKeeps ==
  ASSUME KeptInv, NEW w \in Webs, Take(w)
  PROVE  Fits' /\ BatchTold' /\ (Full' \/ Keeps)
<1> DEFINE role == Head(mailbox[w])
           chats == Targets(role)
           j == Item("new", chats, 1)
<1>1. /\ NoticeTyped /\ UNCHANGED <<ids, processing, dead, pass, roots, edited, told>>
      /\ UNCHANGED pending \/ Add(<<j>>)
  BY DEF KeptInv, NoticeInv, Take, telegram
<1>2. CASE UNCHANGED pending
  BY <1>1, <1>2, WebsKeep
<1>3. CASE Add(<<j>>)
  <2>1. chats \in SUBSET Chats
    BY <1>1 DEF NoticeTyped, Targets
  <2>2. j \in Items
    BY <2>1 DEF Items, Item, Roles, Messages
  <2>3. DoneStays
    BY <1>1 DEF DoneStays, Done, Roles, Messages
  <2> HIDE DEF j
  <2>4. <<j>> \in Seq(Items)
    BY <2>2
  <2> QED BY <1>1, <1>3, <2>3, <2>4, QueueAdds
<1> QED BY <1>1, <1>2, <1>3

LEMMA FinishKeeps ==
  ASSUME KeptInv, NEW w \in Webs, Finish(w)
  PROVE  Fits' /\ BatchTold' /\ (Full' \/ Keeps)
<1> DEFINE i == doing[w][1]
           persist == doing[w][2]
           again == doing[w][3]
           whole == Item(i.role, i.chats, 1)
<1>1. /\ NoticeTyped /\ Len(doing[w]) = 3 /\ ids \subseteq ids'
      /\ UNCHANGED <<processing, dead, pass, roots, edited, told>>
      /\ \/ Add(Whole(again)) \/ Add(Whole(persist) \o Whole(again)) \/ Add(<<whole>>)
         \/ UNCHANGED pending
  BY DEF KeptInv, NoticeInv, Finish, Stored, telegram
<1>2. i \in Items /\ persist \in Items /\ again \in Items
  <2>1. doing[w] \in Seq(Items)
    BY <1>1 DEF NoticeTyped
  <2> QED BY <1>1, <2>1, HandHolds
<1>3. whole \in Items
  BY <1>2 DEF Items, Item
<1>4. DoneStays
  BY <1>1 DEF DoneStays, Done, Roles, Messages
<1> HIDE DEF i, persist, again, whole
<1>5. Whole(again) \in Seq(Items) /\ Whole(persist) \in Seq(Items) /\ <<whole>> \in Seq(Items)
  BY <1>2, <1>3, WholeOnce
<1>6. Whole(persist) \o Whole(again) \in Seq(Items)
  BY <1>5
<1>7. CASE UNCHANGED pending
  BY <1>1, <1>4, <1>7, QueueStays
<1>8. ASSUME NEW items \in Seq(Items), Add(items) PROVE Fits' /\ BatchTold' /\ (Full' \/ Keeps)
  BY <1>1, <1>4, <1>8, QueueAdds
<1> QED BY <1>1, <1>5, <1>6, <1>7, <1>8

LEMMA PickedMembers ==
  ASSUME NEW s \in Seq(Items), NEW at \in SUBSET DOMAIN s,
         NEW t \in Picked(s, at), NEW u \in Picked(s, DOMAIN s \ at)
  PROVE  Len(t) + Len(u) = Len(s) /\ ToSet(s) \subseteq ToSet(t) \cup ToSet(u)
<1>1. DOMAIN s \ at \in SUBSET DOMAIN s /\ DOMAIN s = 1..Len(s) /\ Len(s) \in Nat
  OBVIOUS
<1>2. /\ t \in Seq(Items) /\ Len(t) = Cardinality(at)
      /\ u \in Seq(Items) /\ Len(u) = Cardinality(DOMAIN s \ at)
  BY <1>1, PickedFrom
<1>3. PICK f : Shows(f, t, s, at)
  BY PickedFrom
<1>4. PICK g : Shows(g, u, s, DOMAIN s \ at)
  BY <1>1, PickedFrom
<1>5. DOMAIN t = 1..Len(t) /\ DOMAIN u = 1..Len(u)
  BY <1>2
<1>6. ASSUME NEW k \in DOMAIN s PROVE s[k] \in ToSet(t) \cup ToSet(u)
  <2>1. CASE k \in at
    BY <1>3, <1>5, <2>1 DEF Shows, ToSet
  <2>2. CASE k \in DOMAIN s \ at
    BY <1>4, <1>5, <2>2 DEF Shows, ToSet
  <2> QED BY <1>6, <2>1, <2>2
<1>7. IsFiniteSet(DOMAIN s) /\ Cardinality(DOMAIN s) = Len(s)
  <2>1. IsFiniteSet(1..Len(s)) /\ Cardinality(1..Len(s)) = Len(s)
    <3>1. 1 \in Int /\ Len(s) \in Int
      BY <1>1
    <3>2. IsFiniteSet(1..Len(s)) /\ Cardinality(1..Len(s)) = IF 1 > Len(s) THEN 0 ELSE Len(s) - 1 + 1
      BY <3>1, FS_Interval
    <3> QED BY <1>1, <3>2
  <2> QED BY <1>1, <2>1
<1>8. Cardinality(at) + Cardinality(DOMAIN s \ at) = Len(s)
  <2> DEFINE D == DOMAIN s
  <2> HIDE DEF D
  <2>1. IsFiniteSet(D) /\ Cardinality(D) = Len(s) /\ at \in SUBSET D
    BY <1>7 DEF D
  <2>2. D \cap at = at
    BY <2>1
  <2>3. IsFiniteSet(at)
    BY <2>1, FS_Subset
  <2>4. Cardinality(at) \in Nat /\ Cardinality(D) \in Nat
    BY <2>1, <2>3, FS_CardinalityType
  <2>5. Cardinality(D \ at) = Cardinality(D) - Cardinality(D \cap at)
    BY <2>1, FS_Difference
  <2>6. Cardinality(at) + Cardinality(D \ at) = Len(s)
    <3>1. Cardinality(D \ at) = Cardinality(D) - Cardinality(at)
      BY <2>2, <2>5, Zenon
    <3>2. ASSUME NEW k \in Nat, NEW n \in Nat PROVE k + (n - k) = n
      OBVIOUS
    <3>3. Cardinality(at) + (Cardinality(D) - Cardinality(at)) = Cardinality(D)
      BY <2>4, <3>2
    <3> QED BY <2>1, <3>1, <3>3, Zenon
  <2> QED BY <2>6 DEF D
<1> QED BY <1>2, <1>6, <1>8 DEF ToSet

LEMMA ClaimKeeps ==
  ASSUME KeptInv, Claim
  PROVE  Fits' /\ BatchTold' /\ Keeps
<1>1. /\ NoticeTyped /\ ~pass.on
      /\ pass' = [Idle EXCEPT !.on = TRUE, !.left = pass'.left]
      /\ \/ /\ pass'.left = processing
            /\ UNCHANGED <<pending, processing>>
         \/ /\ processing = <<>> /\ pass'.left = processing'
            /\ \E due \in SUBSET DOMAIN pending :
                 /\ processing' \in Picked(pending, due)
                 /\ pending' \in Picked(pending, DOMAIN pending \ due)
      /\ UNCHANGED <<ids, roots, edited, told, dead>>
  BY DEF KeptInv, NoticeInv, Claim, database, telegram, Idle
<1>2. pending \in Seq(Items) /\ processing \in Seq(Items) /\ Len(<<>>) = 0 /\ ToSet(<<>>) = {}
  BY <1>1 DEF NoticeTyped, ToSet
<1>3. /\ Len(pending') + Len(processing') = Len(pending) + Len(processing)
      /\ ToSet(pending) \cup ToSet(processing) \subseteq ToSet(pending') \cup ToSet(processing')
      /\ pending' \in Seq(Items) /\ processing' \in Seq(Items)
  <2>1. CASE UNCHANGED <<pending, processing>>
    BY <1>2, <2>1
  <2>2. ASSUME processing = <<>>, NEW due \in SUBSET DOMAIN pending,
               processing' \in Picked(pending, due),
               pending' \in Picked(pending, DOMAIN pending \ due)
        PROVE  /\ Len(pending') + Len(processing') = Len(pending) + Len(processing)
               /\ ToSet(pending) \cup ToSet(processing) \subseteq ToSet(pending') \cup ToSet(processing')
               /\ pending' \in Seq(Items) /\ processing' \in Seq(Items)
    <3>1. /\ Len(processing') + Len(pending') = Len(pending)
          /\ ToSet(pending) \subseteq ToSet(processing') \cup ToSet(pending')
      BY <1>2, <2>2, PickedMembers
    <3>2. pending' \in Seq(Items) /\ processing' \in Seq(Items)
      BY <1>2, <2>2, PickedOnce
    <3> QED BY <1>2, <2>2, <3>1, <3>2
  <2> QED BY <1>1, <2>1, <2>2
<1>4. Fits'
  BY <1>3 DEF KeptInv, Fits
<1>5. BatchTold'
  BY <1>1 DEF BatchTold
<1>6. Keeps
  <2> SUFFICES ASSUME NEW role \in Roles, NEW c \in Chats, Held(role, c) PROVE Held(role, c)'
    BY DEF Keeps
  <2>1. CASE In(dead, role, c)
    BY <1>1, <2>1 DEF Held
  <2>2. CASE Waits(role, c)
    <3>1. In(pending, role, c) \/ In(processing, role, c)
      BY <1>2, <2>2, InJoined DEF Waits
    <3>2. In(pending', role, c) \/ In(processing', role, c)
      BY <1>3, <3>1 DEF In
    <3>3. In(pending' \o processing', role, c)
      BY <1>3, <3>2, InJoined
    <3> QED BY <3>3 DEF Held, Waits
  <2> QED BY <2>1, <2>2 DEF Held
<1> QED BY <1>4, <1>5, <1>6

(* An item of the batch that was done, or failed for some chats.           *)
LEMMA WorkKeeps ==
  ASSUME KeptInv, pass.on, pass.left # <<>>, UNCHANGED <<pending, processing, dead>>, DoneStays,
         NEW failed \in SUBSET Chats, NEW follow \in Seq(Items), After(failed, follow),
         NEW chats, chats = Head(pass.left).chats, NEW sort, sort = Head(pass.left).role,
         \A c \in chats \ failed : Done(sort, c)'
  PROVE  Fits' /\ BatchTold' /\ Keeps
<1> DEFINE h == Head(pass.left)
           x == Left(failed)
           b == pass.back \o follow
<1>1. /\ x \in Items /\ x.role = h.role /\ x.chats = failed
      /\ pass'.on = pass.on /\ pass'.left = Tail(pass.left)
      /\ \/ failed = {} /\ pass'.back = b /\ pass'.lost = pass.lost
         \/ pass'.back = b \o <<x>> /\ pass'.lost = pass.lost
         \/ pass'.back = b /\ pass'.lost = pass.lost \o <<x>>
  BY AfterOne DEF KeptInv, NoticeInv
<1>2. pass.left \in Seq(Items) /\ pass.back \in Seq(Items) /\ pass.lost \in Seq(Items)
  BY DEF KeptInv, NoticeInv, NoticeTyped
<1>3. \A role, c : In(pass.left, role, c) <=> (h.role = role /\ c \in h.chats) \/ In(Tail(pass.left), role, c)
  <2>1. ToSet(pass.left) = {h} \cup ToSet(Tail(pass.left))
    BY <1>2, TailMembers
  <2> HIDE DEF h
  <2> QED BY <2>1 DEF In
<1>4. b \in Seq(Items) /\ \A role, c : In(pass.back, role, c) => In(b, role, c)
  BY <1>2, InJoined
<1> HIDE DEF h, x, b
<1>5. <<x>> \in Seq(Items) /\ \A role, c : In(<<x>>, role, c) <=> x.role = role /\ c \in x.chats
  BY <1>1, InOne
<1>6. \A role, c : /\ In(pass.back, role, c) => In(pass'.back, role, c)
                   /\ In(pass.lost, role, c) => In(pass'.lost, role, c)
                   /\ c \in failed /\ h.role = role => In(pass'.back, role, c) \/ In(pass'.lost, role, c)
  <2> TAKE role, c
  <2>1. /\ In(b \o <<x>>, role, c) <=> In(b, role, c) \/ In(<<x>>, role, c)
        /\ In(pass.lost \o <<x>>, role, c) <=> In(pass.lost, role, c) \/ In(<<x>>, role, c)
    BY <1>2, <1>4, <1>5, InJoined
  <2>2. /\ In(pass.back, role, c) => In(b, role, c)
        /\ c \in failed /\ h.role = role => In(<<x>>, role, c)
    BY <1>1, <1>4, <1>5
  <2>3. CASE failed = {} /\ pass'.back = b /\ pass'.lost = pass.lost
    BY <2>2, <2>3
  <2>4. CASE pass'.back = b \o <<x>> /\ pass'.lost = pass.lost
    BY <2>1, <2>2, <2>4
  <2>5. CASE pass'.back = b /\ pass'.lost = pass.lost \o <<x>>
    BY <2>1, <2>2, <2>5
  <2> QED BY <1>1, <2>3, <2>4, <2>5
<1>7. BatchTold'
  <2> SUFFICES ASSUME NEW role \in Roles, NEW c \in Chats, In(processing, role, c), ~Done(role, c)'
               PROVE  In(pass'.left, role, c) \/ In(pass'.back, role, c) \/ In(pass'.lost, role, c)
    BY DEF BatchTold
  <2>1. ~Done(role, c)
    BY DEF DoneStays
  <2>2. In(pass.left, role, c) \/ In(pass.back, role, c) \/ In(pass.lost, role, c)
    BY <2>1 DEF KeptInv, BatchTold
  <2>3. CASE h.role = role /\ c \in h.chats
    <3>1. c \in failed
      <4>1. sort = role /\ c \in chats
        BY <2>3 DEF h
      <4> QED BY <4>1
    <3> QED BY <1>6, <2>3, <3>1
  <2> QED BY <1>1, <1>3, <1>6, <2>2, <2>3
<1>8. \A role, c : Held(role, c)' <=> Held(role, c)
  BY DEF Held, Waits
<1>9. Fits' /\ Keeps
  BY <1>8 DEF KeptInv, Fits, Keeps
<1> QED BY <1>7, <1>9

LEMMA WorkPersistKeeps ==
  ASSUME KeptInv, WorkPersist
  PROVE  Fits' /\ BatchTold' /\ Keeps
<1> DEFINE i == Head(pass.left)
<1>1. /\ NoticeTyped /\ pass.on /\ pass.left # <<>> /\ i.role = "persist"
      /\ \/ ids' = ids \cup i.chats /\ After({}, <<>>)
         \/ UNCHANGED ids /\ After(i.chats, <<>>)
      /\ UNCHANGED <<pending, processing, dead, roots, edited, told>>
  BY DEF KeptInv, NoticeInv, WorkPersist, Stored, telegram
<1>2. i.chats \in SUBSET Chats
  <2>1. pass.left \in Seq(Items)
    BY <1>1 DEF NoticeTyped
  <2>2. i \in Items
    BY <1>1, <2>1, TailOnce
  <2> QED BY <2>2 DEF Items
<1>3. DoneStays
  BY <1>1 DEF DoneStays, Done, Roles, Messages
<1>4. <<>> \in Seq(Items)
  OBVIOUS
<1>5. CASE ids' = ids \cup i.chats /\ After({}, <<>>)
  <2>1. PICK chats : chats = i.chats
    OBVIOUS
  <2>2. \A c \in chats \ {} : Done("persist", c)'
    BY <1>5, <2>1 DEF Done
  <2>3. {} \in SUBSET Chats
    OBVIOUS
  <2> QED BY <1>1, <1>3, <1>4, <1>5, <2>1, <2>2, <2>3, WorkKeeps
<1>6. CASE After(i.chats, <<>>)
  <2>1. PICK chats : chats = i.chats
    OBVIOUS
  <2>2. \A c \in chats \ chats : Done("persist", c)'
    OBVIOUS
  <2> QED BY <1>1, <1>2, <1>3, <1>4, <1>6, <2>1, <2>2, WorkKeeps
<1> QED BY <1>1, <1>5, <1>6

LEMMA WorkSendKeeps ==
  ASSUME KeptInv, WorkSend
  PROVE  Fits' /\ BatchTold' /\ Keeps
<1> DEFINE i == Head(pass.left)
           sent(o) == IF i.role = "new" THEN o.answered ELSE {}
<1>1. PICK o \in Outcomes(i.role, i.chats) :
        /\ Reaches(i.role, o.answered \cup o.silent)
        /\ \/ ids' = ids \cup sent(o) /\ After(i.chats \ o.answered, <<>>)
           \/ UNCHANGED ids /\ After(i.chats \ o.answered, <<Item("persist", sent(o), 0)>>)
  BY DEF WorkSend, Stored
<1>2. /\ NoticeTyped /\ pass.on /\ pass.left # <<>> /\ i.role # "persist"
      /\ UNCHANGED <<pending, processing, dead>>
  BY DEF KeptInv, NoticeInv, WorkSend
<1>3. i.role \in Messages /\ i.chats \in SUBSET Chats
  <2>1. pass.left \in Seq(Items)
    BY <1>2 DEF NoticeTyped
  <2>2. i \in Items
    BY <1>2, <2>1, TailOnce
  <2> QED BY <1>2, <2>2 DEF Items, Roles
<1>4. o.answered \in SUBSET i.chats
  BY DEF Outcomes
<1> DEFINE failed == i.chats \ o.answered
           persist == Item("persist", sent(o), 0)
<1>5. persist \in Items /\ failed \in SUBSET Chats
  BY <1>3, <1>4 DEF Items, Item, Roles
<1>6. ids \subseteq ids'
  BY <1>1
<1>7. PICK role : role = i.role
  OBVIOUS
<1>8. PICK chats : chats = i.chats
  OBVIOUS
<1>9. DoneStays /\ \A c \in Chats \cap (o.answered \cup o.silent) : Done(role, c)'
  BY <1>1, <1>2, <1>3, <1>6, <1>7, ReachesDone
<1>10. \A c \in chats \ failed : Done(role, c)'
  BY <1>3, <1>4, <1>9, <1>8
<1> HIDE DEF sent, failed, persist
<1>11. After(failed, <<>>) \/ After(failed, <<persist>>)
  BY <1>1 DEF failed, persist
<1>12. <<>> \in Seq(Items) /\ <<persist>> \in Seq(Items)
  BY <1>5
<1> QED BY <1>2, <1>5, <1>7, <1>8, <1>9, <1>10, <1>11, <1>12, WorkKeeps

LEMMA CompleteKeeps ==
  ASSUME KeptInv, Complete
  PROVE  Fits' /\ BatchTold' /\ (Full' \/ Keeps)
<1> DEFINE all == pass.back \o pending
<1>1. /\ NoticeTyped /\ pass.on /\ pass.left = <<>>
      /\ pending' = Newest(all, MaxPending)
      /\ dead' = dead \o pass.lost /\ processing' = <<>> /\ pass' = Idle
      /\ UNCHANGED <<ids, roots, edited, told>>
  BY DEF KeptInv, NoticeInv, Complete, database, telegram
<1>2. /\ pending \in Seq(Items) /\ processing \in Seq(Items) /\ pass.back \in Seq(Items)
      /\ pass.lost \in Seq(Items) /\ dead \in Seq(Items) /\ MaxPending \in Nat
  BY <1>1, NotificationsAssumption DEF NoticeTyped
<1>3. all \in Seq(Items)
  BY <1>2
<1>4. /\ pending' \in Seq(Items) /\ Len(pending') <= MaxPending
      /\ Len(pending') # MaxPending => pending' = all
  <2> HIDE DEF all
  <2>1. MaxPending \in Int
    BY <1>2
  <2>2. Newest(all, MaxPending) \in Seq(Items)
    BY <1>3, <2>1, NewestKeeps
  <2> QED BY <1>1, <1>2, <1>3, <2>2, NewestFits
<1>5. Len(processing') = 0 /\ Len(pending') \in Nat
  BY <1>1, <1>4
<1>6. Fits' /\ (Len(pending') = MaxPending => Full')
  BY <1>2, <1>4, <1>5 DEF Fits, Full
<1>7. BatchTold'
  BY <1>1 DEF BatchTold, Idle
<1>8. ASSUME pending' = all PROVE Keeps
  <2> SUFFICES ASSUME NEW role \in Roles, NEW c \in Chats, Held(role, c)
               PROVE  Held(role, c)' \/ Done(role, c)'
    BY DEF Keeps
  <2>1. Done(role, c) => Done(role, c)'
    BY <1>1 DEF Done
  <2>2. /\ In(dead', role, c) <=> In(dead, role, c) \/ In(pass.lost, role, c)
        /\ In(pending', role, c) <=> In(pass.back, role, c) \/ In(pending, role, c)
    BY <1>1, <1>2, <1>8, InJoined
  <2>3. In(pending', role, c) => In(pending' \o processing', role, c)
    <3>1. processing' \in Seq(Items)
      BY <1>1
    <3> QED BY <1>4, <3>1, InJoined
  <2>4. CASE In(dead, role, c) \/ In(pending, role, c)
    BY <2>2, <2>3, <2>4 DEF Held, Waits
  <2>5. CASE In(processing, role, c)
    <3>1. In(pass.back, role, c) \/ In(pass.lost, role, c) \/ Done(role, c)
      BY <1>1, <2>5, InOne DEF KeptInv, BatchTold
    <3> QED BY <2>1, <2>2, <2>3, <3>1 DEF Held, Waits
  <2>6. In(dead, role, c) \/ In(pending, role, c) \/ In(processing, role, c)
    BY <1>2, InJoined DEF Held, Waits
  <2> QED BY <2>4, <2>5, <2>6
<1> QED BY <1>4, <1>6, <1>7, <1>8

LEMMA StopsKeep ==
  ASSUME KeptInv, CrashRetry \/ Clear
  PROVE  Fits' /\ BatchTold' /\ (Clear \/ Keeps)
<1>1. ~pass'.on
  BY DEF CrashRetry, Clear, Idle
<1>2. BatchTold'
  BY <1>1 DEF BatchTold
<1>3. CASE CrashRetry
  <2>1. UNCHANGED <<pending, processing, dead>>
    BY <1>3 DEF CrashRetry
  <2>2. \A role, c : Held(role, c)' <=> Held(role, c)
    BY <2>1 DEF Held, Waits
  <2> QED BY <1>2, <2>1, <2>2 DEF KeptInv, Fits, Keeps
<1>4. CASE Clear
  <2>1. Len(pending') + Len(processing') = 0 /\ MaxPending \in Nat
    BY <1>4, NotificationsAssumption DEF Clear
  <2> QED BY <1>2, <1>4, <2>1 DEF Fits
<1> QED BY <1>3, <1>4

LEMMA KeptStep ==
  ASSUME KeptInv, [NoticeNext]_noticeVars
  PROVE  KeptInv' /\ (Clear \/ Full' \/ Keeps)
<1>1. NoticeInv'
  BY NoticeStep DEF KeptInv
<1>2. CASE (\E s \in {"READY", "CANCELED"} : SaveOrder(s)) \/ (\E chats \in Routings : Reroute(chats))
  BY <1>1, <1>2, WebsKeep DEF KeptInv, SaveOrder, Reroute, redis, telegram
<1>3. ASSUME NEW w \in Webs, Dispatch(w) \/ Send(w) \/ CrashWeb(w)
      PROVE  KeptInv' /\ Keeps
  BY <1>1, <1>3, WebsKeep DEF KeptInv, Dispatch, Send, CrashWeb, database, redis, telegram
<1>4. ASSUME NEW w \in Webs, Take(w) \/ Finish(w)
      PROVE  KeptInv' /\ (Full' \/ Keeps)
  BY <1>1, <1>4, TakeKeeps, FinishKeeps DEF KeptInv
<1>5. CASE Claim \/ WorkPersist \/ WorkSend \/ Complete
  BY <1>1, <1>5, ClaimKeeps, WorkPersistKeeps, WorkSendKeeps, CompleteKeeps DEF KeptInv
<1>6. CASE CrashRetry \/ Clear
  BY <1>1, <1>6, StopsKeep DEF KeptInv
<1>7. CASE UNCHANGED noticeVars
  BY <1>1, <1>7, WebsKeep DEF KeptInv, noticeVars, database, redis, telegram
<1> QED BY <1>2, <1>3, <1>4, <1>5, <1>6, <1>7 DEF NoticeNext

(* A step of nobody but an operator, or one that fills the queue, takes    *)
(* out of the retry queue what was not delivered (_claim_batch).           *)
THEOREM NothingDropped == NoticeSpec => KeptUntilDone
<1>1. NoticeInit => KeptInv
  <2>1. ASSUME NoticeInit PROVE Fits /\ BatchTold
    <3>1. MaxPending \in Nat
      BY NotificationsAssumption
    <3> QED BY <2>1, <3>1 DEF NoticeInit, Fits, BatchTold, Idle
  <2> QED BY <2>1, NoticeStarts DEF KeptInv
<1>2. KeptInv /\ [NoticeNext]_noticeVars => KeptInv'
  BY KeptStep
<1>3. KeptInv /\ [NoticeNext]_noticeVars =>
        [Clear \/ Full' \/
           \A role \in {"new", "edit", "reply", "persist"}, c \in Chats :
             Held(role, c) => Held(role, c)' \/ Done(role, c)']_noticeVars
  BY KeptStep DEF Keeps, Roles, Messages
<1> QED BY <1>1, <1>2, <1>3, PTL DEF NoticeSpec, KeptUntilDone
=============================================================================
