----------------------------- MODULE PullReplay -----------------------------
(***************************************************************************)
(* The position of a branch in the hub's feed: the cursor, the generation  *)
(* that may publish it, the lease of the running pull, requests for a full *)
(* replay, and the clean-up of rows that are not the branch's own.         *)
(*                                                                         *)
(* The feed is the sequence of the branch's own rows 1..Top, a page of it  *)
(* is one row, and a row may refer to a parent that comes later.  Strays   *)
(* are rows an older build stored that the feed never names.  A run is     *)
(* started by the sync worker or by hand; its lease may expire while it    *)
(* still works, and it may die at any step.                                *)
(***************************************************************************)
EXTENDS Integers, FiniteSets

CONSTANTS
  Runs,       \* pulls that may run at the same time
  Top,        \* rows the hub publishes
  Strays,     \* stored rows that the feed does not name
  Parent,     \* Parent[r]: the row r refers to, or 0
  MaxPages,   \* MAX_PAGES
  MaxAsked,   \* bound: full replays asked for
  MaxMishaps   \* bound: lost calls, failed rows, deaths, early expiries

Feed == 1..Top
Records == Feed \cup Strays

ASSUME PullReplayAssumption ==
  /\ {Top, MaxPages} \subseteq Nat \ {0} /\ {MaxAsked, MaxMishaps} \subseteq Nat
  /\ Strays \cap Feed = {} /\ Parent \in [Records -> Records \cup {0}]

VARIABLES
  published,  \* rows of the feed the hub has published
  cursor,     \* last_pull: the row up to which the feed was applied, 0 when blank
  generation, \* sync_pull_request_generation
  completed,  \* sync_full_pull_completed_generation
  scoped, contracted, \* the epochs of this build are recorded
  lease,      \* the holder of sync_lock_pull, and whether it has expired
  run,        \* run[p]
  stored,     \* stored[r]: absent, live, or quarantined
  branch,     \* branch[r]: the branch_id of a stored row
  asked, mishaps,
  replayed,   \* ghost: rows applied since the generation was last rotated
  goal        \* ghost: rows published when it was

replayVars == <<published, cursor, generation, completed, scoped, contracted, lease, run,
                stored, branch, asked, mishaps, replayed, goal>>
position == <<cursor, generation, completed, replayed, goal>>
rowsHere == <<stored, branch>>
counters == <<asked, mishaps>>

Nobody == "none"
Ghost == "ghost"  \* the token of a run that died
IdleRun == [step |-> "idle", generation |-> 0, from |-> 0, at |-> 0, pages |-> 0,
            drained |-> FALSE, deferred |-> {}]

(* A row's parent exists at the hub as long as the row does, whichever of  *)
(* them was changed last.                                                  *)
Whole(n) == \A r \in 1..n : Parent[r] <= n

(* The row's parent is here.                                               *)
Lands(r) == Parent[r] # 0 => stored[Parent[r]] = "live"

(* An older build has left rows of any branch, and a cursor ahead of rows  *)
(* its feed never named.                                                   *)
ReplayInit ==
  /\ published \in 1..Top /\ Whole(published) /\ cursor \in 0..published /\ generation = 0 /\ completed = 0
  /\ scoped = FALSE /\ contracted = FALSE
  /\ lease = [holder |-> Nobody, expired |-> FALSE]
  /\ run = [p \in Runs |-> IdleRun]
  /\ branch \in [Records -> {"own", "other", "blank"}]
  /\ \A r \in Strays : branch[r] # "own"
  /\ stored \in [Records -> {"absent", "live"}]
  /\ \A r \in Records : /\ stored[r] = "absent" => branch[r] = "own"
                        /\ stored[r] = "live" => Lands(r)
                        /\ r \in Feed \ 1..published => stored[r] = "absent"
  /\ asked = 0 /\ mishaps = 0
  /\ replayed = 1..cursor /\ goal = 0

Fault == mishaps < MaxMishaps /\ mishaps' = mishaps + 1
Goes(p, step) == run' = [run EXCEPT ![p].step = step]

-----------------------------------------------------------------------------
(* Rewinding.                                                              *)

(* Mutant: the cursor is left where it was.                                *)
RewindKeepsCursor ==
  /\ generation' = generation + 1 /\ completed' = 0
  /\ replayed' = {} /\ goal' = published
  /\ UNCHANGED cursor

(* _rewind_pull_locked: a new generation, a blank cursor, no completion.   *)
Rewind ==
  /\ generation' = generation + 1 /\ completed' = 0 /\ cursor' = 0
  /\ replayed' = {} /\ goal' = published

RequestFullPull ==
  /\ asked < MaxAsked /\ asked' = asked + 1
  /\ Rewind
  /\ UNCHANGED <<published, scoped, contracted, lease, run, rowsHere, mishaps>>

(* A row takes the branch its parent names; a blank one without a parent   *)
(* of another branch becomes the branch's own.                             *)
ParentBranch(r) == IF Parent[r] = 0 \/ stored[Parent[r]] = "absent" THEN "blank" ELSE branch[Parent[r]]
Resolved(r) ==
  IF ParentBranch(r) # "blank" THEN ParentBranch(r)
  ELSE IF branch[r] = "blank" THEN "own" ELSE branch[r]

Foreign(r) == stored[r] = "live" /\ Resolved(r) # "own"

(* ensure_scope_epoch: repair, adopt, quarantine what is another branch's, *)
(* and replay.                                                             *)
EnsureScope(p) ==
  /\ run[p].step = "idle"
  /\ Goes(p, "contract")
  /\ IF scoped
       THEN UNCHANGED <<position, rowsHere, scoped>>
       ELSE /\ scoped' = TRUE
            /\ Rewind
            /\ branch' = [r \in Records |-> IF stored[r] = "live" THEN Resolved(r) ELSE branch[r]]
            /\ stored' = [r \in Records |-> IF Foreign(r) THEN "quarantined" ELSE stored[r]]
  /\ UNCHANGED <<published, contracted, lease, counters>>

EnsureContract(p) ==
  /\ run[p].step = "contract"
  /\ Goes(p, "acquire")
  /\ contracted' = TRUE
  /\ IF contracted THEN UNCHANGED position ELSE Rewind
  /\ UNCHANGED <<published, scoped, lease, rowsHere, counters>>

-----------------------------------------------------------------------------
(* The lease.                                                              *)

Owns(p) == lease.holder = p

Acquire(p) ==
  /\ run[p].step = "acquire"
  /\ IF lease.holder = Nobody \/ lease.expired
       THEN lease' = [holder |-> p, expired |-> FALSE] /\ Goes(p, "checkpoint")
       ELSE UNCHANGED lease /\ run' = [run EXCEPT ![p] = IdleRun]
  /\ UNCHANGED <<published, position, scoped, contracted, rowsHere, counters>>

(* Only the owner's renewal counts; it revives an expired lease that       *)
(* nobody has taken.                                                       *)
Renewed == lease' = [lease EXCEPT !.expired = FALSE]

Release(p) ==
  /\ lease' = IF Owns(p) THEN [holder |-> Nobody, expired |-> FALSE] ELSE lease
  /\ run' = [run EXCEPT ![p] = IdleRun]

(* The lease of a dead run ends in time; that of a slow one may, too.      *)
Expire ==
  /\ lease.holder # Nobody /\ ~lease.expired
  /\ lease' = [lease EXCEPT !.expired = TRUE]
  /\ IF lease.holder = Ghost THEN UNCHANGED mishaps ELSE Fault
  /\ UNCHANGED <<published, position, scoped, contracted, run, rowsHere, asked>>

-----------------------------------------------------------------------------
(* A pull.                                                                 *)

Checkpoint(p) ==
  /\ run[p].step = "checkpoint"
  /\ run' = [run EXCEPT ![p] = [step |-> "fetch", generation |-> generation, from |-> cursor,
                                at |-> cursor, pages |-> 0, drained |-> FALSE, deferred |-> {}]]
  /\ UNCHANGED <<published, position, scoped, contracted, lease, rowsHere, counters>>

HasMore(p) == run[p].at + 1 < published

(* restore_quarantined_target and from_sync_dict in one transaction; a row *)
(* whose parent is missing is rolled back and stays quarantined.           *)
Land(rows) ==
  /\ stored' = [r \in Records |-> IF r \in rows THEN "live" ELSE stored[r]]
  /\ branch' = [r \in Records |-> IF r \in rows THEN "own" ELSE branch[r]]
  /\ replayed' = replayed \cup rows

(* The page is fetched and its row applied or deferred; the position moves *)
(* on in memory only.                                                      *)
Page(p, fails) ==
  LET r == run[p].at + 1
      more == HasMore(p)
      applied == IF r <= published /\ Lands(r) /\ ~fails THEN {r} ELSE {}
      put == IF r <= published THEN {r} \ applied ELSE {}
      pages == run[p].pages + 1
  IN /\ run[p].step = "fetch" /\ Owns(p)
     /\ Renewed
     /\ Land(applied)
     /\ run' = [run EXCEPT ![p] =
           [step |-> IF more /\ pages < MaxPages THEN "fetch" ELSE "retry",
            generation |-> @.generation, from |-> @.from,
            at |-> IF r <= published THEN r ELSE @.at, pages |-> pages,
            drained |-> ~more, deferred |-> @.deferred \cup put]]

Fetch(p) ==
  /\ Page(p, FALSE)
  /\ UNCHANGED <<published, cursor, generation, completed, goal, scoped, contracted, counters>>

(* The row could not be written this time.                                 *)
FetchAndFail(p) ==
  /\ Fault /\ Page(p, TRUE)
  /\ UNCHANGED <<published, cursor, generation, completed, goal, scoped, contracted, asked>>

(* The hub cannot be reached, or its page is not understood: give up.      *)
GiveUp(p) ==
  /\ run[p].step \in {"checkpoint", "fetch"}
  /\ Fault /\ Release(p)
  /\ UNCHANGED <<published, position, scoped, contracted, rowsHere, asked>>

(* The lease is another run's by now: nothing more is fetched or published.*)
LoseLease(p) ==
  /\ run[p].step \in {"fetch", "renew"} /\ ~Owns(p)
  /\ IF run[p].step = "fetch" THEN Goes(p, "retry") /\ UNCHANGED lease ELSE Release(p)
  /\ UNCHANGED <<published, position, scoped, contracted, rowsHere, counters>>

(* What was deferred is tried again; while anything is left the cursor     *)
(* stays where it was.                                                     *)
Retry(p) ==
  LET late == {r \in run[p].deferred : Lands(r)} IN
  /\ run[p].step = "retry"
  /\ Land(late)
  /\ IF late = run[p].deferred
       THEN Goes(p, "renew") /\ UNCHANGED lease
       ELSE Release(p)
  /\ UNCHANGED <<published, cursor, generation, completed, goal, scoped, contracted, counters>>

RenewToPublish(p) ==
  /\ run[p].step = "renew" /\ Owns(p)
  /\ Renewed /\ Goes(p, "publish")
  /\ UNCHANGED <<published, position, scoped, contracted, rowsHere, counters>>

(* Mutant: the cursor is published whatever was requested in the meantime. *)
CurrentAlways(p) == TRUE

(* No newer replay was requested while this pull ran.                      *)
Current(p) == run[p].generation = generation

(* publish_pull_cursor, and the lease is given back.                       *)
Publish(p) ==
  /\ run[p].step = "publish"
  /\ IF Current(p)
       THEN /\ cursor' = run[p].at
            /\ completed' = IF run[p].drained /\ run[p].from = 0 THEN generation ELSE completed
       ELSE UNCHANGED <<cursor, completed>>
  /\ Release(p)
  /\ UNCHANGED <<published, generation, replayed, goal, scoped, contracted, rowsHere, counters>>

Die(p) ==
  /\ run[p].step # "idle"
  /\ Fault
  /\ run' = [run EXCEPT ![p] = IdleRun]
  /\ lease' = IF Owns(p) THEN [lease EXCEPT !.holder = Ghost] ELSE lease
  /\ UNCHANGED <<published, position, scoped, contracted, rowsHere, asked>>

HubPublishes ==
  /\ \E n \in Feed : n > published /\ Whole(n) /\ published' = n
  /\ UNCHANGED <<position, scoped, contracted, lease, run, rowsHere, counters>>

-----------------------------------------------------------------------------
Works(p) == \/ EnsureScope(p) \/ EnsureContract(p) \/ Acquire(p) \/ Checkpoint(p) \/ Fetch(p)
            \/ LoseLease(p) \/ Retry(p) \/ RenewToPublish(p) \/ Publish(p)

ReplayNext == \/ HubPublishes \/ RequestFullPull \/ Expire
              \/ \E p \in Runs : Works(p) \/ FetchAndFail(p) \/ GiveUp(p) \/ Die(p)

ReplaySpec == ReplayInit /\ [][ReplayNext]_replayVars

-----------------------------------------------------------------------------
(* Properties.                                                             *)

Pending == generation > 0 /\ completed # generation

(* The published cursor is the truth: every row of the feed up to it was   *)
(* applied since the replay was last asked for, and a replay is reported   *)
(* complete only when all that was published when it was asked for has     *)
(* been applied again, whatever older pulls were still under way.          *)
CursorIsApplied ==
  /\ 1..cursor \subseteq replayed
  /\ generation > 0 /\ ~Pending => 1..goal \subseteq replayed

(* A row of the branch that the clean-up has quarantined for a wrong or    *)
(* missing branch is restored by the replay it asks for.                   *)
Recovers == \A r \in Feed : stored[r] = "quarantined" ~> stored[r] = "live"

=============================================================================
