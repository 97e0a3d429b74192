----------------------------- MODULE MCInstall -----------------------------
(* What one installation keeps for itself: its licence and its position in *)
(* the hub's feed.  A behaviour exercises one of the two.                  *)
EXTENDS Licensing, PullReplay

(* The row that is first in the feed refers to the second one.             *)
ParentOfFirst == [r \in Records |-> IF r = 1 THEN 2 ELSE 0]

VARIABLE part

(* With the licence, the position is that of one initial state.            *)
MCInit ==
  /\ LicenseInit /\ ReplayInit /\ part \in {"licence", "replay"}
  /\ part = "licence" => /\ published = Top /\ cursor = 0
                         /\ \A r \in Feed : stored[r] = "absent"
                         /\ \A r \in Strays : branch[r] = "other"

MCNext ==
  \/ part = "licence" /\ LicenseNext /\ UNCHANGED <<replayVars, part>>
  \/ part = "replay" /\ ReplayNext /\ UNCHANGED <<licenseVars, part>>

MCSpec == MCInit /\ [][MCNext]_<<licenseVars, replayVars, part>>

(* The sync worker pulls again and again, and a dead run's lease ends.     *)
Pulls(A) == part = "replay" /\ A /\ UNCHANGED <<licenseVars, part>>

MCFairSpec ==
  /\ MCSpec
  /\ WF_<<replayVars, part>>(Pulls(Expire))
  /\ \A p \in Runs : WF_<<replayVars, part>>(Pulls(Works(p)))
=============================================================================
