---------------------------- MODULE MCDeliveries ----------------------------
(* What is delivered late, in parts and more than once: the close of a     *)
(* shift to the hub, and the messages of an order to two chats, which is   *)
(* canceled or of which the routing loses one.  A behaviour exercises one  *)
(* of the two.                                                             *)
EXTENDS ShiftSettlement, Notifications

CONSTANTS o1, x1, a, b

(* An order in cash of two, an expense of one.                             *)
Price == [i \in Orders \cup Expenses |-> IF i = o1 THEN 2 ELSE 1]
Tender == [o \in Orders |-> "CASH"]

Both == {a, b}
Without == {{a}}

VARIABLE part

mcvars == <<vars, noticeVars, part>>

MCInit == Init /\ NoticeInit /\ part \in {"close", "notices"}

MCNext ==
  \/ part = "close" /\ Next /\ UNCHANGED <<noticeVars, part>>
  \/ /\ part = "notices" /\ NoticeNext
     /\ routed' = Chats \/ status' # "CANCELED"
     /\ UNCHANGED <<vars, part>>

MCSpec == MCInit /\ [][MCNext]_mcvars

Pushes(A) == part = "close" /\ A /\ UNCHANGED <<noticeVars, part>>
Works(A) == part = "notices" /\ A /\ UNCHANGED <<vars, part>>

(* The push loop, the web processes and the retry worker are fair.         *)
MCFairSpec ==
  /\ MCSpec
  /\ WF_<<vars, part>>(Pushes(Deliver))
  /\ \A w \in Webs : WF_<<noticeVars, part>>(Works(Take(w) \/ Send(w) \/ Finish(w)))
  /\ WF_<<noticeVars, part>>(Works(Claim \/ WorkPersist \/ WorkSend \/ Complete))
=============================================================================
