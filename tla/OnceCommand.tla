---------------------------- MODULE OnceCommand ----------------------------
(***************************************************************************)
(* What an idempotency key promises to the clients that send commands      *)
(* under it, with nothing of claims, leases or transactions: every command *)
(* is executed at most once, the first answer kept under the key is never  *)
(* replaced and agrees with what was done, and a client is told of success *)
(* only when its own command was executed.                                 *)
(***************************************************************************)
EXTENDS Naturals

CONSTANTS Workers, Bodies

VARIABLES
  times,  \* times[b]: executions of command b
  kept,   \* the answer kept under the key
  told    \* told[p]: the command request p was told has succeeded

vars == <<times, kept, told>>

NoBody == "none"
NoAnswer == [body |-> NoBody, status |-> "none"]

Init ==
  /\ times = [b \in Bodies |-> 0]
  /\ kept = NoAnswer
  /\ told = [p \in Workers |-> NoBody]

(* A command runs, for the first time, and not after an answer to it was   *)
(* kept.                                                                   *)
Executes ==
  \/ UNCHANGED times
  \/ \E b \in Bodies \ {kept.body} :
        times[b] = 0 /\ times' = [times EXCEPT ![b] = 1]

(* The answer that is kept is the truth about its command.                 *)
Keeps ==
  \/ UNCHANGED kept
  \/ /\ kept = NoAnswer
     /\ \E b \in Bodies :
           kept' = [body |-> b, status |-> IF times'[b] = 1 THEN "ok" ELSE "refused"]

Tells == \A p \in Workers :
  told'[p] \in {NoBody, told[p]} \cup {b \in Bodies : times'[b] = 1}

Next == Executes /\ Keeps /\ Tells

Spec == Init /\ [][Next]_vars
=============================================================================
