--------------------------- MODULE MCIdempotency ---------------------------
(* The two decorators, each under a key of its own: a behaviour exercises  *)
(* one of them.                                                            *)
EXTENDS Idempotency, AtomicCommand, ExpenseFiling, TLC

CONSTANTS w1, w2, w3, pay, payMore, e1, k1, k2, q1

VARIABLE style  \* which decorator the behaviour exercises

(* The first action moves both requests wherever they are, the second      *)
(* brings one of them back.                                                *)
Wanted == [q \in Moves |->
  IF q = q1 THEN [requests |-> Expenses, to |-> k2, expected |-> "any"]
  ELSE [requests |-> {e1}, to |-> k1, expected |-> k2]]

Costs == [e \in Expenses |-> 1]
Sources == [e \in Expenses |-> "BANK"]
NoFees == [e \in Expenses |-> 0]

MCInit ==
  /\ Init /\ AtomicInit /\ TreasuryInit /\ ExpensesInit /\ FilingInit
  /\ style \in {"leased", "atomic", "filing"}

MCNext ==
  \/ style = "leased" /\ Next /\ UNCHANGED <<atomicVars, filingVars, style>>
  \/ style = "atomic" /\ AtomicNext /\ UNCHANGED <<vars, filingVars, style>>
  \/ style = "filing" /\ (FilingNext \/ UNCHANGED filingVars) /\ UNCHANGED <<vars, atomicVars, style>>

MCSpec == MCInit /\ [][MCNext]_<<vars, atomicVars, filingVars, style>>

(* Under the lease, requests are repeated for ever and handled to their    *)
(* end, and time passes.                                                   *)
MCFairSpec ==
  /\ MCSpec
  /\ WF_vars(style = "leased" /\ Tick)
  /\ \A p \in Workers : WF_vars(style = "leased" /\ Handles(p))
  /\ \A b \in Bodies : SF_vars(style = "leased" /\ \E p \in Workers : Arrive(p, b))
=============================================================================
