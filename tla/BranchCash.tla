----------------------------- MODULE BranchCash -----------------------------
(***************************************************************************)
(* The cash of one branch: the CashRegister row the terminal owns, the     *)
(* cash-out commands the cloud issues against its last report, and the     *)
(* cumulative total of those commands the terminal has applied.            *)
(*                                                                         *)
(* A command is a row of the feed (a drawer expense, or the companion row  *)
(* of a refund); its reversal is a second row.  The terminal applies them  *)
(* when it pulls, and reports balance and applied total in one row, which  *)
(* reaches the cloud late, out of order or not at all.                     *)
(***************************************************************************)
EXTENDS Integers, FiniteSetsExt

CONSTANTS
  Commands,    \* cash-outs the cloud may issue
  Local,       \* cash-outs the terminal may make itself
  Expenses,    \* which of both are drawer expenses; the others are refunds
  Amount,      \* [Commands \cup Local -> Nat \ {0}]
  Opening,     \* what the register holds at first
  MaxTakings,  \* bound: cash taken from customers
  MaxWire,     \* bound: reports under way
  MaxLosses    \* bound: reports lost

ASSUME BranchCashAssumption ==
  /\ Commands \cap Local = {} /\ IsFiniteSet(Commands) /\ IsFiniteSet(Local)
  /\ Expenses \subseteq Commands \cup Local
  /\ Amount \in [Commands \cup Local -> Nat \ {0}]
  /\ Opening \in Nat
  /\ MaxTakings \in Nat /\ MaxWire \in Nat \ {0} /\ MaxLosses \in Nat

VARIABLES
  register,  \* the terminal's CashRegister row
  report,    \* the cloud's copy of it
  wire,      \* copies under way to the cloud
  issued,    \* issued[c]: the cloud's rows of command c: 2 with its reversal
  known,     \* known[c]: how many of them the terminal has pulled
  paid,      \* paid[p]: the terminal's rows of its own cash-out p
  voids,     \* voids[c]: the terminal's own reversal of c, and if the cloud has it
  takings,   \* cash taken from customers
  losses

vars == <<register, report, wire, issued, known, paid, voids, takings, losses>>

Rows == 0..2

Total(S) == SumFunctionOnSet(Amount, S)

(* What the rows of a set of cash-outs take out of the drawer: a reversal  *)
(* carries the opposite amount.                                            *)
Stands(rows) == Total({p \in DOMAIN rows : rows[p] = 1})

VoidedHere == Total({c \in Commands : voids[c] # "none"})

Register == [balance : 0..(Opening + MaxTakings + Total(Commands)),
             applied : 0..Total(Commands), version : Nat]

TypeOK ==
  /\ register \in Register
  /\ report \in Register
  /\ wire \subseteq Register
  /\ issued \in [Commands -> Rows]
  /\ known \in [Commands -> Rows]
  /\ paid \in [Local -> Rows]
  /\ voids \in [Commands -> {"none", "here", "told"}]
  /\ takings \in 0..MaxTakings
  /\ losses \in 0..MaxLosses

Init ==
  /\ register = [balance |-> Opening, applied |-> 0, version |-> 1]
  /\ report = register
  /\ wire = {}
  /\ issued = [c \in Commands |-> 0]
  /\ known = [c \in Commands |-> 0]
  /\ paid = [p \in Local |-> 0]
  /\ voids = [c \in Commands |-> "none"]
  /\ takings = 0
  /\ losses = 0

-----------------------------------------------------------------------------
(* The register row.                                                       *)

(* Commands that are known and not yet in the register's balance.          *)
Pending(rows, reg) == Stands(rows) - reg.applied

Available(rows, reg) == reg.balance - Pending(rows, reg)

Moves(delta) ==
  register' = [balance |-> register.balance + delta, applied |-> register.applied,
               version |-> register.version + 1]

(* Mutant: a command is acknowledged although the drawer is short of it.   *)
AcknowledgesAnyway(rows) ==
  LET delta == Pending(rows, register)
  IN register' = [balance |-> IF delta > register.balance THEN register.balance
                              ELSE register.balance - delta,
                  applied |-> register.applied + delta,
                  version |-> register.version + (IF delta = 0 THEN 0 ELSE 1)]

(* Every known command is applied at once, or none of them while the       *)
(* drawer is short of their sum.                                           *)
AppliesPending(rows) ==
  LET delta == Pending(rows, register)
  IN register' = IF delta = 0 \/ delta > register.balance THEN register
                 ELSE [balance |-> register.balance - delta,
                       applied |-> register.applied + delta,
                       version |-> register.version + 1]

-----------------------------------------------------------------------------
(* The terminal.                                                           *)

(* A cash sale.                                                            *)
TakeCash(a) ==
  /\ takings + a <= MaxTakings
  /\ takings' = takings + a
  /\ Moves(a)
  /\ UNCHANGED <<report, wire, issued, known, paid, voids, losses>>

(* What the shift's own evidence says is in its drawer.                    *)
Drawer == takings - Stands(paid) + VoidedHere - Stands(known)

(* A drawer expense paid at the till.  Note what it writes: the balance    *)
(* loses the pending commands too, and the applied total is left alone.    *)
PayExpense(p) ==
  /\ p \in Local \cap Expenses /\ paid[p] = 0
  /\ Amount[p] <= Drawer
  /\ Amount[p] <= Available(known, register)
  /\ paid' = [paid EXCEPT ![p] = 1]
  /\ Moves(- Pending(known, register) - Amount[p])
  /\ UNCHANGED <<report, wire, issued, known, voids, takings, losses>>

VoidExpense(p) ==
  /\ p \in Local \cap Expenses /\ paid[p] = 1
  /\ paid' = [paid EXCEPT ![p] = 2]
  /\ Moves(Amount[p])
  /\ UNCHANGED <<report, wire, issued, known, voids, takings, losses>>

(* The refund of a paid order, in cash.                                    *)
RefundHere(p) ==
  /\ p \in Local \ Expenses /\ paid[p] = 0
  /\ Amount[p] <= takings
  /\ Amount[p] <= Available(known, register)
  /\ paid' = [paid EXCEPT ![p] = 1]
  /\ Moves(- Amount[p])
  /\ UNCHANGED <<report, wire, issued, known, voids, takings, losses>>

(* An expense the cloud has ordered is voided at the till.                 *)
VoidHere(c) ==
  /\ c \in Expenses /\ known[c] = 1 /\ voids[c] = "none"
  /\ voids' = [voids EXCEPT ![c] = "here"]
  /\ Moves(Amount[c])
  /\ UNCHANGED <<report, wire, issued, known, paid, takings, losses>>

(* A pulled row is stored and the register brought up to date in the same  *)
(* transaction; the row stays even when the drawer is short.  A second     *)
(* reversal of one expense breaks a constraint and is never stored.        *)
PullRow(c) ==
  /\ known[c] < issued[c]
  /\ known[c] = 0 \/ voids[c] = "none"
  /\ known' = [known EXCEPT ![c] = @ + 1]
  /\ AppliesPending(known')
  /\ UNCHANGED <<report, wire, issued, paid, voids, takings, losses>>

(* Mutant: a row that is known is skipped by a second delivery.            *)
RedeliverSkips(c) ==
  /\ known[c] > 0
  /\ UNCHANGED vars

(* The cursor stays where it was while a command is deferred, so that the  *)
(* row is delivered again; a full replay delivers it again too.            *)
Redeliver(c) ==
  /\ known[c] > 0
  /\ AppliesPending(known)
  /\ UNCHANGED <<report, wire, issued, known, paid, voids, takings, losses>>

Push ==
  /\ Cardinality(wire) < MaxWire
  /\ register # report
  /\ wire' = wire \cup {register}
  /\ UNCHANGED <<register, report, issued, known, paid, voids, takings, losses>>

-----------------------------------------------------------------------------
(* The cloud.                                                              *)

(* Mutant: the applied total reaches the cloud ahead of its balance.       *)
TakesReportInParts(s) ==
  \/ report' = s
  \/ report' = [report EXCEPT !.applied = s.applied]

(* The newer version of the row wins.                                      *)
TakesReport(s) == report' = IF s.version > report.version THEN s ELSE report

Deliver(s) ==
  /\ s \in wire
  /\ wire' = wire \ {s}
  /\ TakesReport(s)
  /\ UNCHANGED <<register, issued, known, paid, voids, takings, losses>>

Lose(s) ==
  /\ s \in wire /\ losses < MaxLosses
  /\ wire' = wire \ {s}
  /\ losses' = losses + 1
  /\ UNCHANGED <<register, report, issued, known, paid, voids, takings>>

MayIssue(c) == Amount[c] <= Available(issued, report)

(* A drawer expense paid from the cloud, or a cash refund recorded there.  *)
Issue(c) ==
  /\ issued[c] = 0
  /\ MayIssue(c)
  /\ issued' = [issued EXCEPT ![c] = 1]
  /\ UNCHANGED <<register, report, wire, known, paid, voids, takings, losses>>

(* An expense is voided from the cloud, unless a reversal is there.        *)
Void(c) ==
  /\ c \in Expenses /\ issued[c] = 1 /\ voids[c] # "told"
  /\ issued' = [issued EXCEPT ![c] = 2]
  /\ UNCHANGED <<register, report, wire, known, paid, voids, takings, losses>>

(* The terminal's reversal reaches the cloud, unless it has its own.       *)
TellVoid(c) ==
  /\ voids[c] = "here" /\ issued[c] = 1
  /\ voids' = [voids EXCEPT ![c] = "told"]
  /\ UNCHANGED <<register, report, wire, issued, known, paid, takings, losses>>

-----------------------------------------------------------------------------
Next ==
  \/ \E a \in 1..MaxTakings : TakeCash(a)
  \/ \E p \in Local : PayExpense(p) \/ VoidExpense(p) \/ RefundHere(p)
  \/ \E c \in Commands : \/ VoidHere(c) \/ PullRow(c) \/ Redeliver(c)
                         \/ Issue(c) \/ Void(c) \/ TellVoid(c)
  \/ Push
  \/ \E s \in wire : Deliver(s) \/ Lose(s)

Spec == Init /\ [][Next]_vars

(* The sync loop pulls and pushes in every cycle; a report that is sent    *)
(* and not lost arrives.                                                   *)
Fairness ==
  /\ \A c \in Commands : WF_vars(PullRow(c)) /\ WF_vars(Redeliver(c))
  /\ WF_vars(Push)
  /\ WF_vars(\E s \in wire : Deliver(s))

FairSpec == Spec /\ Fairness

-----------------------------------------------------------------------------
(* What the register should hold: what it held and took, less what the     *)
(* terminal paid out, plus what it took back, less what it has applied.    *)
Ledger == Opening + takings - Stands(paid) + VoidedHere - register.applied

(* No drawer expense has been paid at the till yet.                        *)
NoTillExpense == \A p \in Local \cap Expenses : paid[p] = 0

(* The register never holds more than the branch's ledger, and until the   *)
(* till pays a drawer expense it is the ledger: each command is counted    *)
(* exactly once, however often rows are delivered and whatever was         *)
(* deferred in between.                                                    *)
(* (_apply_pending_register_commands, record_paid_order_refund)            *)
RegisterIsLedger ==
  /\ register.balance <= Ledger
  /\ NoTillExpense => register.balance = Ledger

(* However late, reordered or lost the reports of the terminal are, the    *)
(* commands outstanding never exceed the cash the branch has taken in and  *)
(* taken back: the same cash is never promised twice.                      *)
(* (pending_register_amount; the CashRegister comment on its two values)   *)
NoDoublePromise == Stands(issued) <= Opening + takings + VoidedHere

(* Once the cloud and the till stop, the cloud sees the register as it is, *)
(* the till knows every row but a second reversal, and every command that  *)
(* stands is applied, unless the drawer is short of their sum for good.    *)
(* (the cursor kept on 'deferred', the outbox)                             *)
Settles ==
  <>[](/\ report = register
       /\ \A c \in Commands : known[c] = issued[c] \/ voids[c] # "none"
       /\ \/ Pending(known, register) = 0
          \/ Pending(known, register) > register.balance)
=============================================================================
