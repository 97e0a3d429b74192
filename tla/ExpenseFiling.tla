---------------------------- MODULE ExpenseFiling ----------------------------
(***************************************************************************)
(* The categories of expenses, two levels deep, and the filing of requests *)
(* under them.                                                             *)
(*                                                                         *)
(* Every command locks the row of the category it is about, and that of    *)
(* the parent it names, and is one step; only a change that keeps the      *)
(* parent reads it WITHOUT a lock, and is two.  A request takes a copy of  *)
(* what its category allowed at that time, and may be moved to another     *)
(* category, many at once, while all of them are pending.  The answer to   *)
(* such a move may be lost and the move sent again under the same action.  *)
(***************************************************************************)
EXTENDS OfficeExpenses

CONSTANTS
  Categories,  \* categories there may be
  Seeded,      \* those that are there from the start, active roots
  Moves,       \* actions that move requests to another category
  Moving,      \* Moving[q]: the requests, the target, the category expected or "any"
  MaxChanges   \* changes of categories in a behaviour

ASSUME FilingAssumption ==
  /\ "root" \notin Categories
  /\ Moving \in [Moves -> [requests : SUBSET Expenses, to : Categories,
                          expected : Categories \cup {"any"}]]

VARIABLES
  category,    \* category[c]: the row
  keeping,     \* keeping[c]: the row a change is about to write, if any
  filed,       \* filed[e]: the category of a request and its copy of the sources
  moved,       \* moved[q]: the times the action has left its evidence
  changes

tree == <<category, keeping, changes>>
filing == <<tree, filed, moved>>
filingVars == <<filing, expense, treasury>>

NoCategory == [parent |-> "none", active |-> FALSE, sources |-> {}]
NotFiled == [category |-> "none", sources |-> {}]

CategoryRow(parent, active, sources) ==
  [parent |-> parent, active |-> active, sources |-> sources]

FilingInit ==
  /\ category = [c \in Categories |->
                   IF c \in Seeded THEN CategoryRow("root", TRUE, Kinds) ELSE NoCategory]
  /\ keeping = [c \in Categories |-> NoCategory]
  /\ filed = [e \in Expenses |-> NotFiled]
  /\ moved = [q \in Moves |-> 0]
  /\ changes = 0

There(c) == category[c] # NoCategory
Free(c) == keeping[c] = NoCategory

Under(c) == {d \in Categories : There(d) /\ category[d].parent = c}
ActiveUnder(c) == {d \in Under(c) : category[d].active}

-----------------------------------------------------------------------------
(* The tree.                                                               *)

MayBeUnder(c, p, on) ==
  p = "root" \/ /\ p \in Categories \ {c} /\ There(p) /\ Free(p)
                /\ category[p].parent = "root" /\ (on => category[p].active)
                /\ Under(c) = {}

Write(c, row) ==
  /\ category' = [category EXCEPT ![c] = row]
  /\ changes < MaxChanges /\ changes' = changes + 1
  /\ UNCHANGED <<expense, filed, moved, treasury>>

CreateCategory(c, p, on, sources) ==
  /\ ~There(c) /\ MayBeUnder(c, p, on)
  /\ Write(c, CategoryRow(p, on, sources)) /\ UNCHANGED keeping

(* With a parent named: its row is locked too.                             *)
UpdateCategory(c, p, on, sources) ==
  /\ There(c) /\ Free(c) /\ MayBeUnder(c, p, on)
  /\ on \/ ActiveUnder(c) = {}
  /\ Write(c, CategoryRow(p, on, sources)) /\ UNCHANGED keeping

(* The parent is kept, and was read as active before this row's lock ends. *)
BeginKeep(c, on, sources) ==
  LET p == category[c].parent IN
  /\ There(c) /\ Free(c) /\ p # "root" /\ (on => category[p].active)
  /\ changes < MaxChanges
  /\ keeping' = [keeping EXCEPT ![c] = CategoryRow(p, on, sources)]
  /\ UNCHANGED <<category, changes, expense, filed, moved, treasury>>

EndKeep(c) ==
  /\ ~Free(c)
  /\ Write(c, keeping[c]) /\ keeping' = [keeping EXCEPT ![c] = NoCategory]

Deactivate(c) ==
  /\ There(c) /\ Free(c) /\ category[c].active /\ ActiveUnder(c) = {}
  /\ Write(c, [category[c] EXCEPT !.active = FALSE]) /\ UNCHANGED keeping

-----------------------------------------------------------------------------
(* Requests.                                                               *)

Selectable(c) == There(c) /\ Free(c) /\ category[c].active /\ ActiveUnder(c) = {}

Allows(c, e) == Source[e] \in category[c].sources

Copy(c) == [category |-> c, sources |-> category[c].sources]

File(e, c) ==
  /\ Selectable(c) /\ Allows(c, e)
  /\ AskFor(e) /\ filed' = [filed EXCEPT ![e] = Copy(c)]
  /\ UNCHANGED <<tree, moved>>

AllPending(es) == \A e \in es : expense[e] = "PENDING"

(* Some of them are no longer where the manager saw them, or are there     *)
(* already.                                                                *)
Displaced(q) ==
  \E e \in Moving[q].requests :
    \/ Moving[q].expected \notin {"any", filed[e].category}
    \/ filed[e].category = Moving[q].to

(* An action that has left its evidence answers from it.                   *)
Answered(q) == moved[q] > 0

Refile(q) ==
  LET es == Moving[q].requests  c == Moving[q].to IN
  /\ filed' = [e \in Expenses |-> IF e \in es THEN Copy(c) ELSE filed[e]]
  /\ moved' = [moved EXCEPT ![q] = @ + 1]
  /\ UNCHANGED <<tree, expense, treasury>>

(* Mutant: the evidence of the action is not looked for.                   *)
ReclassifyAnew(q) ==
  /\ AllPending(Moving[q].requests) /\ ~Displaced(q) /\ Selectable(Moving[q].to)
  /\ \A e \in Moving[q].requests : Allows(Moving[q].to, e)
  /\ Refile(q)

ReclassifyPending(q) ==
  /\ AllPending(Moving[q].requests) /\ ~Answered(q)
  /\ ~Displaced(q) /\ Selectable(Moving[q].to)
  /\ \A e \in Moving[q].requests : Allows(Moving[q].to, e)
  /\ Refile(q)

Decide(e) ==
  (Approve(e) \/ Reject(e) \/ CancelExpense(e)) /\ UNCHANGED filing

FilingNext ==
  \/ \E c \in Categories :
       \/ Deactivate(c) \/ EndKeep(c)
       \/ \E on \in BOOLEAN, sources \in {{"SAFE"}, Kinds} :
            \/ BeginKeep(c, on, sources)
            \/ \E p \in Categories \cup {"root"} :
                 CreateCategory(c, p, on, sources) \/ UpdateCategory(c, p, on, sources)
  \/ \E e \in Expenses : Decide(e) \/ \E c \in Categories : File(e, c)
  \/ \E q \in Moves : ReclassifyPending(q)

FilingSpec == TreasuryInit /\ ExpensesInit /\ FilingInit /\ [][FilingNext]_filingVars

(* What every step keeps of the tree and of the requests.                  *)
KeepsFiling ==
  /\ \A c \in Categories : There(c)' /\ category'[c].parent # "root" =>
       category'[category'[c].parent].parent = "root"
  /\ \A e \in Expenses :
       /\ filed'[e] # NotFiled => Source[e] \in filed'[e].sources
       /\ expense[e] \notin {"NONE", "PENDING"} => filed'[e] = filed[e]
  /\ \A q \in Moves : moved'[q] <= 1

(* The tree of categories stays two levels deep while its changes cross    *)
(* each other; a request never stands under a category that did not allow  *)
(* its source when it was put there; a decided request stays where it was  *)
(* decided; and an action moves its requests once, however often it is     *)
(* sent and whatever has moved them since (_resolve_parent, create,        *)
(* reclassify_pending).                                                    *)
FilingHolds == [][KeepsFiling]_<<filing, expense>>
=============================================================================
