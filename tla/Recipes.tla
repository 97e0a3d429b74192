------------------------------ MODULE Recipes ------------------------------
(***************************************************************************)
(* Recipes: their versions, ingredients and steps.                         *)
(*                                                                         *)
(* The versions of a recipe are its root and the rows whose parent is the  *)
(* root.  Ingredients and steps are deleted softly: the row stays, and     *)
(* with it the step number that the database keeps unique in a recipe.     *)
(* A call is one transaction of a terminal, and one step.                  *)
(***************************************************************************)
EXTENDS Integers, FiniteSetsExt

CONSTANTS
  Recipes,       \* Recipe rows
  Ingredients,   \* stock items a recipe may use
  Majors,        \* values of the major fields (output, yield, type)
  StepIds,       \* ids of the RecipeStep rows of a recipe
  Positions,     \* step numbers a caller may name
  MostRowEdits      \* bound: edits of ingredients, steps and is_active

ASSUME RecipesAssumption ==
  /\ IsFiniteSet(Recipes) /\ "none" \notin Recipes
  /\ Positions \subseteq Nat /\ MostRowEdits \in Nat

VARIABLES
  recipe,  \* recipe[r]: the row
  lines,   \* lines[r]: its RecipeIngredient rows
  steps,   \* steps[r]: its RecipeStep rows
  edits    \* edits so far

recipes == <<recipe, lines, steps, edits>>

NoRecipe == [root |-> "none", version |-> 0, major |-> 0,
             current |-> FALSE, approved |-> FALSE, active |-> FALSE]

RecipesInit ==
  /\ recipe = [r \in Recipes |-> NoRecipe]
  /\ lines = [r \in Recipes |-> {}]
  /\ steps = [r \in Recipes |-> {}]
  /\ edits = 0

Exists(r) == recipe[r].version > 0

Root(r) == IF recipe[r].root = "none" THEN r ELSE recipe[r].root

Family(r) == {v \in Recipes : Exists(v) /\ Root(v) = Root(r)}

Present(rows) == {l \in rows : ~l.gone}

-----------------------------------------------------------------------------
(* Versions.                                                               *)

(* The first version is in force before anyone has approved it.            *)
CreateRecipe(r, major) ==
  /\ ~Exists(r)
  /\ recipe' = [recipe EXCEPT ![r] =
       [root |-> "none", version |-> 1, major |-> major,
        current |-> TRUE, approved |-> FALSE, active |-> TRUE]]
  /\ UNCHANGED <<lines, steps, edits>>

(* Mutant: the next number after the version that is edited.               *)
NumberAfter(r) == recipe[r].version + 1

(* Under the lock of the root.                                             *)
NextVersion(r) == Max({recipe[v].version : v \in Family(r)}) + 1

Edited(r, major) ==
  /\ recipe' = [recipe EXCEPT ![r].major = major]
  /\ UNCHANGED <<lines, steps, edits>>

(* The draft takes over what is live, and is not in force.                 *)
NewVersion(r, new, major) ==
  /\ ~Exists(new)
  /\ recipe' = [recipe EXCEPT ![new] =
       [root |-> Root(r), version |-> NextVersion(r), major |-> major,
        current |-> FALSE, approved |-> FALSE, active |-> TRUE]]
  /\ lines' = [lines EXCEPT ![new] = Present(lines[r])]
  /\ steps' = [steps EXCEPT ![new] = Present(steps[r])]
  /\ UNCHANGED <<edits>>

(* A major field of an approved recipe changes in a new version only.      *)
UpdateRecipe(r, new, major) ==
  /\ Exists(r) /\ major # recipe[r].major
  /\ IF recipe[r].approved THEN NewVersion(r, new, major) ELSE Edited(r, major)

AskNewVersion(r, new) == Exists(r) /\ NewVersion(r, new, recipe[r].major)

(* A root that is approved leaves the others as they are.                  *)
Approve(r) ==
  /\ Exists(r) /\ ~recipe[r].approved
  /\ LET others == IF recipe[r].root = "none" THEN {} ELSE Family(r) \ {r}
     IN recipe' = [v \in Recipes |->
          IF v = r THEN [recipe[v] EXCEPT !.approved = TRUE, !.current = TRUE]
          ELSE IF v \in others THEN [recipe[v] EXCEPT !.current = FALSE]
          ELSE recipe[v]]
  /\ UNCHANGED <<lines, steps, edits>>

SetActive(r, active) ==
  /\ Exists(r) /\ recipe[r].active # active
  /\ edits < MostRowEdits /\ edits' = edits + 1
  /\ recipe' = [recipe EXCEPT ![r].active = active]
  /\ UNCHANGED <<lines, steps>>

-----------------------------------------------------------------------------
(* Ingredients and steps, of any version, approved or not.                 *)

Edits(r) ==
  /\ Exists(r) /\ edits < MostRowEdits /\ edits' = edits + 1
  /\ UNCHANGED recipe

AddIngredient(r, i) ==
  /\ Edits(r)
  /\ lines' = [lines EXCEPT ![r] = @ \cup {[item |-> i, gone |-> FALSE]}]
  /\ UNCHANGED steps

RemoveIngredient(r, l) ==
  /\ Edits(r) /\ l \in Present(lines[r])
  /\ lines' = [lines EXCEPT ![r] = (@ \ {l}) \cup {[l EXCEPT !.gone = TRUE]}]
  /\ UNCHANGED steps

Shifted(rows, from, by) ==
  {IF s.number >= from THEN [s EXCEPT !.number = @ + by] ELSE s : s \in rows}

Numbers(rows) == {s.number : s \in rows}

Ids(rows) == {s.id : s \in rows}

(* At whatever number the caller names; the rows from a taken one on, also *)
(* deleted ones, make room.                                                *)
AddStep(r, id, n) ==
  /\ Edits(r) /\ id \notin Ids(steps[r])
  /\ steps' = [steps EXCEPT ![r] =
       (IF n \in Numbers(@) THEN Shifted(@, n, 1) ELSE @)
         \cup {[id |-> id, number |-> n, gone |-> FALSE]}]
  /\ UNCHANGED lines

(* The deleted row keeps its number, so that the step after it cannot take *)
(* it: the constraint undoes the removal.                                  *)
RemoveStep(r, s) ==
  /\ Edits(r) /\ s \in Present(steps[r])
  /\ s.number + 1 \notin Numbers(steps[r])
  /\ steps' = [steps EXCEPT ![r] =
       Shifted((@ \ {s}), s.number + 1, -1) \cup {[s EXCEPT !.gone = TRUE]}]
  /\ UNCHANGED lines

(* The rows of a list are saved one by one, each at its position.  One     *)
(* that is held, by a row that moves later or is not in the list, undoes   *)
(* the call.                                                               *)
Vacant(rows, position) ==
  \A s \in DOMAIN position, t \in rows :
    t # s /\ t.number = position[s] /\ s.number # position[s] =>
      t \in DOMAIN position /\ position[t] < position[s]

(* A list may name some of the rows, deleted ones too, and ids that are    *)
(* none of its rows: their positions stay free.                            *)
Reorder(r, position) ==
  /\ Edits(r) /\ IsInjective(position) /\ Vacant(steps[r], position)
  /\ steps' = [steps EXCEPT ![r] =
       {IF s \in DOMAIN position THEN [s EXCEPT !.number = position[s]] ELSE s : s \in @}]
  /\ UNCHANGED lines

-----------------------------------------------------------------------------
VersionStep ==
  \E r \in Recipes :
    \/ \E major \in Majors :
         \/ CreateRecipe(r, major)
         \/ \E new \in Recipes \ {r} : UpdateRecipe(r, new, major)
    \/ \E new \in Recipes \ {r} : AskNewVersion(r, new)
    \/ Approve(r)
    \/ \E active \in BOOLEAN : SetActive(r, active)

ChildStep ==
  \E r \in Recipes :
    \/ \E i \in Ingredients : AddIngredient(r, i)
    \/ \E l \in lines[r] : RemoveIngredient(r, l)
    \/ \E id \in StepIds, n \in Positions : AddStep(r, id, n)
    \/ \E s \in steps[r] : RemoveStep(r, s)
    \/ \E listed \in SUBSET steps[r] :
         \E position \in [listed -> Positions \ {0}] : Reorder(r, position)

RecipesNext == VersionStep \/ ChildStep

RecipesSpec == RecipesInit /\ [][RecipesNext]_recipes

-----------------------------------------------------------------------------
VersionsOrdered ==
  \A r \in Recipes : Exists(r) =>
    /\ \A v \in Family(r) : recipe[v].version = recipe[r].version => v = r
    /\ \E v \in Family(r) : recipe[v].current
    /\ Cardinality({v \in Family(r) : recipe[v].current /\ v # Root(r)}) <= 1

(* The constraint on a recipe's step numbers, deleted rows included.       *)
StepsApart ==
  \A r \in Recipes : \A s, t \in steps[r] :
    s.number = t.number \/ s.id = t.id => s = t

(* Live rows come in the order in which they came before.                  *)
SameOrder(old, new) ==
  \A s, t \in Present(old), u, v \in Present(new) :
    s.id = u.id /\ t.id = v.id /\ s.number < t.number => u.number < v.number

(* Whichever version an edit or an approval starts from, the versions of a *)
(* recipe have numbers of their own, one of them at least is in force, and *)
(* of those that came after the first at most one (catalog.py:520, 640).   *)
(* What was approved stays so, with the major fields that production was   *)
(* planned from (catalog.py:502).  Steps never meet at a number, and one   *)
(* that is added or removed leaves the others in their order, whatever     *)
(* holes and deleted rows there are among them (steps.py:53-62, 118-125).  *)
RecipesHold ==
  [][/\ VersionsOrdered' /\ StepsApart'
     /\ \A r \in Recipes :
          /\ recipe[r].approved =>
               recipe'[r].approved /\ recipe'[r].major = recipe[r].major
          /\ Ids(Present(steps'[r])) # Ids(Present(steps[r])) =>
               SameOrder(steps[r], steps'[r])
    ]_recipes
=============================================================================
