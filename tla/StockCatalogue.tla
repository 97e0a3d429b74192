--------------------------- MODULE StockCatalogue ---------------------------
(***************************************************************************)
(* What stock is kept of, and where: categories, units, items and          *)
(* locations, and the links between them that a deactivation, a move or a  *)
(* change of unit could leave dangling.                                    *)
(*                                                                         *)
(* A call is one transaction of a terminal, and one step.  Rows are never  *)
(* removed, only deactivated.                                              *)
(***************************************************************************)
EXTENDS Integers, FiniteSets

CONSTANTS
  Categories,   \* StockCategory rows
  Places,       \* StockLocation rows
  Units,        \* StockUnit rows, all of one type
  Items,        \* StockItem rows
  MostChanges   \* bound: calls

ASSUME CatalogueAssumption ==
  /\ "none" \notin Categories \cup Places \cup Units
  /\ MostChanges \in Nat

VARIABLES
  category,  \* category[g]: whether it exists, is active, and its parent
  place,     \* place[l]: the same of a location, and its is_default
  house,     \* StockSettings.default_location
  unit,      \* unit[u]: whether it is active, and the base it derives from
  item,      \* item[i]: its unit and its category, whether it is active
  held,      \* held[i]: the locations where there is some of it
  calls      \* calls so far

catalogue == <<category, place, house, unit, item, held, calls>>

None == "none"

NoNode == [exists |-> FALSE, active |-> FALSE, up |-> None]
NoPlace == [exists |-> FALSE, active |-> FALSE, up |-> None, default |-> FALSE]
NoUnit == [exists |-> FALSE, active |-> FALSE, of |-> None]
NoItem == [exists |-> FALSE, active |-> FALSE, unit |-> None,
           category |-> None, moved |-> FALSE]

CatalogueInit ==
  /\ category = [g \in Categories |-> NoNode]
  /\ place = [l \in Places |-> NoPlace]
  /\ house = None
  /\ unit = [u \in Units |-> NoUnit]
  /\ item = [i \in Items |-> NoItem]
  /\ held = [i \in Items |-> {}]
  /\ calls = 0

Existing(row) == {x \in DOMAIN row : row[x].exists}
Active(row) == {x \in DOMAIN row : row[x].active}

Call == calls < MostChanges /\ calls' = calls + 1

-----------------------------------------------------------------------------
(* Trees: of categories and of locations.                                  *)

(* A set that holds the parent of whatever it holds.                       *)
Upward(row, S) == \A y \in S : row[y].up \in S \cup {None}

(* _is_descendant: whether top is the parent of x, or one of its parents.  *)
Below(row, x, top) ==
  \A S \in SUBSET DOMAIN row :
    Upward(row, S) /\ row[x].up \in S \cup {None} => top \in S

(* Mutant: the parent is only compared with the row itself.                *)
MayAttach(row, x, up) == up = None \/ (up # x /\ up \in Existing(row))

MayMove(row, x, up) ==
  \/ up = None
  \/ up # x /\ up \in Existing(row) /\ ~Below(row, up, x)

MayAdd(row, x, up) == ~row[x].exists /\ up \in Active(row) \cup {None}

MayActivate(row, x) ==
  x \in Existing(row) /\ row[x].up \in Active(row) \cup {None}

Children(row, x) == {y \in DOMAIN row : row[y].up = x}

-----------------------------------------------------------------------------
(* Categories.                                                             *)

Node(up) == [exists |-> TRUE, active |-> TRUE, up |-> up]

CreateCategory(g, up) ==
  /\ Call /\ MayAdd(category, g, up)
  /\ category' = [category EXCEPT ![g] = Node(up)]
  /\ UNCHANGED <<place, house, unit, item, held>>

(* The new parent may be inactive.                                         *)
UpdateCategory(g, up) ==
  /\ Call /\ g \in Existing(category) /\ MayMove(category, g, up)
  /\ category' = [category EXCEPT ![g].up = up]
  /\ UNCHANGED <<place, house, unit, item, held>>

FiledIn(G) == {i \in Items : item[i].category \in G}

(* The recursion goes down from active child to active child.              *)
Downward(S) == \A y \in S : Children(category, y) \cap Active(category) \subseteq S

Cascade(g) ==
  {y \in Categories : \A S \in SUBSET Categories : g \in S /\ Downward(S) => y \in S}

(* Without cascade, active items and children refuse it; with it, the      *)
(* items of a category that has an active one are left without category.   *)
DeactivateCategory(g, cascade) ==
  /\ Call /\ g \in Existing(category)
  /\ ~cascade =>
       /\ FiledIn({g}) \cap Active(item) = {}
       /\ Children(category, g) \cap Active(category) = {}
  /\ LET gone == IF cascade THEN Cascade(g) ELSE {g}
         cleared == {i \in FiledIn(gone) :
                       FiledIn({item[i].category}) \cap Active(item) # {}}
     IN /\ category' = [y \in Categories |->
             IF y \in gone THEN [category[y] EXCEPT !.active = FALSE]
             ELSE category[y]]
        /\ item' = [i \in Items |->
             IF i \in cleared THEN [item[i] EXCEPT !.category = None]
             ELSE item[i]]
  /\ UNCHANGED <<place, house, unit, held>>

ActivateCategory(g) ==
  /\ Call /\ MayActivate(category, g)
  /\ category' = [category EXCEPT ![g].active = TRUE]
  /\ UNCHANGED <<place, house, unit, item, held>>

-----------------------------------------------------------------------------
(* Locations.                                                              *)

(* clear_default, of inactive locations too.                               *)
Undefaulted == [l \in Places |-> [place[l] EXCEPT !.default = FALSE]]

CreatePlace(l, up, default) ==
  /\ Call /\ MayAdd(place, l, up)
  /\ place' = [(IF default THEN Undefaulted ELSE place) EXCEPT
       ![l] = [exists |-> TRUE, active |-> TRUE, up |-> up, default |-> default]]
  /\ UNCHANGED <<category, house, unit, item, held>>

(* Of any location, inactive or not; the settings keep their own default.  *)
UpdatePlace(l, up, default) ==
  /\ Call /\ l \in Existing(place) /\ MayMove(place, l, up)
  /\ place' = [(IF default THEN Undefaulted ELSE place) EXCEPT
       ![l].up = up, ![l].default = default]
  /\ UNCHANGED <<category, house, unit, item, held>>

HoldsStock(l) == \E i \in Items : l \in held[i]

(* The children follow, whatever they hold.                                *)
DeactivatePlace(l) ==
  /\ Call /\ l \in Existing(place) /\ ~HoldsStock(l) /\ ~place[l].default
  /\ place' = [y \in Places |->
       IF y = l \/ y \in Children(place, l)
       THEN [place[y] EXCEPT !.active = FALSE] ELSE place[y]]
  /\ UNCHANGED <<category, house, unit, item, held>>

ActivatePlace(l) ==
  /\ Call /\ MayActivate(place, l)
  /\ place' = [place EXCEPT ![l].active = TRUE]
  /\ UNCHANGED <<category, house, unit, item, held>>

SetDefault(l) ==
  /\ Call /\ l \in Active(place)
  /\ place' = [Undefaulted EXCEPT ![l].default = TRUE]
  /\ house' = l
  /\ UNCHANGED <<category, unit, item, held>>

-----------------------------------------------------------------------------
(* Units, and the items measured in them.                                  *)

BaseUnits == {u \in Active(unit) : unit[u].of = None}

(* One base unit; any unit that was one may be derived from.               *)
CreateUnit(u, of) ==
  /\ Call /\ ~unit[u].exists
  /\ IF of = None THEN BaseUnits = {}
     ELSE of \in Existing(unit) /\ unit[of].of = None
  /\ unit' = [unit EXCEPT ![u] = [exists |-> TRUE, active |-> TRUE, of |-> of]]
  /\ UNCHANGED <<category, place, house, item, held>>

MeasuredIn(u) == {i \in Existing(item) : item[i].unit = u}

(* Inactive items count.                                                   *)
DeactivateUnit(u) ==
  /\ Call /\ u \in Existing(unit) /\ MeasuredIn(u) = {}
  /\ \A d \in Active(unit) : unit[d].of # u
  /\ unit' = [unit EXCEPT ![u].active = FALSE]
  /\ UNCHANGED <<category, place, house, item, held>>

Filing == Active(category) \cup {None}

(* Opening stock goes where the caller or the settings say; without a      *)
(* location it is left out.                                                *)
CreateItem(i, u, g, opening) ==
  /\ Call /\ ~item[i].exists
  /\ u \in Active(unit) /\ g \in Filing
  /\ item' = [item EXCEPT ![i] =
       [exists |-> TRUE, active |-> TRUE, unit |-> u, category |-> g,
        moved |-> opening # None]]
  /\ held' = [held EXCEPT ![i] = {opening} \ {None}]
  /\ UNCHANGED <<category, place, house, unit>>

(* The category an item keeps may have become inactive.                    *)
UpdateItem(i, u, g) ==
  /\ Call /\ i \in Existing(item) /\ g \in Filing \cup {item[i].category}
  /\ u # item[i].unit => u \in Active(unit) /\ ~item[i].moved
  /\ item' = [item EXCEPT ![i].unit = u, ![i].category = g]
  /\ UNCHANGED <<category, place, house, unit, held>>

DeactivateItem(i) ==
  /\ Call /\ i \in Existing(item) /\ held[i] = {}
  /\ item' = [item EXCEPT ![i].active = FALSE]
  /\ UNCHANGED <<category, place, house, unit, held>>

(* The category is not looked at.                                          *)
ActivateItem(i) ==
  /\ Call /\ i \in Existing(item)
  /\ item' = [item EXCEPT ![i].active = TRUE]
  /\ UNCHANGED <<category, place, house, unit, held>>

(* A movement books any item at any location, active or not.               *)
Booked(i, l, some) ==
  /\ Call /\ i \in Existing(item) /\ l \in Existing(place)
  /\ held' = [held EXCEPT ![i] = IF some THEN @ \cup {l} ELSE @ \ {l}]
  /\ item' = [item EXCEPT ![i].moved = TRUE]
  /\ UNCHANGED <<category, place, house, unit>>

-----------------------------------------------------------------------------
CategoryStep ==
  \E g \in Categories :
    \/ \E up \in Categories \cup {None} :
         CreateCategory(g, up) \/ UpdateCategory(g, up)
    \/ \E cascade \in BOOLEAN : DeactivateCategory(g, cascade)
    \/ ActivateCategory(g)

PlaceStep ==
  \E l \in Places :
    \/ \E up \in Places \cup {None}, default \in BOOLEAN :
         CreatePlace(l, up, default) \/ UpdatePlace(l, up, default)
    \/ DeactivatePlace(l) \/ ActivatePlace(l) \/ SetDefault(l)

UnitStep ==
  \E u \in Units :
    \/ \E of \in Units \cup {None} : CreateUnit(u, of)
    \/ DeactivateUnit(u)

ItemStep ==
  \E i \in Items :
    \/ \E u \in Units, g \in Categories \cup {None} :
         \/ UpdateItem(i, u, g)
         \/ \E opening \in Existing(place) \cup {house} : CreateItem(i, u, g, opening)
    \/ DeactivateItem(i) \/ ActivateItem(i)
    \/ \E l \in Places, some \in BOOLEAN : Booked(i, l, some)

CatalogueNext == CategoryStep \/ PlaceStep \/ UnitStep \/ ItemStep

CatalogueSpec == CatalogueInit /\ [][CatalogueNext]_catalogue

-----------------------------------------------------------------------------
(* No set of rows in which every row hangs below another.                  *)
NoCycle(row) ==
  \A X \in SUBSET DOMAIN row :
    X # {} => \E x \in X : row[x].up \notin X

Linked ==
  /\ Cardinality({l \in Places : place[l].default}) <= 1
  /\ Cardinality(BaseUnits) <= 1
  /\ \A i \in Existing(item) : item[i].unit \in Active(unit)

Misfiled(i) == item[i].active /\ item[i].category \notin Filing

Orphan(g) == category[g].active /\ category[g].up \notin Filing

(* Whatever is deactivated, moved or revived, no link of the catalogue is  *)
(* left dangling.  The trees have no cycle, on which _is_descendant would  *)
(* not end; one location at most is the default; every item, active or     *)
(* not, is measured in an active unit, and in the one its movements were   *)
(* booked in (unit_service.py:265, item_service.py:423).  An item comes to *)
(* be active in an inactive category only by its own activation, and a     *)
(* category active under an inactive one only by being moved there         *)
(* (category_service.py:273).                                              *)
CatalogueHolds ==
  [][/\ NoCycle(category)' /\ NoCycle(place)' /\ Linked'
     /\ \A i \in Items :
          /\ item[i].moved => item'[i].unit = item[i].unit
          /\ Misfiled(i)' => Misfiled(i) \/ ~item[i].active
     /\ \A g \in Categories :
          Orphan(g)' => Orphan(g) \/ category'[g].up # category[g].up
    ]_catalogue
=============================================================================
