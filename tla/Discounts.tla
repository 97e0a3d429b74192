------------------------------ MODULE Discounts ------------------------------
(***************************************************************************)
(* Discount codes and the orders they are applied to                       *)
(* (discount_service.py).  Applying and removing lock the order and then   *)
(* the code, so that each is one step; what they may disturb is the        *)
(* agreement of the code's counter, the rows of its use and the totals of  *)
(* several orders.  An edit of a code locks nothing: it reads the row, and *)
(* later saves all of it.                                                  *)
(***************************************************************************)
EXTENDS Integers, FiniteSets, Functions

CONSTANTS
  Baskets,   \* Baskets[o]: the lines of order o, [product, category, price, quantity]
  Staff,     \* orders of customers who are staff
  Codes,     \* Codes[c]: the terms of code c, which an edit does not change here
  Limits,    \* usage limits an edit may set; 0 is none
  Users,     \* who applies a code
  Editors,   \* who edits codes
  MostOutdated, \* bound: codes whose counter edits put back before no more begin
  Days       \* 0..Days is the time that passes

Sold == DOMAIN Baskets
Coupons == DOMAIN Codes

ASSUME DiscountAssumption ==
  /\ \A o \in Sold : IsFiniteSet(Baskets[o]) /\ \A i \in Baskets[o] : {i.price, i.quantity} \subseteq Nat
  /\ \A c \in Coupons : {Codes[c].value, Codes[c].most, Codes[c].buy, Codes[c].get, Codes[c].perUser} \subseteq Nat
  /\ Limits \subseteq Nat
  /\ \A c \in Coupons : Codes[c].method \in
       {"PERCENTAGE", "FIXED_AMOUNT", "BUY_X_GET_Y", "FREE_ITEM", "SECRET_WORD", "CUSTOM"}
  /\ {Days, MostOutdated} \subseteq Nat

VARIABLES
  coupon,    \* coupon[c]: [state, active, limit, count]
  applied,   \* OrderDiscount rows: [order, code, user, amount]
  sale,      \* sale[o]: [status, paid, discount, total]
  editing,   \* editing[e]: the code that e edits, and its row as it was read
  outdated,  \* codes of which an edit has put an earlier counter back
  today

edits == <<editing, outdated>>
discountVars == <<coupon, applied, sale, edits, today>>

NoEdit == [code |-> "none"]

Smaller(a, b) == IF a <= b THEN a ELSE b
AtLeastZero(n) == IF n > 0 THEN n ELSE 0

SumOf(S) == SumFunctionOnSet([i \in S |-> i.price * i.quantity], S)
Units(S) == SumFunctionOnSet([i \in S |-> i.quantity], S)
Subtotal(o) == SumOf(Baskets[o])
Given(o) == {a \in applied : a.order = o}
Uses(c) == {a \in applied : a.code = c}
Taken(S) == SumFunctionOnSet([a \in S |-> a.amount], S)

DiscountInit ==
  /\ coupon = [c \in Coupons |-> [state |-> "none", active |-> TRUE, limit |-> 0, count |-> 0]]
  /\ applied = {} /\ today = 0
  /\ editing = [e \in Editors |-> NoEdit] /\ outdated = {}
  /\ sale = [o \in Sold |-> [status |-> "OPEN", paid |-> FALSE, discount |-> 0,
                             total |-> Subtotal(o)]]

-----------------------------------------------------------------------------
(* What a code is worth on an order.                                       *)

Applicable(c, o) ==
  LET k == Codes[c]
  IN CASE k.appliesTo = "SPECIFIC_PRODUCTS" -> {i \in Baskets[o] : i.product \in k.targets}
       [] k.appliesTo = "SPECIFIC_CATEGORIES" -> {i \in Baskets[o] : i.category \in k.targets}
       [] OTHER -> Baskets[o]

Percent(k, sum) ==
  LET part == (sum * k.value) \div 100
  IN IF k.most = 0 THEN part ELSE Smaller(part, k.most)

(* The free units are the cheapest ones.                                   *)
Free(k, S) ==
  LET free == IF Units(S) < k.buy THEN 0 ELSE (Units(S) \div (k.buy + k.get)) * k.get
      Cheaper(i) == {j \in S : j.price < i.price \/ (j.price = i.price /\ j.product < i.product)}
      Off(i) == i.price * Smaller(AtLeastZero(free - Units(Cheaper(i))), i.quantity)
  IN SumFunctionOnSet([i \in S |-> Off(i)], S)

Rule(c, o) ==
  LET k == Codes[c]
      S == Applicable(c, o)
      gifts == {i \in Baskets[o] : i.product = k.gift}
  IN CASE k.method \in {"PERCENTAGE", "CUSTOM"} -> Percent(k, SumOf(S))
       [] k.method = "FIXED_AMOUNT" -> Smaller(k.value, SumOf(S))
       [] k.method = "SECRET_WORD" -> IF k.value \in 1..100 THEN Percent(k, SumOf(S))
                                      ELSE Smaller(k.value, SumOf(S))
       [] k.method = "BUY_X_GET_Y" -> IF k.buy > 0 THEN Free(k, S) ELSE 0
       [] OTHER -> IF gifts = {} THEN 0 ELSE (CHOOSE i \in gifts : TRUE).price

(* No rule gives more than its own lines are worth, nor, with those        *)
(* already given, more than the order is.                                  *)
CalculateDiscount(c, o) ==
  Smaller(Smaller(Rule(c, o), SumOf(Applicable(c, o))),
          AtLeastZero(Subtotal(o) - Taken(Given(o))))

-----------------------------------------------------------------------------
(* The codes.                                                              *)

CreateCoupon(c) ==
  /\ coupon[c].state = "none"
  /\ \E n \in Limits : coupon' = [coupon EXCEPT ![c].state = "live", ![c].limit = n]
  /\ UNCHANGED <<applied, sale, edits, today>>

LookToUpdate(e, c) ==
  /\ editing[e] = NoEdit /\ coupon[c].state = "live"
  /\ Cardinality(outdated) < MostOutdated
  /\ editing' = [editing EXCEPT ![e] = [code |-> c, row |-> coupon[c]]]
  /\ UNCHANGED <<coupon, applied, sale, outdated, today>>

(* The row is saved as it was read, but for the limit: the counter, too,   *)
(* goes back to what it was.                                               *)
UpdateCoupon(e) ==
  /\ editing[e] # NoEdit
  /\ LET c == editing[e].code
         row == editing[e].row
     IN /\ \E n \in Limits : coupon' = [coupon EXCEPT ![c] = [row EXCEPT !.limit = n]]
        /\ outdated' = IF row.count = coupon[c].count THEN outdated ELSE outdated \cup {c}
  /\ editing' = [editing EXCEPT ![e] = NoEdit]
  /\ UNCHANGED <<applied, sale, today>>

ToggleCoupon(c) ==
  /\ coupon[c].state = "live"
  /\ coupon' = [coupon EXCEPT ![c].active = ~@]
  /\ UNCHANGED <<applied, sale, edits, today>>

DeleteCoupon(c) ==
  /\ coupon[c].state = "live"
  /\ coupon' = [coupon EXCEPT ![c].state = "deleted"]
  /\ UNCHANGED <<applied, sale, edits, today>>

-----------------------------------------------------------------------------
(* The orders.                                                             *)

(* _validate_eligibility, on the locked code.                              *)
Eligible(c, o, u) ==
  LET k == Codes[c]
      d == coupon[c]
  IN /\ d.state = "live" /\ d.active
     /\ k.from <= today /\ today <= k.until
     /\ d.limit # 0 => d.count < d.limit
     /\ k.perUser # 0 =>
          Cardinality({a \in Uses(c) : a.user = u}) < k.perUser
     /\ k.least <= Subtotal(o)

Combines(c, o) ==
  /\ Given(o) \cap Uses(c) = {}
  /\ Codes[c].stackable \/ Given(o) = {}
  /\ \A a \in Given(o) : Codes[a.code].stackable

Retotaled(o, rows) ==
  LET given == Taken({a \in rows : a.order = o})
  IN [sale EXCEPT ![o] = [@ EXCEPT !.discount = given, !.total = AtLeastZero(Subtotal(o) - given)]]

(* Also by its secret word, which names the code.                          *)
ApplyToOrder(c, o, u) ==
  LET worth == CalculateDiscount(c, o)
      row == [order |-> o, code |-> c, user |-> u, amount |-> worth]
  IN /\ ~sale[o].paid /\ sale[o].status # "CANCELED"
     /\ Eligible(c, o, u)
     /\ Codes[c].staffOnly => o \in Staff
     /\ Combines(c, o)
     /\ worth > 0
     /\ applied' = applied \cup {row}
     /\ coupon' = [coupon EXCEPT ![c].count = @ + 1]
     /\ sale' = Retotaled(o, applied')
     /\ UNCHANGED <<edits, today>>

(* Mutant: the use of a removed code is not given back.                    *)
RemoveAndForget(a) ==
  /\ ~sale[a.order].paid
  /\ applied' = applied \ {a}
  /\ sale' = Retotaled(a.order, applied')
  /\ UNCHANGED <<coupon, edits, today>>

(* The use is given back, whoever removes the code.                        *)
RemoveFromOrder(a) ==
  /\ ~sale[a.order].paid
  /\ applied' = applied \ {a}
  /\ coupon' = [coupon EXCEPT ![a.code].count = AtLeastZero(@ - 1)]
  /\ sale' = Retotaled(a.order, applied')
  /\ UNCHANGED <<edits, today>>

(* Payment and cancellation belong to the editions.                        *)
PaySale(o) ==
  /\ ~sale[o].paid /\ sale[o].status = "OPEN"
  /\ sale' = [sale EXCEPT ![o].paid = TRUE]
  /\ UNCHANGED <<coupon, applied, edits, today>>

CancelSale(o) ==
  /\ sale[o].status = "OPEN"
  /\ sale' = [sale EXCEPT ![o].status = "CANCELED"]
  /\ UNCHANGED <<coupon, applied, edits, today>>

PassDay == today < Days /\ today' = today + 1 /\ UNCHANGED <<coupon, applied, sale, edits>>

DiscountNext ==
  \/ \E c \in Coupons :
       \/ CreateCoupon(c) \/ ToggleCoupon(c) \/ DeleteCoupon(c)
       \/ \E e \in Editors : LookToUpdate(e, c)
       \/ \E o \in Sold, u \in Users : ApplyToOrder(c, o, u)
  \/ \E e \in Editors : UpdateCoupon(e)
  \/ \E a \in applied : RemoveFromOrder(a)
  \/ \E o \in Sold : PaySale(o) \/ CancelSale(o)
  \/ PassDay

DiscountSpec == DiscountInit /\ [][DiscountNext]_discountVars

-----------------------------------------------------------------------------
(* Properties.                                                             *)

Counted ==
  /\ \A c \in Coupons :
       /\ c \notin outdated => coupon[c].count = Cardinality(Uses(c))
       /\ Codes[c].perUser # 0 => \A u \in Users :
            Cardinality({a \in Uses(c) : a.user = u}) <= Codes[c].perUser
  /\ \A o \in Sold :
       /\ sale[o].total = Subtotal(o) - Taken(Given(o))
       /\ sale[o].total >= 0
       /\ \A a, b \in Given(o) : a # b => Codes[a.code].stackable

WithinLimits ==
  /\ \A o \in Sold : sale[o].paid => sale'[o].total = sale[o].total
  /\ \A c \in Coupons \ outdated' : coupon'[c].count > coupon[c].count =>
       coupon[c].limit = 0 \/ coupon'[c].count <= coupon[c].limit

(* Codes are used within their terms although several orders share them:   *)
(* the counter is the number of live uses and only grows up to the limit,  *)
(* also when the limit was lowered meanwhile, unless an edit has put back  *)
(* a counter that a use or a removal had changed since it was read         *)
(* (discount_service.py:221, 254); nobody exceeds their own allowance; the *)
(* codes of an order never give more than it is worth, its total is what   *)
(* they leave of it, and stays what it was when paid ("stacked discounts   *)
(* can't sum past the order subtotal", discount_service.py:496).           *)
UsesAreCounted == [][<<coupon, sale>>' # <<coupon, sale>> => Counted' /\ WithinLimits]_discountVars
=============================================================================
