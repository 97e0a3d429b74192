------------------------------ MODULE Customers ------------------------------
(***************************************************************************)
(* What a customer has at the shop beside the sale itself: the stamps of   *)
(* the loyalty scheme (loyalty_service.py), and the cart of the bot that   *)
(* becomes an order (cart_service.py, telegram_bot.py), next to the orders *)
(* that are placed by the QR code of a table (qr_order_service.py).        *)
(***************************************************************************)
EXTENDS Integers, Sequences, FiniteSetsExt

CONSTANTS
  Guests,       \* phone numbers, each with one chat
  Anonymous,    \* those whose chat has not told its number
  Meals,        \* orders that may earn stamps
  GuestOf,      \* GuestOf[m]: whose number the order m carries
  Schemes,      \* values of LoyaltySettings: [enabled, perOrder, perReward]
  Tills,        \* processes that run the accrual hook or redeem
  MaxRewards,   \* bound: rewards redeemed
  Updates,      \* Updates[u]: what a tap asks for, [guest, kind, product, quantity]
  Bots,         \* processes that handle updates
  MaxTries,     \* bound: deliveries, of one update or of several
  Products, Prices,
  PerLine,      \* MAX_QUANTITY_PER_LINE
  PerOrder,     \* MAX_ITEMS_PER_ORDER
  WrapAt,       \* DISPLAY_ID_WRAP_AT
  MaxTables     \* bound: orders by QR code

ASSUME CustomerAssumption ==
  /\ Anonymous \subseteq Guests /\ GuestOf \in [Meals -> Guests]
  /\ \A r \in Schemes : r.perOrder \in Nat \ {0} /\ r.perReward \in Nat \ {0}
  /\ Updates \in Seq([guest : Guests, kind : {"add", "dec", "rm", "clear", "checkout"},
                      product : Products, quantity : Nat \ {0}])
  /\ Prices \subseteq Nat
  /\ {PerLine, PerOrder, WrapAt} \subseteq Nat \ {0}
  /\ {MaxRewards, MaxTries, MaxTables} \subseteq Nat

VARIABLES
  scheme,    \* the LoyaltySettings row, and what the cache holds of it
  meal,      \* meal[m]: [done, refunded]
  account,   \* account[g]: [balance, earned, redeemed]
  credits,   \* OrderLoyaltyCredit: [meal, stamps]
  rewards,   \* LoyaltyRedemption: [guest, spent], in order
  till,      \* till[t]: the call a till is in
  carts,     \* the carts: [guest, active, lines]
  placed,    \* the orders: [cart, lines, total, display, torn], cart 0 by QR
  seen,      \* updates the cache has marked
  tries,     \* deliveries so far
  bot        \* bot[b]: the update process b is handling

stampVars == <<scheme, meal, account, credits, rewards, till>>
cartVars == <<carts, placed, seen, tries, bot>>

Resting == [step |-> "idle"]

StampInit ==
  /\ \E r \in Schemes : scheme = [stored |-> r, cached |-> r]
  /\ meal = [m \in Meals |-> [done |-> FALSE, refunded |-> FALSE]]
  /\ account = [g \in Guests |-> [balance |-> 0, earned |-> 0, redeemed |-> 0]]
  /\ credits = {} /\ rewards = <<>>
  /\ till = [t \in Tills |-> Resting]

CartInit ==
  /\ carts = <<>> /\ placed = <<>> /\ seen = {}
  /\ tries = 0
  /\ bot = [b \in Bots |-> Resting]

-----------------------------------------------------------------------------
(* Stamps.                                                                 *)

(* The settings are saved; a reader that had missed the cache before may   *)
(* fill it with what it read.                                              *)
SaveScheme(r) ==
  /\ r # scheme.stored
  /\ \E c \in {r, scheme.stored} : scheme' = [stored |-> r, cached |-> c]
  /\ UNCHANGED <<meal, account, credits, rewards, till>>

(* The cache expires after a minute.                                       *)
ForgetScheme ==
  /\ scheme.cached # scheme.stored
  /\ scheme' = [scheme EXCEPT !.cached = scheme.stored]
  /\ UNCHANGED <<meal, account, credits, rewards, till>>

(* An order is completed and paid, and may be refunded.                    *)
ServeMeal(m) ==
  /\ ~meal[m].done
  /\ meal' = [meal EXCEPT ![m].done = TRUE]
  /\ UNCHANGED <<scheme, account, credits, rewards, till>>

RefundMeal(m) ==
  /\ meal[m].done /\ ~meal[m].refunded
  /\ meal' = [meal EXCEPT ![m].refunded = TRUE]
  /\ UNCHANGED <<scheme, account, credits, rewards, till>>

(* maybe_accrue is called from both of two transitions, and looks at the   *)
(* settings first.                                                         *)
CallAccrual(t, m) ==
  /\ till[t] = Resting /\ scheme.cached.enabled /\ meal[m].done
  /\ till' = [till EXCEPT ![t] = [step |-> "accrue", meal |-> m, stamps |-> scheme.cached.perOrder]]
  /\ UNCHANGED <<scheme, meal, account, credits, rewards>>

Credited(m) == \E c \in credits : c.meal = m

(* The order is locked, its row of credit is unique, and the balance is    *)
(* moved by an increment in SQL.                                           *)
Accrue(t) ==
  /\ till[t].step = "accrue"
  /\ till' = [till EXCEPT ![t] = Resting]
  /\ LET m == till[t].meal
         n == till[t].stamps
     IN IF meal[m].refunded \/ Credited(m) THEN UNCHANGED <<account, credits>>
        ELSE /\ credits' = credits \cup {[meal |-> m, stamps |-> n]}
             /\ account' = [account EXCEPT ![GuestOf[m]].balance = @ + n,
                                           ![GuestOf[m]].earned = @ + n]
  /\ UNCHANGED <<scheme, meal, rewards>>

CallRedeem(t, g) ==
  /\ till[t] = Resting /\ scheme.cached.enabled /\ Len(rewards) < MaxRewards
  /\ till' = [till EXCEPT ![t] = [step |-> "redeem", guest |-> g, cost |-> scheme.cached.perReward]]
  /\ UNCHANGED <<scheme, meal, account, credits, rewards>>

(* The account is locked, then read.                                       *)
Redeem(t) ==
  /\ till[t].step = "redeem"
  /\ till' = [till EXCEPT ![t] = Resting]
  /\ LET g == till[t].guest
         cost == till[t].cost
     IN IF account[g].balance < cost THEN UNCHANGED <<account, rewards>>
        ELSE /\ account' = [account EXCEPT ![g].balance = @ - cost, ![g].redeemed = @ + cost]
             /\ rewards' = Append(rewards, [guest |-> g, spent |-> cost])
  /\ UNCHANGED <<scheme, meal, credits>>

StampNext ==
  \/ \E r \in Schemes : SaveScheme(r)
  \/ ForgetScheme
  \/ \E m \in Meals : ServeMeal(m) \/ RefundMeal(m)
  \/ \E t \in Tills :
       \/ Accrue(t) \/ Redeem(t)
       \/ \E m \in Meals : CallAccrual(t, m)
       \/ \E g \in Guests : CallRedeem(t, g)

-----------------------------------------------------------------------------
(* Carts.                                                                  *)

Asked(b) == Updates[bot[b].update]
Does(b, step, kind) == bot[b].step = step /\ Asked(b).kind = kind
Rests(b) == bot' = [bot EXCEPT ![b] = Resting]

(* Telegram delivers an update again when it is not acknowledged in time;  *)
(* the cache marks it at its first delivery.  A product is read at once.   *)
Unseen(u) == u \notin seen

(* What a product costs, or that it is deleted, changes at any time; only  *)
(* an addition asks for it.                                                *)
Gone == 0
Menu(u) == IF Updates[u].kind = "add" THEN Prices \cup {Gone} ELSE {1}

TakeUpdate(b, u) ==
  /\ bot[b] = Resting /\ tries < MaxTries
  /\ tries' = tries + 1
  /\ seen' = seen \cup {u}
  /\ \E price \in Menu(u) :
       bot' = IF Unseen(u) /\ price # Gone
              THEN [bot EXCEPT ![b] = [step |-> "find", update |-> u, price |-> price]]
              ELSE bot
  /\ UNCHANGED <<carts, placed>>

Active(g) == {k \in DOMAIN carts : carts[k].guest = g /\ carts[k].active}

(* get_or_create_active_cart: a constraint lets one of two creations win.  *)
FindCart(b) ==
  /\ bot[b].step = "find"
  /\ LET g == Asked(b).guest
         own == Active(g)
     IN /\ carts' = IF own # {} THEN carts
                    ELSE Append(carts, [guest |-> g, active |-> TRUE, lines |-> {}])
        /\ bot' = [bot EXCEPT ![b] =
             [step |-> "found", update |-> @.update, price |-> @.price,
              cart |-> IF own = {} THEN Len(carts) + 1 ELSE CHOOSE k \in own : TRUE]]
  /\ UNCHANGED <<placed, seen, tries>>

Lines(b) == carts[bot[b].cart].lines
OfProduct(b) == {l \in Lines(b) : l.product = Asked(b).product}
Capped(n) == IF n <= PerLine THEN n ELSE PerLine
Writes(b, lines) == carts' = [carts EXCEPT ![bot[b].cart].lines = lines]

(* The row of a product is locked, whether it is there or inserted.        *)
BumpLine(b) ==
  LET Bumped(l) == [l EXCEPT !.quantity = Capped(@ + Asked(b).quantity)]
  IN /\ OfProduct(b) # {}
     /\ Writes(b, (Lines(b) \ OfProduct(b)) \cup {Bumped(l) : l \in OfProduct(b)})
     /\ Rests(b)

(* Those who insert rows of different products do not see each other, and  *)
(* count without one another.                                              *)
CountLines(b) ==
  /\ Does(b, "found", "add")
  /\ \/ BumpLine(b)
     \/ /\ OfProduct(b) = {} /\ UNCHANGED carts
        /\ bot' = [bot EXCEPT ![b] =
             IF Cardinality(Lines(b)) + 1 > PerOrder THEN Resting
             ELSE [@ EXCEPT !.step = "insert"]]
  /\ UNCHANGED <<placed, seen, tries>>

InsertLine(b) ==
  /\ Does(b, "insert", "add")
  /\ \/ BumpLine(b)
     \/ /\ OfProduct(b) = {}
        /\ Writes(b, Lines(b) \cup
             {[product |-> Asked(b).product, by |-> bot[b].update, price |-> bot[b].price,
               quantity |-> Capped(Asked(b).quantity)]})
        /\ Rests(b)
  /\ UNCHANGED <<placed, seen, tries>>

RemoveLine(b) ==
  /\ Does(b, "found", "rm")
  /\ Writes(b, Lines(b) \ OfProduct(b))
  /\ Rests(b)
  /\ UNCHANGED <<placed, seen, tries>>

ClearCart(b) ==
  /\ Does(b, "found", "clear")
  /\ Writes(b, {})
  /\ Rests(b)
  /\ UNCHANGED <<placed, seen, tries>>

(* Taking one off reads the row without a lock ...                         *)
ReadLine(b) ==
  /\ Does(b, "found", "dec")
  /\ bot' = IF OfProduct(b) = {} THEN [bot EXCEPT ![b] = Resting]
            ELSE LET l == CHOOSE l \in OfProduct(b) : TRUE
                 IN [bot EXCEPT ![b] = [step |-> "read", update |-> @.update, cart |-> @.cart,
                                        by |-> l.by, quantity |-> l.quantity]]
  /\ UNCHANGED <<carts, placed, seen, tries>>

(* ... and deletes it or writes what it read less one, if it is there.     *)
WriteLine(b) ==
  /\ bot[b].step = "read"
  /\ LET same == {l \in Lines(b) : l.by = bot[b].by}
         less == bot[b].quantity - 1
     IN Writes(b, (Lines(b) \ same) \cup
          (IF less = 0 THEN {} ELSE {[l EXCEPT !.quantity = less] : l \in same}))
  /\ Rests(b)
  /\ UNCHANGED <<placed, seen, tries>>

-----------------------------------------------------------------------------
(* checkout.                                                               *)

CartLocked(k) == \E b \in Bots : bot[b].step = "checkout" /\ bot[b].cart = k

(* Mutant: the status that was found is not read again under the lock.     *)
RefusedAsFound(b) ==
  LET k == bot[b].cart
  IN carts[k].lines = {} \/ carts[k].guest \in Anonymous

(* The lock of the cart is taken, its status read again, then its rows.    *)
Refused(b) ==
  LET k == bot[b].cart
  IN ~carts[k].active \/ carts[k].lines = {} \/ carts[k].guest \in Anonymous

LockCart(b) ==
  /\ Does(b, "found", "checkout") /\ ~CartLocked(bot[b].cart)
  /\ bot' = [bot EXCEPT ![b] =
       IF Refused(b) THEN Resting
       ELSE [step |-> "checkout", update |-> @.update, cart |-> @.cart, lines |-> Lines(b)]]
  /\ UNCHANGED <<carts, placed, seen, tries>>

Worth(lines) == SumFunctionOnSet([l \in lines |-> l.price * l.quantity], lines)

(* next_display_id, whose counter stays locked until the order commits.    *)
NextDisplay == (Len(placed) % WrapAt) + 1

(* The total comes from a second reading of the rows, which nothing locks. *)
PlaceOrder(b) ==
  /\ bot[b].step = "checkout"
  /\ placed' = Append(placed,
       [cart |-> bot[b].cart, lines |-> bot[b].lines, total |-> Worth(Lines(b)),
        display |-> NextDisplay, torn |-> Lines(b) # bot[b].lines])
  /\ carts' = [carts EXCEPT ![bot[b].cart].active = FALSE]
  /\ Rests(b)
  /\ UNCHANGED <<seen, tries>>

(* A process that dies loses the update it has acknowledged.               *)
LoseUpdate(b) ==
  /\ bot[b] # Resting
  /\ Rests(b)
  /\ UNCHANGED <<carts, placed, seen, tries>>

PlaceQrOrder(p, n, price) ==
  /\ Cardinality({i \in DOMAIN placed : placed[i].cart = 0}) < MaxTables
  /\ LET line == [product |-> p, by |-> 0, price |-> price, quantity |-> n]
     IN placed' = Append(placed,
          [cart |-> 0, lines |-> {line}, total |-> Worth({line}),
           display |-> NextDisplay, torn |-> FALSE])
  /\ UNCHANGED <<carts, seen, tries, bot>>

CartNext ==
  \/ \E p \in Products, n \in 1..PerLine, price \in Prices : PlaceQrOrder(p, n, price)
  \/ \E b \in Bots :
       \/ \E u \in DOMAIN Updates : TakeUpdate(b, u)
       \/ FindCart(b) \/ CountLines(b) \/ InsertLine(b) \/ RemoveLine(b) \/ ClearCart(b)
       \/ ReadLine(b) \/ WriteLine(b) \/ LockCart(b) \/ PlaceOrder(b) \/ LoseUpdate(b)

CustomerNext ==
  \/ StampNext /\ UNCHANGED cartVars
  \/ CartNext /\ UNCHANGED stampVars

CustomerSpec == StampInit /\ CartInit /\ [][CustomerNext]_<<stampVars, cartVars>>

-----------------------------------------------------------------------------
(* Properties.                                                             *)

Stamps(g) ==
  SumFunctionOnSet([c \in credits |-> c.stamps], {c \in credits : GuestOf[c.meal] = g})
Spent(g) ==
  SumFunctionOnSet([i \in DOMAIN rewards |-> rewards[i].spent],
                   {i \in DOMAIN rewards : rewards[i].guest = g})

StampsAgree ==
  /\ \A g \in Guests :
       /\ account[g].earned = Stamps(g) /\ account[g].redeemed = Spent(g)
       /\ account[g].balance = Stamps(g) - Spent(g)
       /\ account[g].balance >= 0
  /\ \A c, d \in credits : c.meal = d.meal => c = d

(* How much of a product the updates that came asked for, and the carts of *)
(* a guest ever held.                                                      *)
Asking == [u \in DOMAIN Updates |-> Updates[u].quantity]
Wanted(g, p) ==
  SumFunctionOnSet(Asking,
    {u \in seen : Updates[u].guest = g /\ Updates[u].kind = "add" /\ Updates[u].product = p})
OfCart(k, p) ==
  SumFunctionOnSet([l \in carts[k].lines |-> IF l.product = p THEN l.quantity ELSE 0], carts[k].lines)
Held(g, p) ==
  SumFunctionOnSet([k \in DOMAIN carts |-> OfCart(k, p)], {k \in DOMAIN carts : carts[k].guest = g})

CartOrderedOnce ==
  /\ \A k \in DOMAIN carts :
       Cardinality({i \in DOMAIN placed : placed[i].cart = k}) = IF carts[k].active THEN 0 ELSE 1
  /\ \A g \in Guests :
       /\ Cardinality(Active(g)) <= 1
       /\ \A p \in Products : Held(g, p) <= Wanted(g, p)
  /\ \A i \in DOMAIN placed :
       /\ placed[i].lines # {} /\ \A l \in placed[i].lines : l.quantity \in 1..PerLine
       /\ placed[i].torn \/ placed[i].total = Worth(placed[i].lines)

(* Nothing a customer does counts twice.  Whatever tills accrue and redeem *)
(* at once, and however the settings change, a balance is what credited    *)
(* orders gave less what rewards took, and no order gives twice ("we must  *)
(* not double-credit", loyalty_service.py:14).  However often updates are  *)
(* delivered and buttons tapped, no tap counts twice (telegram_bot.py:65), *)
(* a cart becomes one order ("would otherwise both read the same ACTIVE    *)
(* cart", cart_service.py:148), which costs what its lines were quoted     *)
(* unless the cart was changed under its checkout.                         *)
NothingTwice == StampsAgree /\ CartOrderedOnce
=============================================================================
