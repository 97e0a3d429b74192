------------------------------ MODULE MCCounter ------------------------------
(* What belongs to a sale: its fiscal receipt, the tenders that paid it    *)
(* and what was given back of them, and the discounts on it.  A behaviour  *)
(* exercises one of the three.  A receipt meets a fault or a change of the *)
(* settings; of the codes any two are used, and two of them never end and  *)
(* see no day pass.                                                        *)
EXTENDS FiscalReceipts, OrderMoney, Discounts

CONSTANTS s1, s2, pay1, pay2, sweep1, o1, o2, e1

Row(m, n) == [method |-> m, amount |-> n]
Till(till) == [named |-> TRUE, till |-> till]

Checkouts ==
  {Till(<<Row("CASH", 4)>>),
   Till(<<Row("CASH", 2), Row("UZCARD", 1)>>),
   Till(<<Row("UZCARD", 1), Row("CASH", 3)>>),
   Till(<<Row("UZCARD", 2), Row("CASH", 2)>>),
   Till(<<Row("PAYME", 1), Row("CLICK", 2)>>),
   Till(<<Row("CASH", 1), Row("PAYME", 1)>>),
   [named |-> FALSE, till |-> <<Row("UZCARD", 2), Row("CASH", 1)>>]}

AtTheDoor ==
  {{}, {[id |-> "r1", method |-> "UZCARD", amount |-> 1]}, {[id |-> "r1", method |-> "CASH", amount |-> 1]},
   {[id |-> "r1", method |-> "UZCARD", amount |-> 1], [id |-> "r2", method |-> "CASH", amount |-> 1]}}

GivenBack ==
  {[id |-> "e1", method |-> "UZCARD", amount |-> 1], [id |-> "e2", method |-> "CASH", amount |-> 2]}

Line(p, price, n) == [product |-> p, category |-> p, price |-> price, quantity |-> n]
OrderLines == [o \in {o1, o2} |-> IF o = o1 THEN {Line(1, 100, 2), Line(2, 50, 1)} ELSE {Line(2, 50, 2)}]

Plain ==
  [method |-> "FIXED_AMOUNT", value |-> 0, most |-> 0, appliesTo |-> "ORDER", targets |-> {},
   buy |-> 0, get |-> 0, gift |-> 0, stackable |-> TRUE, perUser |-> 0, staffOnly |-> FALSE,
   least |-> 0, from |-> 0, until |-> 1]
Terms ==
  [c \in {"share", "gift", "fixed"} |->
     CASE c = "share" -> [Plain EXCEPT !.method = "PERCENTAGE", !.value = 80, !.perUser = 1, !.until = 0]
       [] c = "gift" -> [Plain EXCEPT !.method = "BUY_X_GET_Y", !.buy = 1, !.get = 1, !.perUser = 1]
       [] c = "fixed" -> [Plain EXCEPT !.value = 120, !.stackable = FALSE, !.least = 101]]

VARIABLE part

mcvars == <<vars, moneyVars, discountVars, part>>

(* Of the payments every content is an initial state, once.                *)
MCInit ==
  /\ Init /\ MoneyInit /\ DiscountInit /\ part \in {"receipt", "money"} \cup DOMAIN Terms
  /\ part # "money" => /\ \A a \in Actions : plan[a] = Till(<<Row("CASH", 4)>>)
                       /\ round = {}
  /\ <<mode, obscure>> \in IF part = "receipt" THEN {<<"live", Unsettled>>, <<"mock", {}>>}
                           ELSE {<<"off", {}>>}

MCNext ==
  \/ /\ part = "receipt" /\ Next /\ faults' + flips' <= 1
     /\ UNCHANGED <<moneyVars, discountVars, part>>
  \/ part = "money" /\ MoneyNext /\ UNCHANGED <<vars, discountVars, part>>
  \/ /\ part \in Coupons /\ DiscountNext /\ coupon'[part].state = "none"
     /\ part # "share" => today' = 0
     /\ UNCHANGED <<vars, moneyVars, part>>

MCSpec == MCInit /\ [][MCNext]_mcvars

Reports(A) == part = "receipt" /\ A /\ UNCHANGED <<moneyVars, discountVars, part>>

MCFairSpec ==
  /\ MCSpec
  /\ \A w \in Workers : WF_<<vars, part>>(Reports(Step(w)))
  /\ \A w \in Sweepers : WF_<<vars, part>>(Reports(SweepStep(w)))
  /\ \A s \in Sales : WF_<<vars, part>>(Reports(Ages(s)))

=============================================================================
