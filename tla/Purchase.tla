------------------------------ MODULE Purchase ------------------------------
(***************************************************************************)
(* What an order promises the shopper and the shop, without the payment    *)
(* attempts, webhooks, refund requests, carts and parcels that keep the    *)
(* promise.  OrderPayment implements it.                                   *)
(*                                                                         *)
(* A deal has a stage, the money the shop owns up to, whether the goods    *)
(* are set aside for it, and whether an operator was told that the money   *)
(* has no goods.  Every change of one of them is tied to the others here.  *)
(***************************************************************************)
CONSTANT Orders
VARIABLE deals

Deal(stage, money, goods, flagged) ==
    [stage |-> stage, money |-> money, goods |-> goods, flagged |-> flagged]

\* stage: absent, open, going, arrived or closed; money: pending, paid or refunded.
NoDeal == Deal("absent", "pending", FALSE, FALSE)
OpenDeal == Deal("open", "pending", FALSE, FALSE)

Init == deals \in [Orders -> {NoDeal, OpenDeal}]

Becomes(o, deal) == deals' = [deals EXCEPT ![o] = deal]

Place(o) == deals[o] = NoDeal /\ Becomes(o, OpenDeal)

\* Sold for money, or for cash at the door: the goods are set aside in the same step.
Buy(o, money) == deals[o] = OpenDeal /\ Becomes(o, Deal("going", money, TRUE, FALSE))

\* Money without goods is never taken silently.
Owe(o) ==
    LET deal == deals[o]
    IN  /\ deal.stage # "absent" /\ deal.money # "paid" /\ ~deal.goods
        /\ Becomes(o, Deal(deal.stage, "paid", FALSE, TRUE))

\* An operator finds the goods for a flagged order by hand.
Overrule(o) ==
    /\ deals[o] = Deal("open", "paid", FALSE, TRUE)
    /\ Becomes(o, Deal("going", "paid", FALSE, TRUE))

\* Nobody gets a parcel for nothing: what is not paid yet is collected at the door.
\* A cancelled order arrives too if its parcel was on the way.
Arrive(o) ==
    LET deal == deals[o]
    IN  /\ \/ deal.stage \in {"going", "closed"}
           \/ deal = Deal("open", "paid", FALSE, TRUE)
        /\ deal.money = "pending" => deal.goods
        /\ Becomes(o, Deal("arrived", IF deal.money = "refunded" THEN "refunded" ELSE "paid",
                           deal.goods, deal.flagged))

\* Cancelling gives a paid deal's goods back, and leaves a cash deal's where they are.
Cancel(o) ==
    LET deal == deals[o]
    IN  /\ deal.stage \in {"open", "going"}
        /\ Becomes(o, Deal("closed", deal.money, deal.goods /\ deal.money # "paid", deal.flagged))

\* Money goes back only after a cancellation, and only for goods that came back.
Refund(o) ==
    LET deal == deals[o]
    IN  /\ deal.stage \in {"closed", "arrived"} /\ deal.money = "paid" /\ ~deal.goods
        /\ Becomes(o, Deal(deal.stage, "refunded", FALSE, deal.flagged))

Next ==
    \E o \in Orders :
        \/ Place(o)
        \/ \E money \in {"pending", "paid"} : Buy(o, money)
        \/ Owe(o) \/ Overrule(o) \/ Arrive(o) \/ Cancel(o) \/ Refund(o)

Spec == Init /\ [][Next]_deals
=============================================================================
