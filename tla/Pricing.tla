------------------------------- MODULE Pricing -------------------------------
(***************************************************************************)
(* What an order costs and how it may be paid: the checkout preview        *)
(* (CheckoutModels), the price of an order (OrderModels), the Pay Online   *)
(* discount and its setting, and the gates of the payment methods.         *)
(*                                                                         *)
(* Coupons discount no new order (order.service.ts:832,                    *)
(* checkout.service.ts:60) and shipping is free, so neither is in the sum. *)
(* A line is its position in the cart, with its amount (unit price times   *)
(* quantity) and its product's payment methods; amounts are in paise.      *)
(***************************************************************************)
EXTENDS Naturals, FiniteSetsExt

CONSTANTS Carts,      \* carts: [amount, eligibility], two functions of 1..Lines
          Lines,
          Settings,   \* values an administrator may store
          MinPayable  \* MIN_PREPAID_PAYABLE_PAISE = MIN_ONLINE_PAYABLE_MERCHANDISE_PAISE

VARIABLES cart, setting,
          shown,   \* the preview on the customer's screen, forgotten when the setting changes
          order,   \* the order of the cart, still pending
          attempt  \* the method of its payment

vars == <<cart, setting, shown, order, attempt>>

None == [missing |-> TRUE]
Methods == {"payu", "cod"}
Disabled == [enabled |-> FALSE, type |-> "percentage", value |-> 0]
Malformed == [unreadable |-> TRUE]
Whole == 10000 \* basis points

Smaller(a, b) == Min({a, b})
Minus(a, b) == IF a > b THEN a - b ELSE 0
Total(amounts) == MapThenSumSet(LAMBDA l : amounts[l], 1..Lines)

-----------------------------------------------------------------------------
(* The Pay Online discount                                                 *)

\* A row that cannot be read is no discount.
GetPayOnlineDiscountConfig == IF setting = Malformed THEN Disabled ELSE setting

IsPrepaidPaymentMethod(method) == method = "payu"

CalculateGlobalOnlinePaymentDiscount(amount, method, config) ==
    LET discount == IF config.type = "percentage" THEN (amount * Smaller(config.value, Whole)) \div Whole
                    ELSE config.value
    IN  IF ~config.enabled \/ ~IsPrepaidPaymentMethod(method) \/ amount <= 0 \/ config.value <= 0 THEN 0
        ELSE Smaller(discount, Minus(amount, MinPayable))

\* Floored shares, then what is left goes to the lines that have room, the last one first.
Shares(amounts, discount) ==
    [l \in 1..Lines |-> IF Total(amounts) = 0 THEN 0
                        ELSE (Smaller(discount, Total(amounts)) * amounts[l]) \div Total(amounts)]
AllocateToLastLine(amounts, discount) == \* mutant: all that is left goes to the last line
    LET shares == Shares(amounts, discount)
    IN  [shares EXCEPT ![Lines] = @ + Minus(Smaller(discount, Total(amounts)), Total(shares))]
RoomAfter(l, amounts, shares) == MapThenSumSet(LAMBDA k : amounts[k] - shares[k], (l + 1)..Lines)
AllocateOnlinePaymentDiscountAcrossLines(amounts, discount) ==
    LET shares == Shares(amounts, discount)
        left == Minus(Smaller(discount, Total(amounts)), Total(shares))
    IN  [l \in 1..Lines |->
            shares[l] + Smaller(amounts[l] - shares[l], Minus(left, RoomAfter(l, amounts, shares)))]

IsBelowPrepaidMinimum(method, total) == IsPrepaidPaymentMethod(method) /\ total < MinPayable

-----------------------------------------------------------------------------
(* Payment methods a product allows                                        *)

MethodsAllowedBy(eligibility) == IF eligibility = "both" THEN Methods ELSE {eligibility}

\* No method left is a conflict.
ResolveCartPaymentMethods(eligibility) ==
    {m \in Methods : \A l \in 1..Lines : m \in MethodsAllowedBy(eligibility[l])}

-----------------------------------------------------------------------------
(* Preview and order                                                       *)

\* "unset" is a client that sends no method.
PayableTotal(method) ==
    Total(cart.amount) - CalculateGlobalOnlinePaymentDiscount(Total(cart.amount), method, GetPayOnlineDiscountConfig)

\* The saving offered for the other method; 0 offers nothing.
ToPaymentMethodOffer(method, other) ==
    IF other \in ResolveCartPaymentMethods(cart.eligibility) /\ ~IsBelowPrepaidMinimum(other, PayableTotal(other))
    THEN Minus(PayableTotal(method), PayableTotal(other)) ELSE 0

Preview(method) ==
    /\ order = None
    /\ shown' = [method |-> method, payable |-> PayableTotal(method),
                 offer |-> [other \in Methods \ {method} |->
                                IF method = "unset" THEN 0 ELSE ToPaymentMethodOffer(method, other)],
                 ready |-> /\ method \in ResolveCartPaymentMethods(cart.eligibility)
                           /\ ~IsBelowPrepaidMinimum(method, PayableTotal(method))]
    /\ UNCHANGED <<cart, setting, order, attempt>>

\* The setting is read again; a conflict, a method the products exclude and a total below
\* the floor are refused.  The order keeps the preview it can be compared with.
CreateOrder(method) ==
    LET discount == CalculateGlobalOnlinePaymentDiscount(Total(cart.amount), method, GetPayOnlineDiscountConfig)
        allowed == ResolveCartPaymentMethods(cart.eligibility)
    IN  /\ order = None
        /\ allowed # {}
        /\ method # "unset" => method \in allowed
        /\ ~IsBelowPrepaidMinimum(method, Total(cart.amount) - discount)
        /\ order' = [method |-> method, total |-> Total(cart.amount) - discount, discount |-> discount,
                     amount |-> cart.amount,
                     allocated |-> AllocateOnlinePaymentDiscountAcrossLines(cart.amount, discount),
                     eligibility |-> cart.eligibility, preview |-> shown]
        /\ UNCHANGED <<cart, setting, shown, attempt>>

\* An administrator stores a discount, or an old row cannot be read.
UpdatePayOnlineDiscountSettings ==
    /\ \E s \in Settings \cup {Disabled, Malformed} : setting' = s
    /\ shown' = None
    /\ UNCHANGED <<cart, order, attempt>>

\* A product's payment methods change: the order keeps those it was placed with.
ProductEligibilityChanges ==
    /\ \E c \in Carts : c.amount = cart.amount /\ cart' = c
    /\ shown' = None
    /\ UNCHANGED <<setting, order, attempt>>

-----------------------------------------------------------------------------
(* Paying                                                                  *)

\* The items of the order, not the products, say what they may be paid with.
ItemsAllow(method) == method \in ResolveCartPaymentMethods(order.eligibility)

AllowsByItemsOnly(method) == ItemsAllow(method) /\ ~IsBelowPrepaidMinimum(method, order.total) \* mutant: discounted orders too
AssertOrderAllowsPaymentMethod(method) ==
    /\ ItemsAllow(method)
    /\ method = "cod" => order.discount = 0
    /\ ~IsBelowPrepaidMinimum(method, order.total)

\* A client may pay with another method than the one it ordered with.
StartPayment(method) ==
    /\ order # None /\ attempt = None
    /\ AssertOrderAllowsPaymentMethod(method)
    /\ attempt' = [method |-> method, amount |-> order.total]
    /\ UNCHANGED <<cart, setting, shown, order>>

Init ==
    /\ cart \in Carts
    /\ setting \in Settings \cup {Disabled, Malformed}
    /\ shown = None /\ order = None /\ attempt = None

Next ==
    \/ \E m \in Methods \cup {"unset"} : Preview(m) \/ CreateOrder(m)
    \/ \E m \in Methods : StartPayment(m)
    \/ UpdatePayOnlineDiscountSettings
    \/ ProductEligibilityChanges

Spec == Init /\ [][Next]_vars

-----------------------------------------------------------------------------
(* Properties                                                              *)

\* The preview and the order never disagree (online-payment-discount.ts:42): with the setting
\* unchanged, a ready preview's method gives an order of the total shown, and the method
\* offered gives one cheaper by the saving advertised.
PreviewHonoured ==
    order # None /\ order.preview # None =>
        /\ order.method = order.preview.method => order.total = order.preview.payable
        /\ order.method \in DOMAIN order.preview.offer /\ order.preview.offer[order.method] > 0 =>
               order.total = order.preview.payable - order.preview.offer[order.method]

\* The discount of an order is split over its lines to the last paisa, and no line gets more
\* than it costs: refunds are computed from these parts.
AllocationsExact ==
    order # None =>
        /\ Total(order.allocated) = order.discount
        /\ \A l \in 1..Lines : order.allocated[l] \in 0..order.amount[l]

\* A payment is of a method that every product of the order allowed when it was placed; cash
\* never pays a total that was discounted for paying online, and an online payment is never
\* below the provider's minimum.
PaidAsPriced ==
    attempt # None =>
        /\ \A l \in 1..Lines : order.eligibility[l] \in {"both", attempt.method}
        /\ attempt.method = "cod" => attempt.amount = Total(order.amount)
        /\ attempt.method = "payu" => attempt.amount >= MinPayable

\* The three together.
PricedAndPaid == PreviewHonoured /\ AllocationsExact /\ PaidAsPriced
=============================================================================
