---------------------------- MODULE OrderPayment ----------------------------
(***************************************************************************)
(* The life of an Order from checkout to delivery or cancellation: the     *)
(* orders, payments, refunds and carts tables, product stock, the payment  *)
(* gateway and the courier.  One action per database transaction of        *)
(* OrderService, AdminOrderService, PaymentService,                        *)
(* PaymentFinalizationService, RefundService and RefundFinalizationService.*)
(*                                                                         *)
(* A handler is one action when its last transaction re-checks, under its  *)
(* row locks, everything read before; it is cut where a later transaction  *)
(* uses a value read earlier (payment initiation, refund dispatch).  Such  *)
(* a half-done request is a member of inflight; it may die there.          *)
(*                                                                         *)
(* PayU's Verify API, called at the head of several handlers, and the      *)
(* webhooks both end in ProcessVerifiedPaymentResult.  A reconciliation is *)
(* that action, and a failed one is that action not taken.                 *)
(***************************************************************************)
EXTENDS Integers

CONSTANTS
    OrderIds,      \* ids IdSequenceService can hand out to orders
    PaymentIds,    \* ... to payments
    RefundIds,     \* ... to refunds
    Shoppers,      \* customers and guests
    Guests,        \* the shoppers without an account
    Skus,          \* products, or variants of a product, that hold stock
    Baskets,       \* quantities per SKU a cart may contain
    InitialStock,  \* stock per SKU
    LegacyOrders,  \* id -> [shopper, lines]: pending orders that hold a coupon
    BreezeConfigured  \* whether the deployment has Breeze credentials

ASSUME IdsAssumption ==
    /\ OrderIds \subseteq Nat /\ OrderIds # {}
    /\ PaymentIds \subseteq Nat /\ PaymentIds # {}
    /\ RefundIds \subseteq Nat
ASSUME ShoppersAssumption == Shoppers # {} /\ Guests \subseteq Shoppers
ASSUME StockAssumption ==
    /\ Baskets # {} /\ Baskets \subseteq [Skus -> Nat]
    /\ InitialStock \in [Skus -> Nat]
ASSUME LegacyAssumption ==
    /\ DOMAIN LegacyOrders \subseteq OrderIds
    /\ \A o \in DOMAIN LegacyOrders : LegacyOrders[o] \in [shopper: Shoppers, lines: Baskets]

ASSUME BreezeAssumption == BreezeConfigured \in BOOLEAN

VARIABLES
    orders,    \* the orders table
    payments,  \* the payments table
    refunds,   \* the refunds table
    carts,     \* each shopper's newest cart row
    stock,     \* products.stock / product_variants.stock
    shipments, \* courier progress of an order's parcel
    gateway,   \* what the payment provider did with a payment's transaction
    payout,    \* what the payment provider did with a refund request
    inflight,  \* requests between two of their transactions
    held       \* history: the order's lines were taken from stock, not put back

vars == <<orders, payments, refunds, carts, stock, shipments, gateway, payout, inflight, held>>

OrderStatus == {"pending", "confirmed", "processing", "shipped", "delivered", "cancelled", "return_requested"}
OnlineProviders == {"payu", "breeze"}

\* getValidNextOrderStatuses: forward jumps, cancellation before delivery.
ValidNext == [
    absent           |-> {},
    pending          |-> {"confirmed", "processing", "shipped", "delivered", "cancelled"},
    confirmed        |-> {"processing", "shipped", "delivered", "cancelled"},
    processing       |-> {"shipped", "delivered", "cancelled"},
    shipped          |-> {"delivered", "cancelled"},
    delivered        |-> {"return_requested"},
    cancelled        |-> {},
    return_requested |-> {}]

OrderPaymentStatus == {"pending", "paid", "refunded"}
CommerceException == {"none", "inventory_unavailable", "order_not_confirmable"}
RedemptionStatus == {"none", "reserved", "consumed", "released"}
PaymentStatus == {"pending", "paid", "failed", "cancelled", "refunded"}
RefundStatus == {"pending", "processing", "succeeded", "failed"}

OrderRow == [
    status: OrderStatus \cup {"absent"},
    payment_status: OrderPaymentStatus,
    commerce_exception: CommerceException,
    shopper: Shoppers,
    cart: Nat,
    lines: Baskets,
    cancelled_at: BOOLEAN,
    coupon: RedemptionStatus]

PaymentRow == [
    status: PaymentStatus \cup {"absent"},
    order: OrderIds,
    provider: OnlineProviders \cup {"cod"},
    provider_order_id: BOOLEAN]

RefundRow == [
    status: RefundStatus \cup {"absent"},
    payment: PaymentIds,
    provider_request_id: BOOLEAN]

Requests ==
    [op: OnlineProviders, id: OrderIds]       \* payable order read, attempt not created
        \cup [op: {"txn"}, id: PaymentIds]    \* attempt known, reference not assigned
        \cup [op: {"dispatch"}, id: RefundIds] \* refund row committed, PayU not called

-----------------------------------------------------------------------------
NewOrder(s, gen, lines, coupon) == [
    status |-> "pending", payment_status |-> "pending", commerce_exception |-> "none",
    shopper |-> s, cart |-> gen, lines |-> lines, cancelled_at |-> FALSE, coupon |-> coupon]

AbsentOrder == [NewOrder(CHOOSE s \in Shoppers : TRUE, 0, CHOOSE b \in Baskets : TRUE, "none")
                    EXCEPT !.status = "absent"]
AbsentPayment == [status |-> "absent", order |-> CHOOSE o \in OrderIds : TRUE,
                  provider |-> "payu", provider_order_id |-> FALSE]
AbsentRefund == [status |-> "absent", payment |-> CHOOSE p \in PaymentIds : TRUE,
                 provider_request_id |-> FALSE]

Init ==
    /\ orders = [o \in OrderIds |->
                    IF o \in DOMAIN LegacyOrders
                    THEN NewOrder(LegacyOrders[o].shopper, 0, LegacyOrders[o].lines, "reserved")
                    ELSE AbsentOrder]
    /\ payments = [p \in PaymentIds |-> AbsentPayment]
    /\ refunds = [r \in RefundIds |-> AbsentRefund]
    /\ carts = [s \in Shoppers |-> [gen |-> 0, active |-> TRUE]]
    /\ stock = InitialStock
    /\ shipments = [o \in OrderIds |-> "none"]
    /\ gateway = [p \in PaymentIds |-> "open"]
    /\ payout = [r \in RefundIds |-> "none"]
    /\ inflight = {}
    /\ held = [o \in OrderIds |-> FALSE]

\* IdSequenceService hands out ids in increasing order.
IsNextId(table, id) ==
    /\ table[id].status = "absent"
    /\ \A other \in DOMAIN table : other < id => table[other].status # "absent"

PaymentsOf(o) == {p \in PaymentIds : payments[p].status # "absent" /\ payments[p].order = o}
PaymentsIn(o, providers, statuses) ==
    {p \in PaymentsOf(o) : payments[p].provider \in providers /\ payments[p].status \in statuses}
HasCodPayment(o) == \E p \in PaymentsOf(o) : payments[p].provider = "cod"

\* Mutant: the status is compared with the fulfilment statuses only.
CanConfirmUnlessFulfilled(o) ==
    orders[o].status \notin {"confirmed", "processing", "shipped", "delivered", "return_requested"}
CanConfirm(o) == "confirmed" \in ValidNext[orders[o].status]

\* Mutant: the stock read before the lock is trusted.
InStaleStock(o) == \A k \in Skus : orders[o].lines[k] <= InitialStock[k]
InStock(o) == \A k \in Skus : orders[o].lines[k] <= stock[k]
Payable(o) == orders[o].status \notin {"absent", "cancelled", "return_requested"}
-----------------------------------------------------------------------------
(* Storefront: carts and orders                                            *)

\* findOrCreateCart: a customer gets a new row, a guest's row is reactivated.
OpenCart(s) ==
    /\ ~carts[s].active
    /\ carts' = [carts EXCEPT ![s] = [gen |-> IF s \in Guests THEN @.gen ELSE @.gen + 1, active |-> TRUE]]
    /\ UNCHANGED <<orders, payments, refunds, stock, shipments, gateway, payout, inflight, held>>

\* createOrder: stock is only checked.  A guest who already has a pending order
\* is given a new access token for it, a customer an error: neither is a step here.
CreateOrder(s, o, basket) ==
    /\ IsNextId(orders, o)
    /\ carts[s].active
    /\ ~ \E other \in OrderIds : orders[other].status = "pending" /\ orders[other].shopper = s
    /\ \A k \in Skus : basket[k] <= stock[k]
    /\ orders' = [orders EXCEPT ![o] = NewOrder(s, carts[s].gen, basket, "none")]
    /\ UNCHANGED <<payments, refunds, carts, stock, shipments, gateway, payout, inflight, held>>

\* Mutant: confirmation forgets the reservation.
ConsumedNever(coupon) == coupon

Released(coupon) == IF coupon = "reserved" THEN "released" ELSE coupon
Consumed(coupon) == IF coupon = "reserved" THEN "consumed" ELSE coupon

\* performPendingOrderCancellation: no stock, cart or payment row is touched.
PerformPendingOrderCancellation(o) ==
    /\ orders[o].status = "pending"
    /\ orders[o].payment_status # "paid"
    /\ PaymentsIn(o, OnlineProviders \cup {"cod"}, {"paid"}) = {}
    /\ ~HasCodPayment(o)
    /\ PaymentsIn(o, {"breeze"}, {"pending"}) = {}
    /\ \A p \in PaymentsIn(o, {"payu"}, {"pending"}) : ~payments[p].provider_order_id
    /\ orders' = [orders EXCEPT ![o].status = "cancelled", ![o].cancelled_at = TRUE,
                                ![o].coupon = Released(@)]
    /\ UNCHANGED <<payments, refunds, carts, stock, shipments, gateway, payout, inflight, held>>

-----------------------------------------------------------------------------
(* Storefront: payment initiation                                          *)

\* initiatePayuCheckout up to getOrCreateActiveAttempt.  The re-read of
\* payment_status after reconciliation is repeated under the lock below.
InitiatePayuCheckout(o) ==
    /\ Payable(o)
    /\ inflight' = inflight \cup {[op |-> "payu", id |-> o]}
    /\ UNCHANGED <<orders, payments, refunds, carts, stock, shipments, gateway, payout, held>>

\* initiateBreezeCheckout: refused while a PayU attempt is pending.
InitiateBreezeCheckout(o) ==
    /\ BreezeConfigured
    /\ Payable(o)
    /\ PaymentsIn(o, {"payu"}, {"pending"}) = {}
    /\ inflight' = inflight \cup {[op |-> "breeze", id |-> o]}
    /\ UNCHANGED <<orders, payments, refunds, carts, stock, shipments, gateway, payout, held>>

\* Mutant: the COD marker is not looked for.
AttemptAllowedIgnoringCod(o) ==
    /\ orders[o].payment_status # "paid"
    /\ PaymentsIn(o, OnlineProviders \cup {"cod"}, {"paid"}) = {}

\* Mutant: a paid order is not refused.
AttemptAllowedIgnoringPaid(o) == ~HasCodPayment(o)

AttemptAllowed(o) ==
    /\ orders[o].payment_status # "paid"
    /\ PaymentsIn(o, OnlineProviders \cup {"cod"}, {"paid"}) = {}
    /\ ~HasCodPayment(o)

\* createPaymentAttempt inserts a row: the status of the order is not read again.
CreatePaymentAttempt(o, provider, p) ==
    /\ [op |-> provider, id |-> o] \in inflight
    /\ AttemptAllowed(o)
    /\ PaymentsIn(o, {provider}, {"pending"}) = {}
    /\ IsNextId(payments, p)
    /\ payments' = [payments EXCEPT ![p] = [status |-> "pending", order |-> o,
                                            provider |-> provider, provider_order_id |-> FALSE]]
    /\ inflight' = (inflight \ {[op |-> provider, id |-> o]}) \cup {[op |-> "txn", id |-> p]}
    /\ UNCHANGED <<orders, refunds, carts, stock, shipments, gateway, payout, held>>

\* getOrCreateActiveAttempt returns the pending attempt of the same provider.
ReuseActiveAttempt(o, provider, p) ==
    /\ [op |-> provider, id |-> o] \in inflight
    /\ AttemptAllowed(o)
    /\ p \in PaymentsIn(o, {provider}, {"pending"})
    /\ inflight' = (inflight \ {[op |-> provider, id |-> o]}) \cup {[op |-> "txn", id |-> p]}
    /\ UNCHANGED <<orders, payments, refunds, carts, stock, shipments, gateway, payout, held>>

RejectPaymentAttempt(o, provider) ==
    /\ [op |-> provider, id |-> o] \in inflight
    /\ ~AttemptAllowed(o)
    /\ inflight' = inflight \ {[op |-> provider, id |-> o]}
    /\ UNCHANGED <<orders, payments, refunds, carts, stock, shipments, gateway, payout, held>>

\* ensureProviderTransactionId: from here on the shopper holds a payable form.
EnsureProviderTransactionId(p) ==
    /\ [op |-> "txn", id |-> p] \in inflight
    /\ payments' = [payments EXCEPT ![p].provider_order_id = TRUE]
    /\ inflight' = inflight \ {[op |-> "txn", id |-> p]}
    /\ UNCHANGED <<orders, refunds, carts, stock, shipments, gateway, payout, held>>

-----------------------------------------------------------------------------
(* The payment gateway, and what its answers do                            *)

\* One verdict per transaction reference; it may be reported any number of times.
GatewayDecides(p, verdict) ==
    /\ payments[p].status # "absent" /\ payments[p].provider \in OnlineProviders
    /\ payments[p].provider_order_id
    /\ gateway[p] = "open"
    /\ gateway' = [gateway EXCEPT ![p] = verdict]
    /\ UNCHANGED <<orders, payments, refunds, carts, stock, shipments, payout, inflight, held>>

TakeStock(o) == stock' = [k \in Skus |-> stock[k] - orders[o].lines[k]]
\* Mutant: cancelling puts nothing back.
ReturnNothing(o) == UNCHANGED stock

ReturnStock(o) == stock' = [k \in Skus |-> stock[k] + orders[o].lines[k]]

\* Mutant: the cart stays active after the purchase.
LeaveCartActive(o) == UNCHANGED carts

\* finalizeCartForOrder: exactly the cart row the order was made from.
FinalizeCart(o) ==
    LET s == orders[o].shopper
    IN  carts' = IF carts[s].gen = orders[o].cart
                 THEN [carts EXCEPT ![s].active = FALSE]
                 ELSE carts

\* processVerifiedPaymentResult, FAILED or CANCELLED.
RecordDeclined(p) ==
    /\ payments[p].status = "pending"
    /\ gateway[p] \in {"failed", "cancelled"}
    /\ payments' = [payments EXCEPT ![p].status = gateway[p]]
    /\ UNCHANGED <<orders, refunds, carts, stock, shipments, gateway, payout, inflight, held>>

CapturePending(p) == payments[p].status = "pending" /\ gateway[p] = "captured"

\* processVerifiedPaymentResult, SUCCESS for an order that is already paid.
RecordRepeatedCapture(p) ==
    /\ CapturePending(p)
    /\ orders[payments[p].order].payment_status = "paid"
    /\ payments' = [payments EXCEPT ![p].status = "paid"]
    /\ UNCHANGED <<orders, refunds, carts, stock, shipments, gateway, payout, inflight, held>>

\* processVerifiedPaymentResult, SUCCESS that confirms the order.
ConfirmPaidOrder(p) ==
    LET o == payments[p].order
    IN  /\ CapturePending(p)
        /\ orders[o].payment_status # "paid"
        /\ CanConfirm(o) /\ InStock(o)
        /\ payments' = [payments EXCEPT ![p].status = "paid"]
        /\ orders' = [orders EXCEPT ![o].payment_status = "paid", ![o].status = "confirmed",
                                    ![o].coupon = Consumed(@)]
        /\ TakeStock(o)
        /\ held' = [held EXCEPT ![o] = TRUE]
        /\ FinalizeCart(o)
        /\ UNCHANGED <<refunds, shipments, gateway, payout, inflight>>

\* Mutant: only missing stock is flagged.
ExceptionIfOutOfStock(o) == IF CanConfirm(o) THEN "inventory_unavailable" ELSE "none"

ExceptionFor(o) == IF CanConfirm(o) THEN "inventory_unavailable" ELSE "order_not_confirmable"

\* processVerifiedPaymentResult, SUCCESS for an order that cannot be confirmed.
FlagPaidOrder(p) ==
    LET o == payments[p].order
    IN  /\ CapturePending(p)
        /\ orders[o].payment_status # "paid"
        /\ ~(CanConfirm(o) /\ InStock(o))
        /\ payments' = [payments EXCEPT ![p].status = "paid"]
        /\ orders' = [orders EXCEPT ![o].payment_status = "paid",
                                    ![o].commerce_exception = ExceptionFor(o),
                                    ![o].coupon = Consumed(@)]
        /\ UNCHANGED <<refunds, carts, stock, shipments, gateway, payout, inflight, held>>

\* Mutant: a capture that cannot confirm its order is dropped.
ProcessConfirmableResult(p) == RecordDeclined(p) \/ RecordRepeatedCapture(p) \/ ConfirmPaidOrder(p)

\* A terminal payment answers every later verdict with NOOP_ALREADY_TERMINAL.
ProcessVerifiedPaymentResult(p) ==
    RecordDeclined(p) \/ RecordRepeatedCapture(p) \/ ConfirmPaidOrder(p) \/ FlagPaidOrder(p)

\* confirmCodOrder: everything read before its transaction is read again in it.
ConfirmCodOrder(o, p) ==
    /\ Payable(o)
    /\ orders[o].payment_status # "paid"
    /\ PaymentsIn(o, OnlineProviders \cup {"cod"}, {"pending"}) = {}
    /\ CanConfirm(o) /\ InStock(o)
    /\ IsNextId(payments, p)
    /\ payments' = [payments EXCEPT ![p] = [status |-> "pending", order |-> o,
                                            provider |-> "cod", provider_order_id |-> FALSE]]
    /\ orders' = [orders EXCEPT ![o].status = "confirmed", ![o].coupon = Consumed(@)]
    /\ TakeStock(o)
    /\ held' = [held EXCEPT ![o] = TRUE]
    /\ FinalizeCart(o)
    /\ UNCHANGED <<refunds, shipments, gateway, payout, inflight>>
-----------------------------------------------------------------------------
(* Administration of orders                                                *)

\* Mutant: administrators are trusted to look at the payment.
FulfilmentAlwaysSafe(o) == TRUE

\* assertAdminFulfilmentPaymentSafe
FulfilmentPaymentSafe(o) == orders[o].payment_status = "paid" \/ HasCodPayment(o)

\* markCodDelivered: cash collected at the door.
CodCollected(o) ==
    [p \in PaymentIds |->
        IF p \in PaymentsIn(o, {"cod"}, {"pending"}) THEN [payments[p] EXCEPT !.status = "paid"]
                                                     ELSE payments[p]]
\* Mutant: the books forget the cash.
PaymentStatusUncollected(o) == orders[o].payment_status
PaymentStatusAfterDelivery(o) ==
    IF PaymentsIn(o, {"cod"}, {"pending"}) # {} THEN "paid" ELSE orders[o].payment_status

\* updateStatus, the fulfilment statuses and return_requested.
AdvanceStatus(o, next) ==
    /\ next \in ValidNext[orders[o].status] \ {"cancelled", "delivered"}
    /\ next # "return_requested" => FulfilmentPaymentSafe(o)
    /\ orders' = [orders EXCEPT ![o].status = next]
    /\ UNCHANGED <<payments, refunds, carts, stock, shipments, gateway, payout, inflight, held>>

\* updateStatus to delivered.
DeliverByHand(o) ==
    /\ "delivered" \in ValidNext[orders[o].status]
    /\ FulfilmentPaymentSafe(o)
    /\ orders' = [orders EXCEPT ![o].status = "delivered",
                                ![o].payment_status = PaymentStatusAfterDelivery(o)]
    /\ payments' = CodCollected(o)
    /\ UNCHANGED <<refunds, carts, stock, shipments, gateway, payout, inflight, held>>

\* updateStatus to cancelled, payment_status not paid: open to every admin.
\* The coupon stays reserved while an online attempt may still be captured.
UnresolvedOnlineAttempt(o) ==
    \E p \in PaymentsIn(o, OnlineProviders, {"pending"}) :
        payments[p].provider = "breeze" \/ payments[p].provider_order_id

CancelUnpaidOrder(o) ==
    /\ "cancelled" \in ValidNext[orders[o].status]
    /\ orders[o].payment_status # "paid"
    /\ orders' = [orders EXCEPT ![o].status = "cancelled", ![o].cancelled_at = TRUE,
                                ![o].coupon = IF UnresolvedOnlineAttempt(o) THEN @ ELSE Released(@)]
    /\ UNCHANGED <<payments, refunds, carts, stock, shipments, gateway, payout, inflight, held>>

\* Mutant: the newest paid payment is refunded whoever took the money.
RefundableByAnyone(o, p) ==
    /\ p \in PaymentsIn(o, OnlineProviders \cup {"cod"}, {"paid"})
    /\ \A q \in PaymentsIn(o, OnlineProviders \cup {"cod"}, {"paid"}) : q <= p

\* createPendingCancellationRefund: the newest paid payment, if PayU took it.
Refundable(o, p) ==
    /\ p \in PaymentsIn(o, {"payu"}, {"paid"})
    /\ \A q \in PaymentsIn(o, OnlineProviders \cup {"cod"}, {"paid"}) : q <= p

\* updateStatus to cancelled, paid: a super admin.  Stock is put back and a
\* refund of the newest paid payment is recorded, to be dispatched after the
\* commit; only a PayU payment can be refunded, any other aborts the cancellation.
\* The payment has no refund yet: an order is cancelled at most once.
CancelPaidOrder(o, p, r) ==
    /\ "cancelled" \in ValidNext[orders[o].status]
    /\ orders[o].payment_status = "paid"
    /\ Refundable(o, p)
    /\ IsNextId(refunds, r)
    /\ refunds' = [refunds EXCEPT ![r] = [status |-> "pending", payment |-> p, provider_request_id |-> FALSE]]
    /\ orders' = [orders EXCEPT ![o].status = "cancelled", ![o].cancelled_at = TRUE]
    /\ ReturnStock(o)
    /\ held' = [held EXCEPT ![o] = FALSE]
    /\ inflight' = inflight \cup {[op |-> "dispatch", id |-> r]}
    /\ UNCHANGED <<payments, carts, shipments, gateway, payout>>

-----------------------------------------------------------------------------
(* Refunds                                                                 *)

\* dispatchRefund: PayU queues the request, and the answer arrives ...
DispatchAccepted(r) ==
    /\ [op |-> "dispatch", id |-> r] \in inflight
    /\ inflight' = inflight \ {[op |-> "dispatch", id |-> r]}
    /\ payout' = [payout EXCEPT ![r] = "queued"]
    /\ refunds' = [refunds EXCEPT ![r].status = "processing", ![r].provider_request_id = TRUE]
    /\ UNCHANGED <<orders, payments, carts, stock, shipments, gateway, held>>

\* ... or PayU refuses the request ...
DispatchRefused(r) ==
    /\ [op |-> "dispatch", id |-> r] \in inflight
    /\ inflight' = inflight \ {[op |-> "dispatch", id |-> r]}
    /\ refunds' = [refunds EXCEPT ![r].status = "failed"]
    /\ UNCHANGED <<orders, payments, carts, stock, shipments, gateway, payout, held>>

\* ... or the call fails: PayU may or may not have the request; the row stays.
DispatchLost(r) ==
    /\ [op |-> "dispatch", id |-> r] \in inflight
    /\ inflight' = inflight \ {[op |-> "dispatch", id |-> r]}
    /\ payout' \in {payout, [payout EXCEPT ![r] = "queued"]}
    /\ UNCHANGED <<orders, payments, refunds, carts, stock, shipments, gateway, held>>

GatewaySettlesRefund(r, verdict) ==
    /\ payout[r] = "queued"
    /\ payout' = [payout EXCEPT ![r] = verdict]
    /\ UNCHANGED <<orders, payments, refunds, carts, stock, shipments, gateway, inflight, held>>

\* Mutant: only a refund that PayU has not acknowledged yet is verified.
VerifiableIfPending(r) == refunds[r].status = "pending" /\ refunds[r].provider_request_id

\* recheckRefundStatus and handleRefundWebhook ask PayU's Status API only for a
\* refund with a request id.
Verifiable(r) == refunds[r].status = "processing" /\ refunds[r].provider_request_id

RecordRefundFailed(r) ==
    /\ Verifiable(r) /\ payout[r] = "rejected"
    /\ refunds' = [refunds EXCEPT ![r].status = "failed"]
    /\ UNCHANGED <<orders, payments, carts, stock, shipments, gateway, payout, inflight, held>>

\* processVerifiedRefundResult, SUCCEEDED: a cancellation refund is the whole payment.
RecordRefundSucceeded(r) ==
    LET p == refunds[r].payment
    IN  /\ Verifiable(r) /\ payout[r] = "paid_out"
        /\ refunds' = [refunds EXCEPT ![r].status = "succeeded"]
        /\ payments' = [payments EXCEPT ![p].status = "refunded"]
        /\ orders' = [orders EXCEPT ![payments[p].order].payment_status = "refunded"]
        /\ UNCHANGED <<carts, stock, shipments, gateway, payout, inflight, held>>

-----------------------------------------------------------------------------
(* Shipping, as far as it moves orders                                     *)

\* prepare / validateShippable
BookShipment(o) ==
    /\ shipments[o] = "none"
    /\ FulfilmentPaymentSafe(o)
    /\ orders[o].status = "confirmed"
    /\ orders[o].commerce_exception = "none"
    /\ ~orders[o].cancelled_at
    /\ shipments' = [shipments EXCEPT ![o] = "booked"]
    /\ UNCHANGED <<orders, payments, refunds, carts, stock, gateway, payout, inflight, held>>

\* applyFulfilment, a scan between pick-up and delivery.
CourierMoves(o) ==
    /\ shipments[o] = "booked"
    /\ shipments' = [shipments EXCEPT ![o] = "moving"]
    /\ orders' = [orders EXCEPT ![o].status = IF @ \in {"confirmed", "processing"} THEN "shipped" ELSE @]
    /\ UNCHANGED <<payments, refunds, carts, stock, gateway, payout, inflight, held>>

\* applyFulfilment, delivered.
CourierDelivers(o) ==
    /\ shipments[o] \in {"booked", "moving"}
    /\ shipments' = [shipments EXCEPT ![o] = "delivered"]
    /\ orders' = [orders EXCEPT ![o].status = IF @ = "return_requested" THEN @ ELSE "delivered",
                                ![o].payment_status = PaymentStatusAfterDelivery(o)]
    /\ payments' = CodCollected(o)
    /\ UNCHANGED <<refunds, carts, stock, gateway, payout, inflight, held>>

\* The process stops, or the connection breaks, between two transactions.
RequestDies(request) ==
    /\ request \in inflight
    /\ inflight' = inflight \ {request}
    /\ UNCHANGED <<orders, payments, refunds, carts, stock, shipments, gateway, payout, held>>

-----------------------------------------------------------------------------
ShopperStep ==
    \/ \E s \in Shoppers : OpenCart(s)
    \/ \E s \in Shoppers, o \in OrderIds, b \in Baskets : CreateOrder(s, o, b)
    \/ \E o \in OrderIds : PerformPendingOrderCancellation(o)
    \/ \E o \in OrderIds : InitiatePayuCheckout(o) \/ InitiateBreezeCheckout(o)
    \/ \E o \in OrderIds, p \in PaymentIds : ConfirmCodOrder(o, p)

AttemptStep ==
    \/ \E o \in OrderIds, v \in OnlineProviders, p \in PaymentIds :
            CreatePaymentAttempt(o, v, p) \/ ReuseActiveAttempt(o, v, p)
    \/ \E o \in OrderIds, v \in OnlineProviders : RejectPaymentAttempt(o, v)
    \/ \E p \in PaymentIds : EnsureProviderTransactionId(p)

GatewayStep ==
    \/ \E p \in PaymentIds, v \in {"captured", "failed", "cancelled"} : GatewayDecides(p, v)
    \/ \E r \in RefundIds, v \in {"paid_out", "rejected"} : GatewaySettlesRefund(r, v)

AdminStep ==
    \/ \E o \in OrderIds, next \in OrderStatus : AdvanceStatus(o, next)
    \/ \E o \in OrderIds : DeliverByHand(o) \/ CancelUnpaidOrder(o)
    \/ \E o \in OrderIds, p \in PaymentIds, r \in RefundIds : CancelPaidOrder(o, p, r)

RefundStep ==
    \E r \in RefundIds :
        \/ DispatchAccepted(r) \/ DispatchRefused(r) \/ DispatchLost(r)
        \/ RecordRefundFailed(r) \/ RecordRefundSucceeded(r)

CourierStep == \E o \in OrderIds : BookShipment(o) \/ CourierMoves(o) \/ CourierDelivers(o)

Next ==
    \/ ShopperStep
    \/ AttemptStep
    \/ GatewayStep
    \/ \E p \in PaymentIds : ProcessVerifiedPaymentResult(p)
    \/ AdminStep
    \/ RefundStep
    \/ CourierStep
    \/ \E request \in inflight : RequestDies(request)

Spec == Init /\ [][Next]_vars

\* PayU repeats its webhooks until they are answered and the storefront polls the
\* payment status, so a verdict is processed in the end; of Breeze the same is assumed,
\* though the code does not know whether it retries (breeze-webhook.controller.ts:30).
\* The process that commits a refund calls PayU next unless it dies; PayU decides every
\* request it queued.
Fairness ==
    /\ \A p \in PaymentIds : WF_vars(ProcessVerifiedPaymentResult(p))
    /\ \A r \in RefundIds :
            /\ WF_vars(DispatchAccepted(r) \/ DispatchRefused(r) \/ DispatchLost(r))
            /\ WF_vars(\E v \in {"paid_out", "rejected"} : GatewaySettlesRefund(r, v))
            /\ WF_vars(RecordRefundFailed(r) \/ RecordRefundSucceeded(r))

FairSpec == Spec /\ Fairness
-----------------------------------------------------------------------------
(* What must hold                                                          *)

\* Every table row has the shape of its Sequelize model, and stock is never
\* negative: no interleaving of confirmations oversells.
TypeOK ==
    /\ orders \in [OrderIds -> OrderRow]
    /\ payments \in [PaymentIds -> PaymentRow]
    /\ refunds \in [RefundIds -> RefundRow]
    /\ carts \in [Shoppers -> [gen: Nat, active: BOOLEAN]]
    /\ stock \in [Skus -> Nat]
    /\ shipments \in [OrderIds -> {"none", "booked", "moving", "delivered"}]
    /\ gateway \in [PaymentIds -> {"open", "captured", "failed", "cancelled"}]
    /\ payout \in [RefundIds -> {"none", "queued", "paid_out", "rejected"}]
    /\ inflight \subseteq Requests
    /\ held \in [OrderIds -> BOOLEAN]

\* An order confirmed for cash on delivery has one COD payment, and every online
\* attempt it ever had was declined: the shopper cannot pay online what the
\* courier will collect at the door (createPaymentAttempt against confirmCodOrder).
CodExcludesOnline ==
    \A p, q \in PaymentIds :
        /\ payments[p].status # "absent" /\ payments[p].provider = "cod"
        /\ payments[q].status # "absent" /\ payments[q].order = payments[p].order
        /\ p # q
        => payments[q].provider # "cod" /\ payments[q].status \in {"failed", "cancelled"}

\* One provider never charges twice for an order: it has at most one attempt that
\* is open or captured, whatever requests, replays and late verdicts interleave.
NoDoubleChargePerProvider ==
    \A p, q \in PaymentIds :
        /\ payments[p].status \in {"pending", "paid"} /\ payments[q].status \in {"pending", "paid"}
        /\ payments[p].order = payments[q].order /\ payments[p].provider = payments[q].provider
        => p = q

\* An order being fulfilled without a commerce exception has its goods: no jump of
\* the status graph, by an administrator or a courier scan, reaches fulfilment
\* around the stock decrement.
FulfilmentBacked ==
    \A o \in OrderIds :
        /\ orders[o].status \in {"confirmed", "processing", "shipped", "delivered", "return_requested"}
        /\ orders[o].commerce_exception = "none" /\ ~orders[o].cancelled_at
        => held[o]

\* Money recorded on an order always has a counterpart: goods taken for it, an
\* exception an operator will see, or a refund row.  This is the promise behind
\* the paid-but-unfulfillable path of PaymentFinalizationService.
CapturedMoneyAccounted ==
    \A o \in OrderIds :
        orders[o].payment_status = "paid" =>
            \/ held[o]
            \/ orders[o].commerce_exception # "none"
            \/ \E r \in RefundIds : refunds[r].status # "absent" /\ payments[refunds[r].payment].order = o

\* A payment is marked refunded exactly when its one refund succeeded, and a
\* refund is only ever made of a PayU capture.
RefundLedger ==
    /\ \A r \in RefundIds : refunds[r].status # "absent" =>
            LET p == refunds[r].payment
            IN  /\ payments[p].provider = "payu"
                /\ payments[p].status = IF refunds[r].status = "succeeded" THEN "refunded" ELSE "paid"
    /\ \A p \in PaymentIds : payments[p].status = "refunded" =>
            \E r \in RefundIds : refunds[r].status = "succeeded" /\ refunds[r].payment = p
    /\ \A r, t \in RefundIds :
            refunds[r].status # "absent" /\ refunds[t].status # "absent"
                /\ refunds[r].payment = refunds[t].payment => r = t

\* A coupon reserved by an older order is settled with it: consumed once money is
\* captured or COD is confirmed, released only by a cancellation without either.
CouponSettled ==
    \A o \in OrderIds :
        /\ orders[o].payment_status # "pending" \/ held[o] => orders[o].coupon # "reserved"
        /\ orders[o].coupon = "released" => orders[o].cancelled_at
        /\ orders[o].coupon = "consumed" => orders[o].payment_status # "pending" \/ HasCodPayment(o)

\* The cart a customer bought is spent: no confirmation leaves it active, where the
\* customer would check it out again.
CartSpent ==
    \A o \in OrderIds :
        LET s == orders[o].shopper
        IN  held[o] /\ s \notin Guests => ~(carts[s].active /\ carts[s].gen = orders[o].cart)

\* No payment, however late, revives a cancelled order; only the courier's
\* delivery scan of its parcel does (applyFulfilment).
CancellationSticks ==
    \A o \in OrderIds :
        orders[o].cancelled_at /\ shipments[o] # "delivered" => orders[o].status = "cancelled"

\* An order never holds its goods and a refund of its money at once, whichever of
\* the cancellation and a second provider's late capture comes first.
RefundedOrderHoldsNoGoods ==
    \A r \in RefundIds : refunds[r].status # "absent" => ~held[payments[refunds[r].payment].order]

\* The deal an order's rows stand for.
StageOf(status) ==
    CASE status = "absent" -> "absent"
      [] status = "pending" -> "open"
      [] status \in {"confirmed", "processing", "shipped"} -> "going"
      [] status \in {"delivered", "return_requested"} -> "arrived"
      [] status = "cancelled" -> "closed"
DealOf(o) == [
    stage   |-> StageOf(orders[o].status),
    money   |-> orders[o].payment_status,
    goods   |-> held[o],
    flagged |-> orders[o].commerce_exception # "none"]

Deals == [o \in OrderIds |-> DealOf(o)]

Promise == INSTANCE Purchase WITH Orders <- OrderIds, deals <- Deals

\* Every step of the shop, its gateways, its couriers and its administrators is one
\* step of Purchase on one order, or none: goods are set aside only by the sale, money
\* that finds none is flagged, no parcel arrives unpaid, and money is given back only
\* for goods that were (finalization, COD, cancellation, refund and courier handlers).
KeepsPromise == Promise!Spec

\* Every capture is recorded, whatever became of the order meanwhile: one of the
\* branches of processVerifiedPaymentResult applies in every state.
CaptureRecorded ==
    \A p \in PaymentIds : gateway[p] = "captured" ~> payments[p].status \in {"paid", "refunded"}

\* A refund that PayU acknowledged reaches its outcome.
QueuedRefundSettles ==
    \A r \in RefundIds : refunds[r].status = "processing" ~> refunds[r].status \in {"succeeded", "failed"}
=============================================================================
