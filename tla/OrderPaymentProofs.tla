------------------------- MODULE OrderPaymentProofs -------------------------
(***************************************************************************)
(* Theorems about OrderPayment, for every value of its constants: rows,    *)
(* money and goods; that it implements Purchase; and its books, which is   *)
(* what a refund says of its payment, what became of an order's coupon,    *)
(* which cart a sale has spent, and what is left in stock.                 *)
(***************************************************************************)
EXTENDS StockBalance, Sums

(* Rows, money and goods                                                   *)

\* The literals the actions write, as members of the column types: with them the
\* types stay folded below, which keeps the row updates within the solver's reach.
LEMMA ColumnValues ==
    /\ {"confirmed", "delivered", "cancelled", "shipped"} \subseteq OrderStatus
    /\ {"paid", "refunded"} \subseteq OrderPaymentStatus
    /\ {"paid", "failed", "cancelled", "refunded", "pending"} \subseteq PaymentStatus
    /\ {"inventory_unavailable", "order_not_confirmable"} \subseteq CommerceException
    /\ \A c \in RedemptionStatus : Released(c) \in RedemptionStatus /\ Consumed(c) \in RedemptionStatus
<1> QED
    BY DEF OrderStatus, OrderPaymentStatus, PaymentStatus, CommerceException, RedemptionStatus, Released, Consumed

\* Collecting the cash of an order keeps both tables typed.
LEMMA CodCollectionType ==
    ASSUME TypeOK, NEW o \in OrderIds
    PROVE  /\ CodCollected(o) \in [PaymentIds -> PaymentRow]
           /\ PaymentStatusAfterDelivery(o) \in OrderPaymentStatus
<1>1. payments \in [PaymentIds -> PaymentRow] /\ orders \in [OrderIds -> OrderRow]
    BY DEF TypeOK
<1>2. \A p \in PaymentIds : [payments[p] EXCEPT !.status = "paid"] \in PaymentRow
    BY <1>1, ColumnValues DEF PaymentRow
<1>3. orders[o].payment_status \in OrderPaymentStatus
    BY <1>1 DEF OrderRow
<1> QED
    BY <1>1, <1>2, <1>3, ColumnValues DEF CodCollected, PaymentStatusAfterDelivery

LEMMA InitType == Init => TypeOK
<1> SUFFICES ASSUME Init PROVE TypeOK
    OBVIOUS
<1>1. /\ (CHOOSE s \in Shoppers : TRUE) \in Shoppers
      /\ (CHOOSE b \in Baskets : TRUE) \in Baskets
      /\ (CHOOSE o \in OrderIds : TRUE) \in OrderIds
      /\ (CHOOSE p \in PaymentIds : TRUE) \in PaymentIds
    BY IdsAssumption, ShoppersAssumption, StockAssumption
<1>2. AbsentOrder \in OrderRow
    BY <1>1 DEF AbsentOrder, NewOrder, OrderRow, OrderStatus, OrderPaymentStatus, CommerceException, RedemptionStatus
<1>3. AbsentPayment \in PaymentRow
    BY <1>1 DEF AbsentPayment, PaymentRow, OnlineProviders
<1>4. AbsentRefund \in RefundRow
    BY <1>1 DEF AbsentRefund, RefundRow
<1>5. \A o \in DOMAIN LegacyOrders :
        NewOrder(LegacyOrders[o].shopper, 0, LegacyOrders[o].lines, "reserved") \in OrderRow
    BY LegacyAssumption DEF NewOrder, OrderRow, OrderStatus, OrderPaymentStatus, CommerceException, RedemptionStatus
<1> QED
    BY <1>2, <1>3, <1>4, <1>5, StockAssumption DEF Init, TypeOK

LEMMA StepType == TypeOK /\ [Next]_vars => TypeOK'
<1> SUFFICES ASSUME TypeOK, [Next]_vars PROVE TypeOK'
    OBVIOUS
<1>0. /\ orders \in [OrderIds -> OrderRow]
      /\ payments \in [PaymentIds -> PaymentRow]
      /\ refunds \in [RefundIds -> RefundRow]
      /\ \A o \in OrderIds : orders[o].coupon \in RedemptionStatus
    BY DEF TypeOK, OrderRow
<1>1. CASE UNCHANGED vars
    BY <1>1 DEF TypeOK, vars
<1>2. ASSUME NEW s \in Shoppers, OpenCart(s) PROVE TypeOK'
    BY <1>2 DEF TypeOK, OpenCart
<1>3. ASSUME NEW s \in Shoppers, NEW o \in OrderIds, NEW b \in Baskets, CreateOrder(s, o, b) PROVE TypeOK'
    BY <1>3 DEF TypeOK, CreateOrder, NewOrder, OrderRow, OrderStatus, OrderPaymentStatus, CommerceException, RedemptionStatus
<1>4. ASSUME NEW o \in OrderIds, PerformPendingOrderCancellation(o) PROVE TypeOK'
  <2>0. PICK c \in RedemptionStatus : orders' =
            [orders EXCEPT ![o].status = "cancelled", ![o].cancelled_at = TRUE, ![o].coupon = c]
    BY <1>0, <1>4, ColumnValues DEF PerformPendingOrderCancellation
  <2>. DEFINE row == [orders[o] EXCEPT !.status = "cancelled", !.cancelled_at = TRUE, !.coupon = c]
  <2>1. row \in OrderRow
    <3>1. orders[o] \in OrderRow /\ "cancelled" \in OrderStatus /\ TRUE \in BOOLEAN
      BY <1>0, ColumnValues
    <3> QED
      BY <3>1 DEF OrderRow
  <2>2. orders' = [orders EXCEPT ![o] = row]
    BY <1>0, <2>0
  <2>3. orders' \in [OrderIds -> OrderRow]
    BY <1>0, <2>1, <2>2
  <2> QED
    BY <1>4, <2>3 DEF TypeOK, PerformPendingOrderCancellation
<1>5. ASSUME NEW o \in OrderIds, InitiatePayuCheckout(o) PROVE TypeOK'
    BY <1>5 DEF TypeOK, InitiatePayuCheckout, Requests, OnlineProviders
<1>6. ASSUME NEW o \in OrderIds, InitiateBreezeCheckout(o) PROVE TypeOK'
    BY <1>6 DEF TypeOK, InitiateBreezeCheckout, Requests, OnlineProviders
<1>7. ASSUME NEW o \in OrderIds, NEW p \in PaymentIds, ConfirmCodOrder(o, p) PROVE TypeOK'
  <2>1. orders' \in [OrderIds -> OrderRow]
    BY <1>0, <1>7, ColumnValues DEF ConfirmCodOrder, OrderRow
  <2>2. payments' \in [PaymentIds -> PaymentRow]
    BY <1>0, <1>7, ColumnValues DEF ConfirmCodOrder, PaymentRow
  <2>3. stock' \in [Skus -> Nat]
    BY <1>7, StockAssumption DEF TypeOK, ConfirmCodOrder, TakeStock, InStock, OrderRow
  <2> QED
    BY <1>7, <2>1, <2>2, <2>3 DEF TypeOK, ConfirmCodOrder, FinalizeCart
<1>8. ASSUME NEW o \in OrderIds, NEW v \in OnlineProviders, NEW p \in PaymentIds,
             CreatePaymentAttempt(o, v, p) PROVE TypeOK'
    BY <1>8, ColumnValues DEF TypeOK, CreatePaymentAttempt, PaymentRow, OnlineProviders, Requests
<1>9. ASSUME NEW o \in OrderIds, NEW v \in OnlineProviders, NEW p \in PaymentIds,
             ReuseActiveAttempt(o, v, p) PROVE TypeOK'
    BY <1>9 DEF TypeOK, ReuseActiveAttempt, Requests
<1>10. ASSUME NEW o \in OrderIds, NEW v \in OnlineProviders, RejectPaymentAttempt(o, v) PROVE TypeOK'
    BY <1>10 DEF TypeOK, RejectPaymentAttempt
<1>11. ASSUME NEW p \in PaymentIds, EnsureProviderTransactionId(p) PROVE TypeOK'
    BY <1>11 DEF TypeOK, EnsureProviderTransactionId, PaymentRow
<1>12. ASSUME NEW p \in PaymentIds, NEW v \in {"captured", "failed", "cancelled"}, GatewayDecides(p, v) PROVE TypeOK'
    BY <1>12 DEF TypeOK, GatewayDecides
<1>13. ASSUME NEW r \in RefundIds, NEW v \in {"paid_out", "rejected"}, GatewaySettlesRefund(r, v) PROVE TypeOK'
    BY <1>13 DEF TypeOK, GatewaySettlesRefund
<1>14. ASSUME NEW p \in PaymentIds, RecordDeclined(p) PROVE TypeOK'
  <2>1. payments' \in [PaymentIds -> PaymentRow]
    BY <1>0, <1>14, ColumnValues DEF RecordDeclined, PaymentRow
  <2> QED
    BY <1>14, <2>1 DEF TypeOK, RecordDeclined
<1>15. ASSUME NEW p \in PaymentIds, RecordRepeatedCapture(p) PROVE TypeOK'
  <2>1. payments' \in [PaymentIds -> PaymentRow]
    BY <1>0, <1>15, ColumnValues DEF RecordRepeatedCapture, PaymentRow
  <2> QED
    BY <1>15, <2>1 DEF TypeOK, RecordRepeatedCapture
<1>16. ASSUME NEW p \in PaymentIds, ConfirmPaidOrder(p) PROVE TypeOK'
  <2> DEFINE o == payments[p].order
  <2>0. o \in OrderIds
    BY DEF TypeOK, PaymentRow
  <2>1. orders' \in [OrderIds -> OrderRow]
    BY <1>0, <1>16, <2>0, ColumnValues DEF ConfirmPaidOrder, OrderRow
  <2>2. payments' \in [PaymentIds -> PaymentRow]
    BY <1>0, <1>16, ColumnValues DEF ConfirmPaidOrder, PaymentRow
  <2>3. stock' \in [Skus -> Nat]
    BY <1>16, <2>0, StockAssumption DEF TypeOK, ConfirmPaidOrder, TakeStock, InStock, OrderRow
  <2>4. /\ carts' \in [Shoppers -> [gen: Nat, active: BOOLEAN]]
        /\ held' \in [OrderIds -> BOOLEAN]
    BY <1>16, <2>0 DEF TypeOK, ConfirmPaidOrder, FinalizeCart
  <2> QED
    BY <1>16, <2>1, <2>2, <2>3, <2>4 DEF TypeOK, ConfirmPaidOrder
<1>17. ASSUME NEW p \in PaymentIds, FlagPaidOrder(p) PROVE TypeOK'
  <2> DEFINE o == payments[p].order
  <2>0. o \in OrderIds /\ ExceptionFor(o) \in CommerceException
    BY <1>0, ColumnValues DEF PaymentRow, ExceptionFor
  <2>1. orders' \in [OrderIds -> OrderRow]
    BY <1>0, <1>17, <2>0, ColumnValues DEF FlagPaidOrder, OrderRow
  <2>2. payments' \in [PaymentIds -> PaymentRow]
    BY <1>0, <1>17, ColumnValues DEF FlagPaidOrder, PaymentRow
  <2> QED
    BY <1>17, <2>1, <2>2 DEF TypeOK, FlagPaidOrder
<1>18. ASSUME NEW o \in OrderIds, NEW next \in OrderStatus, AdvanceStatus(o, next) PROVE TypeOK'
  <2>1. orders' \in [OrderIds -> OrderRow]
    BY <1>0, <1>18 DEF AdvanceStatus, OrderRow
  <2> QED
    BY <1>18, <2>1 DEF TypeOK, AdvanceStatus
<1>19. ASSUME NEW o \in OrderIds, DeliverByHand(o) PROVE TypeOK'
  <2>1. orders' \in [OrderIds -> OrderRow]
    BY <1>0, <1>19, ColumnValues, CodCollectionType DEF DeliverByHand, OrderRow
  <2> QED
    BY <1>19, <2>1, CodCollectionType DEF TypeOK, DeliverByHand
<1>20. ASSUME NEW o \in OrderIds, CancelUnpaidOrder(o) PROVE TypeOK'
  <2>0. PICK c \in RedemptionStatus : orders' =
            [orders EXCEPT ![o].status = "cancelled", ![o].cancelled_at = TRUE, ![o].coupon = c]
    BY <1>0, <1>20, ColumnValues DEF CancelUnpaidOrder
  <2>. DEFINE row == [orders[o] EXCEPT !.status = "cancelled", !.cancelled_at = TRUE, !.coupon = c]
  <2>1. row \in OrderRow
    <3>1. orders[o] \in OrderRow /\ "cancelled" \in OrderStatus /\ TRUE \in BOOLEAN
      BY <1>0, ColumnValues
    <3> QED
      BY <3>1 DEF OrderRow
  <2>2. orders' = [orders EXCEPT ![o] = row]
    BY <1>0, <2>0
  <2>3. orders' \in [OrderIds -> OrderRow]
    BY <1>0, <2>1, <2>2
  <2> QED
    BY <1>20, <2>3 DEF TypeOK, CancelUnpaidOrder
<1>21. ASSUME NEW o \in OrderIds, NEW p \in PaymentIds, NEW r \in RefundIds, CancelPaidOrder(o, p, r) PROVE TypeOK'
  <2>1. stock' \in [Skus -> Nat]
    BY <1>21, StockAssumption DEF TypeOK, CancelPaidOrder, ReturnStock, OrderRow
  <2>2. orders' \in [OrderIds -> OrderRow]
    <3> DEFINE row == [orders[o] EXCEPT !.status = "cancelled", !.cancelled_at = TRUE]
    <3>1. orders[o] \in OrderRow /\ "cancelled" \in OrderStatus /\ TRUE \in BOOLEAN
      BY <1>0, ColumnValues
    <3>2. row \in OrderRow
      BY <3>1 DEF OrderRow
    <3>3. orders' = [orders EXCEPT ![o] = row]
      BY <1>0, <1>21 DEF CancelPaidOrder
    <3> QED
      BY <1>0, <3>2, <3>3
  <2>3. refunds' \in [RefundIds -> RefundRow] /\ inflight' \subseteq Requests
    BY <1>0, <1>21 DEF TypeOK, CancelPaidOrder, RefundRow, RefundStatus, Requests
  <2> QED
    BY <1>21, <2>1, <2>2, <2>3 DEF TypeOK, CancelPaidOrder
<1>22. ASSUME NEW r \in RefundIds, DispatchAccepted(r) PROVE TypeOK'
  <2> DEFINE row == [refunds[r] EXCEPT !.status = "processing", !.provider_request_id = TRUE]
  <2>1. refunds[r] \in RefundRow /\ "processing" \in RefundStatus /\ TRUE \in BOOLEAN
    BY <1>0 DEF RefundStatus
  <2>2. row \in RefundRow
    BY <2>1 DEF RefundRow
  <2>3. refunds' = [refunds EXCEPT ![r] = row]
    BY <1>0, <1>22 DEF DispatchAccepted
  <2>4. refunds' \in [RefundIds -> RefundRow]
    BY <1>0, <2>2, <2>3
  <2> QED
    BY <1>22, <2>4 DEF TypeOK, DispatchAccepted
<1>23. ASSUME NEW r \in RefundIds, DispatchRefused(r) PROVE TypeOK'
    BY <1>23 DEF TypeOK, DispatchRefused, RefundRow, RefundStatus
<1>24. ASSUME NEW r \in RefundIds, DispatchLost(r) PROVE TypeOK'
    BY <1>24 DEF TypeOK, DispatchLost
<1>25. ASSUME NEW r \in RefundIds, RecordRefundFailed(r) PROVE TypeOK'
    BY <1>25 DEF TypeOK, RecordRefundFailed, RefundRow, RefundStatus
<1>26. ASSUME NEW r \in RefundIds, RecordRefundSucceeded(r) PROVE TypeOK'
  <2>1. refunds[r].payment \in PaymentIds /\ payments[refunds[r].payment].order \in OrderIds
    BY <1>0 DEF RefundRow, PaymentRow
  <2>2. orders' \in [OrderIds -> OrderRow]
    BY <1>0, <1>26, <2>1, ColumnValues DEF RecordRefundSucceeded, OrderRow
  <2>3. payments' \in [PaymentIds -> PaymentRow]
    BY <1>0, <1>26, <2>1, ColumnValues DEF RecordRefundSucceeded, PaymentRow
  <2>4. refunds' \in [RefundIds -> RefundRow]
    BY <1>0, <1>26 DEF RecordRefundSucceeded, RefundRow, RefundStatus
  <2> QED
    BY <1>26, <2>2, <2>3, <2>4 DEF TypeOK, RecordRefundSucceeded
<1>27. ASSUME NEW o \in OrderIds, BookShipment(o) PROVE TypeOK'
    BY <1>27 DEF TypeOK, BookShipment
<1>28. ASSUME NEW o \in OrderIds, CourierMoves(o) PROVE TypeOK'
  <2>1. orders' \in [OrderIds -> OrderRow]
    BY <1>0, <1>28, ColumnValues DEF CourierMoves, OrderRow
  <2> QED
    BY <1>28, <2>1 DEF TypeOK, CourierMoves
<1>29. ASSUME NEW o \in OrderIds, CourierDelivers(o) PROVE TypeOK'
  <2>0. PICK status \in OrderStatus \cup {"absent"}, paid \in OrderPaymentStatus :
            orders' = [orders EXCEPT ![o].status = status, ![o].payment_status = paid]
    <3>1. orders[o].status \in OrderStatus \cup {"absent"}
      BY <1>0 DEF OrderRow
    <3>2. (IF orders[o].status = "return_requested" THEN orders[o].status ELSE "delivered")
            \in OrderStatus \cup {"absent"}
      BY <3>1, ColumnValues
    <3> QED
      BY <1>29, <3>2, CodCollectionType DEF CourierDelivers
  <2>1. orders' \in [OrderIds -> OrderRow]
    BY <1>0, <2>0 DEF OrderRow
  <2> QED
    BY <1>29, <2>1, CodCollectionType DEF TypeOK, CourierDelivers
<1>30. ASSUME NEW request \in inflight, RequestDies(request) PROVE TypeOK'
    BY <1>30 DEF TypeOK, RequestDies
<1> QED
    BY <1>1, <1>2, <1>3, <1>4, <1>5, <1>6, <1>7, <1>8, <1>9, <1>10, <1>11, <1>12, <1>13, <1>14, <1>15,
       <1>16, <1>17, <1>18, <1>19, <1>20, <1>21, <1>22, <1>23, <1>24, <1>25, <1>26, <1>27, <1>28, <1>29, <1>30
    DEF Next, ShopperStep, AttemptStep, GatewayStep, ProcessVerifiedPaymentResult, AdminStep, RefundStep, CourierStep

\* Every reachable state is well typed; in particular stock is never negative:
\* confirmations check it under the lock they decrement it with.
THEOREM TypeCorrect == Spec => []TypeOK
<1> QED
    BY InitType, StepType, PTL DEF Spec

-----------------------------------------------------------------------------
(* Payments: the inductive invariant behind CodExcludesOnline and            *)
(* NoDoubleChargePerProvider.                                                *)

Started(o) == orders[o].status \notin {"absent", "pending"}
Settled(o) == Started(o) \/ orders[o].payment_status = "paid"
Live(p) == payments[p].status # "absent"
Captured(p) == payments[p].status \in {"paid", "refunded"}

LivePaymentHasOrder == \A p \in PaymentIds : Live(p) => orders[payments[p].order].status # "absent"
RequestHasRow ==
    /\ \A o \in OrderIds, v \in OnlineProviders :
        [op |-> v, id |-> o] \in inflight => orders[o].status # "absent"
    /\ \A r \in RefundIds : [op |-> "dispatch", id |-> r] \in inflight => refunds[r].status # "absent"
CodStartsOrder == \A p \in PaymentIds : Live(p) /\ payments[p].provider = "cod" => Started(payments[p].order)
CaptureShows == \A p \in PaymentIds : Captured(p) => Settled(payments[p].order)
RefundOfCapture ==
    \A r \in RefundIds :
        refunds[r].status # "absent" =>
            Captured(refunds[r].payment) /\ Started(payments[refunds[r].payment].order)

PaymentInv ==
    /\ LivePaymentHasOrder
    /\ RequestHasRow
    /\ CodStartsOrder
    /\ CaptureShows
    /\ RefundOfCapture
    /\ CodExcludesOnline
    /\ NoDoubleChargePerProvider

\* The order a row refers to, and the payment a refund refers to, exist.
LEMMA RowTypes ==
    ASSUME TypeOK
    PROVE  /\ orders \in [OrderIds -> OrderRow]
           /\ payments \in [PaymentIds -> PaymentRow]
           /\ refunds \in [RefundIds -> RefundRow]
           /\ \A p \in PaymentIds : payments[p].order \in OrderIds
           /\ \A p \in PaymentIds : payments[p].provider \in {"payu", "breeze", "cod"}
           /\ \A p \in PaymentIds :
                payments[p].status \in {"absent", "pending", "paid", "failed", "cancelled", "refunded"}
           /\ \A r \in RefundIds : refunds[r].payment \in PaymentIds
<1> QED
    BY DEF TypeOK, OrderRow, PaymentRow, RefundRow, PaymentStatus, OnlineProviders

LEMMA InitPayments == Init => PaymentInv
<1> SUFFICES ASSUME Init PROVE PaymentInv
    OBVIOUS
<1>1. /\ \A p \in PaymentIds : payments[p].status = "absent"
      /\ \A r \in RefundIds : refunds[r].status = "absent"
      /\ inflight = {}
    BY DEF Init, AbsentPayment, AbsentRefund
<1> QED
    BY <1>1 DEF PaymentInv, LivePaymentHasOrder, RequestHasRow, CodStartsOrder, CaptureShows, RefundOfCapture,
        CodExcludesOnline, NoDoubleChargePerProvider, Live, Captured

\* What a step that opens no payment may do to an order, a payment and a refund.
OrderForward(o) ==
    /\ orders[o].status # "absent" => orders'[o].status # "absent"
    /\ Started(o) => Started(o)'
    /\ orders[o].status # "absent" /\ Settled(o) => Settled(o)'
PaymentForward(p) ==
    /\ payments'[p].order = payments[p].order
    /\ payments'[p].provider = payments[p].provider
    /\ \/ payments'[p].status = payments[p].status
       \/ payments[p].status = "pending" /\ payments'[p].status \in {"failed", "cancelled"}
       \/ payments[p].status = "pending" /\ payments'[p].status = "paid" /\ Settled(payments[p].order)'
       \/ Captured(p) /\ payments'[p].status = "refunded"
RefundForward(r) ==
    /\ refunds[r].status # "absent" => refunds'[r].status # "absent"
    /\ \/ refunds'[r].status = "absent"
       \/ refunds[r].status # "absent" /\ refunds'[r].payment = refunds[r].payment
       \/ (Captured(refunds[r].payment) /\ Started(payments[refunds[r].payment].order))'
RequestsForward ==
    /\ \A o \in OrderIds, v \in OnlineProviders :
        [op |-> v, id |-> o] \in inflight' => [op |-> v, id |-> o] \in inflight \/ Payable(o)
    /\ \A r \in RefundIds :
        [op |-> "dispatch", id |-> r] \in inflight' =>
            [op |-> "dispatch", id |-> r] \in inflight \/ refunds'[r].status # "absent"

\* Rows that move forward keep the payment invariant.
LEMMA RowsForward ==
    ASSUME TypeOK, TypeOK', PaymentInv,
           \A o \in OrderIds : OrderForward(o),
           \A p \in PaymentIds : PaymentForward(p),
           \A r \in RefundIds : RefundForward(r),
           RequestsForward
    PROVE  PaymentInv'
<1>1. LivePaymentHasOrder'
    BY RowTypes DEF PaymentInv, LivePaymentHasOrder, OrderForward, PaymentForward, Live, Captured
<1>2. RequestHasRow'
    BY RowTypes DEF PaymentInv, RequestHasRow, OrderForward, RefundForward, RequestsForward, Payable
<1>3. CodStartsOrder'
    BY RowTypes DEF PaymentInv, CodStartsOrder, OrderForward, PaymentForward, Live, Captured
<1>4. CaptureShows'
    BY RowTypes DEF PaymentInv, CaptureShows, LivePaymentHasOrder, OrderForward, PaymentForward, Captured, Live
<1>5. RefundOfCapture'
    BY RowTypes DEF PaymentInv, RefundOfCapture, OrderForward, PaymentForward, RefundForward, Captured
<1>6. CodExcludesOnline'
    BY RowTypes DEF PaymentInv, CodExcludesOnline, PaymentForward, Captured
<1>7. NoDoubleChargePerProvider'
    BY RowTypes DEF PaymentInv, NoDoubleChargePerProvider, PaymentForward, Captured
<1> QED
    BY <1>1, <1>2, <1>3, <1>4, <1>5, <1>6, <1>7 DEF PaymentInv

\* No status is reachable in one step that is "absent" or "pending", and only a
\* pending order can be confirmed.
LEMMA NextIsStarted ==
    \A status \in OrderStatus \cup {"absent"} :
        /\ \A next \in ValidNext[status] : next \notin {"absent", "pending"} /\ status # "absent"
        /\ "confirmed" \in ValidNext[status] => status = "pending"
<1> QED
    BY DEF OrderStatus, ValidNext

\* Collecting the cash of an order that is started moves its payments forward.
LEMMA CodCollectionForward ==
    ASSUME TypeOK, NEW o \in OrderIds, payments' = CodCollected(o), Started(o)',
           NEW p \in PaymentIds
    PROVE  PaymentForward(p)
<1> QED
    BY RowTypes DEF CodCollected, PaymentsIn, PaymentsOf, PaymentForward, Settled

LEMMA StepPayments == TypeOK /\ PaymentInv /\ [Next]_vars => PaymentInv'
<1> SUFFICES ASSUME TypeOK, TypeOK', PaymentInv, [Next]_vars PROVE PaymentInv'
    BY StepType
<1> USE RowTypes
<1>0. \A o \in OrderIds : orders[o].status \in OrderStatus \cup {"absent"}
    BY DEF OrderRow
<1>r. ASSUME UNCHANGED <<orders, payments, refunds>>,
             RequestsForward
      PROVE  PaymentInv'
    BY <1>r, RowsForward DEF OrderForward, PaymentForward, RefundForward, Started, Settled
<1>1. CASE UNCHANGED vars
    BY <1>1, <1>r DEF vars, RequestsForward
<1>2. ASSUME NEW s \in Shoppers, OpenCart(s) PROVE PaymentInv'
    BY <1>2, <1>r DEF OpenCart, RequestsForward
<1>3. ASSUME NEW s \in Shoppers, NEW o \in OrderIds, NEW b \in Baskets, CreateOrder(s, o, b) PROVE PaymentInv'
    BY <1>3, RowsForward DEF CreateOrder, NewOrder, IsNextId, OrderForward, PaymentForward, RefundForward, RequestsForward, Started, Settled
<1>4. ASSUME NEW o \in OrderIds, PerformPendingOrderCancellation(o) PROVE PaymentInv'
    BY <1>4, RowsForward
    DEF PerformPendingOrderCancellation, OrderForward, PaymentForward, RefundForward, RequestsForward, Started, Settled
<1>5. ASSUME NEW o \in OrderIds, InitiatePayuCheckout(o) PROVE PaymentInv'
    BY <1>5, <1>r DEF InitiatePayuCheckout, RequestsForward
<1>6. ASSUME NEW o \in OrderIds, InitiateBreezeCheckout(o) PROVE PaymentInv'
    BY <1>6, <1>r DEF InitiateBreezeCheckout, RequestsForward
<1>7. ASSUME NEW o \in OrderIds, NEW p \in PaymentIds, ConfirmCodOrder(o, p) PROVE PaymentInv'
  <2> DEFINE row == [status |-> "pending", order |-> o, provider |-> "cod", provider_order_id |-> FALSE]
  <2>1. /\ payments[p].status = "absent"
        /\ payments' = [payments EXCEPT ![p] = row]
        /\ refunds' = refunds /\ inflight' = inflight
    BY <1>7 DEF ConfirmCodOrder, IsNextId
  <2>2. /\ orders[o].status = "pending" /\ ~Settled(o)
        /\ orders'[o].status = "confirmed"
        /\ \A other \in OrderIds \ {o} : orders'[other] = orders[other]
    BY <1>0, <1>7, NextIsStarted DEF ConfirmCodOrder, CanConfirm, Settled, Started
  <2>3. \A q \in PaymentIds : Live(q) /\ payments[q].order = o => payments[q].status \in {"failed", "cancelled"}
    BY <1>7, <2>2 DEF ConfirmCodOrder, PaymentsIn, PaymentsOf, OnlineProviders, PaymentInv, CaptureShows, Captured, Live
  <2>4. /\ payments'[p] = row
        /\ \A q \in PaymentIds \ {p} : payments'[q] = payments[q]
    BY <2>1
  <2>5. LivePaymentHasOrder' /\ RequestHasRow'
    BY <2>1, <2>2, <2>4 DEF PaymentInv, LivePaymentHasOrder, RequestHasRow, Live
  <2>6. CodStartsOrder' /\ CaptureShows'
    BY <2>2, <2>3, <2>4 DEF PaymentInv, CodStartsOrder, CaptureShows, Started, Settled, Live, Captured
  <2>7. RefundOfCapture'
    BY <2>1, <2>2, <2>4 DEF PaymentInv, RefundOfCapture, Captured, Started
  <2>8. \A q \in PaymentIds : Live(q) /\ payments[q].order = o => payments[q].provider # "cod"
    BY <2>2 DEF PaymentInv, CodStartsOrder, Settled
  <2>9. CodExcludesOnline'
    BY <2>3, <2>4, <2>8 DEF PaymentInv, CodExcludesOnline, Live
  <2>10. NoDoubleChargePerProvider'
    BY <2>3, <2>4, <2>8 DEF PaymentInv, NoDoubleChargePerProvider, Live
  <2> QED
    BY <2>5, <2>6, <2>7, <2>9, <2>10 DEF PaymentInv
<1>8. ASSUME NEW o \in OrderIds, NEW v \in OnlineProviders, NEW p \in PaymentIds,
             CreatePaymentAttempt(o, v, p) PROVE PaymentInv'
  <2> DEFINE row == [status |-> "pending", order |-> o, provider |-> v, provider_order_id |-> FALSE]
  <2>1. /\ payments[p].status = "absent"
        /\ payments' = [payments EXCEPT ![p] = row]
        /\ refunds' = refunds /\ orders' = orders
        /\ \A request \in inflight' : request \in inflight \/ request.op = "txn"
    BY <1>8 DEF CreatePaymentAttempt, IsNextId, OnlineProviders
  <2>2. orders[o].status # "absent"
    BY <1>8 DEF CreatePaymentAttempt, PaymentInv, RequestHasRow
  <2>3. /\ v # "cod"
        /\ \A q \in PaymentIds : Live(q) /\ payments[q].order = o =>
            /\ payments[q].provider # "cod"
            /\ payments[q].status # "paid"
            /\ payments[q].provider = v => payments[q].status # "pending"
    BY <1>8 DEF CreatePaymentAttempt, AttemptAllowed, HasCodPayment, PaymentsIn, PaymentsOf, OnlineProviders, Live
  <2>4. /\ payments'[p] = row
        /\ \A q \in PaymentIds \ {p} : payments'[q] = payments[q]
    BY <2>1
  <2>5. LivePaymentHasOrder' /\ RequestHasRow'
    BY <2>1, <2>2, <2>4 DEF PaymentInv, LivePaymentHasOrder, RequestHasRow, Live, OnlineProviders
  <2>6. CodStartsOrder' /\ CaptureShows'
    BY <2>1, <2>3, <2>4 DEF PaymentInv, CodStartsOrder, CaptureShows, Started, Settled, Live, Captured
  <2>7. RefundOfCapture'
    BY <2>1, <2>4 DEF PaymentInv, RefundOfCapture, Captured, Started
  <2>8. CodExcludesOnline'
    BY <2>3, <2>4 DEF PaymentInv, CodExcludesOnline, Live
  <2>9. NoDoubleChargePerProvider'
    BY <2>3, <2>4 DEF PaymentInv, NoDoubleChargePerProvider, Live
  <2> QED
    BY <2>5, <2>6, <2>7, <2>8, <2>9 DEF PaymentInv
<1>9. ASSUME NEW o \in OrderIds, NEW v \in OnlineProviders, NEW p \in PaymentIds,
             ReuseActiveAttempt(o, v, p) PROVE PaymentInv'
    BY <1>9, <1>r DEF ReuseActiveAttempt, RequestsForward, OnlineProviders
<1>10. ASSUME NEW o \in OrderIds, NEW v \in OnlineProviders, RejectPaymentAttempt(o, v) PROVE PaymentInv'
    BY <1>10, <1>r DEF RejectPaymentAttempt, RequestsForward
<1>11. ASSUME NEW p \in PaymentIds, EnsureProviderTransactionId(p) PROVE PaymentInv'
    BY <1>11, RowsForward
    DEF EnsureProviderTransactionId, OrderForward, PaymentForward, RefundForward, RequestsForward, Started, Settled
<1>12. ASSUME NEW p \in PaymentIds, NEW v \in {"captured", "failed", "cancelled"}, GatewayDecides(p, v) PROVE PaymentInv'
    BY <1>12, <1>r DEF GatewayDecides, RequestsForward
<1>13. ASSUME NEW r \in RefundIds, NEW v \in {"paid_out", "rejected"}, GatewaySettlesRefund(r, v) PROVE PaymentInv'
    BY <1>13, <1>r DEF GatewaySettlesRefund, RequestsForward
<1>14. ASSUME NEW p \in PaymentIds, RecordDeclined(p) PROVE PaymentInv'
    BY <1>14, RowsForward DEF RecordDeclined, OrderForward, PaymentForward, RefundForward, RequestsForward, Started, Settled
<1>c. ASSUME NEW p \in PaymentIds, CapturePending(p), UNCHANGED <<refunds, inflight>>,
             payments' = [payments EXCEPT ![p].status = "paid"],
             \A o \in OrderIds : OrderForward(o),
             Settled(payments[p].order)'
      PROVE  PaymentInv'
  <2>1. \A q \in PaymentIds : PaymentForward(q)
    BY <1>c DEF CapturePending, PaymentForward
  <2>2. \A r \in RefundIds : RefundForward(r)
    BY <1>c DEF RefundForward
  <2> QED
    BY <1>c, <2>1, <2>2, RowsForward DEF RequestsForward
<1>15. ASSUME NEW p \in PaymentIds, RecordRepeatedCapture(p) PROVE PaymentInv'
  <2>1. payments'[p].order = payments[p].order /\ orders' = orders
    BY <1>15 DEF RecordRepeatedCapture
  <2>2. (\A o \in OrderIds : OrderForward(o)) /\ Settled(payments[p].order)'
    BY <1>15, <2>1 DEF RecordRepeatedCapture, OrderForward, Started, Settled
  <2> QED
    BY <1>15, <1>c, <2>2 DEF RecordRepeatedCapture
<1>16. ASSUME NEW p \in PaymentIds, ConfirmPaidOrder(p) PROVE PaymentInv'
  <2> DEFINE o == payments[p].order
  <2>1. /\ o \in OrderIds
        /\ orders'[o].payment_status = "paid" /\ orders'[o].status = "confirmed"
        /\ payments'[p].order = payments[p].order
        /\ \A other \in OrderIds \ {o} : orders'[other] = orders[other]
    BY <1>16 DEF ConfirmPaidOrder
  <2>2. (\A other \in OrderIds : OrderForward(other)) /\ Settled(o)'
    BY <2>1 DEF OrderForward, Started, Settled
  <2> QED
    BY <1>16, <1>c, <2>2 DEF ConfirmPaidOrder
<1>17. ASSUME NEW p \in PaymentIds, FlagPaidOrder(p) PROVE PaymentInv'
  <2> DEFINE o == payments[p].order
  <2>1. /\ o \in OrderIds
        /\ orders'[o].payment_status = "paid" /\ orders'[o].status = orders[o].status
        /\ payments'[p].order = payments[p].order
        /\ \A other \in OrderIds \ {o} : orders'[other] = orders[other]
    BY <1>17 DEF FlagPaidOrder
  <2>2. (\A other \in OrderIds : OrderForward(other)) /\ Settled(o)'
    BY <2>1 DEF OrderForward, Started, Settled
  <2> QED
    BY <1>17, <1>c, <2>2 DEF FlagPaidOrder
<1>18. ASSUME NEW o \in OrderIds, NEW next \in OrderStatus, AdvanceStatus(o, next) PROVE PaymentInv'
    BY <1>0, <1>18, RowsForward, NextIsStarted
    DEF AdvanceStatus, OrderForward, PaymentForward, RefundForward, RequestsForward, Started, Settled
<1>19. ASSUME NEW o \in OrderIds, DeliverByHand(o) PROVE PaymentInv'
  <2>1. /\ orders'[o].status = "delivered"
        /\ \A other \in OrderIds \ {o} : orders'[other] = orders[other]
    BY <1>19 DEF DeliverByHand
  <2>2. (\A other \in OrderIds : OrderForward(other)) /\ Started(o)'
    BY <2>1 DEF OrderForward, Started, Settled
  <2>3. \A p \in PaymentIds : PaymentForward(p)
    BY <1>19, <2>2, CodCollectionForward DEF DeliverByHand
  <2> QED
    BY <1>19, <2>2, <2>3, RowsForward DEF DeliverByHand, RefundForward, RequestsForward
<1>20. ASSUME NEW o \in OrderIds, CancelUnpaidOrder(o) PROVE PaymentInv'
    BY <1>20, RowsForward DEF CancelUnpaidOrder, OrderForward, PaymentForward, RefundForward, RequestsForward, Started, Settled
<1>21. ASSUME NEW o \in OrderIds, NEW p \in PaymentIds, NEW r \in RefundIds, CancelPaidOrder(o, p, r) PROVE PaymentInv'
  <2>1. /\ orders'[o].status = "cancelled"
        /\ \A other \in OrderIds \ {o} : orders'[other] = orders[other]
        /\ payments' = payments
        /\ refunds'[r].payment = p
        /\ \A t \in RefundIds \ {r} : refunds'[t] = refunds[t]
        /\ refunds[r].status = "absent" /\ refunds'[r].status = "pending"
        /\ RequestsForward
    BY <1>21 DEF CancelPaidOrder, IsNextId, OnlineProviders, RequestsForward
  <2>2. payments[p].order = o /\ Captured(p)
    BY <1>21 DEF CancelPaidOrder, Refundable, PaymentsIn, PaymentsOf, Captured
  <2>3. \A other \in OrderIds : OrderForward(other)
    BY <2>1 DEF OrderForward, Started, Settled
  <2>4. \A t \in RefundIds : RefundForward(t)
    BY <2>1, <2>2 DEF RefundForward, Captured, Started
  <2>5. \A q \in PaymentIds : PaymentForward(q)
    BY <2>1 DEF PaymentForward
  <2> QED
    BY <2>1, <2>3, <2>4, <2>5, RowsForward
<1>d. ASSUME UNCHANGED <<orders, payments>>, RequestsForward,
             NEW r \in RefundIds, refunds[r].status # "absent",
             refunds'[r].status # "absent", refunds'[r].payment = refunds[r].payment,
             \A t \in RefundIds \ {r} : refunds'[t] = refunds[t]
      PROVE  PaymentInv'
    BY <1>d, RowsForward DEF OrderForward, PaymentForward, RefundForward, Started, Settled
<1>22. ASSUME NEW r \in RefundIds, DispatchAccepted(r) PROVE PaymentInv'
  <2>1. refunds[r].status # "absent"
    BY <1>22 DEF DispatchAccepted, PaymentInv, RequestHasRow
  <2>2. /\ refunds'[r].status = "processing" /\ refunds'[r].payment = refunds[r].payment
        /\ \A t \in RefundIds \ {r} : refunds'[t] = refunds[t]
    BY <1>22 DEF DispatchAccepted, RefundRow
  <2> QED
    BY <1>22, <1>d, <2>1, <2>2 DEF DispatchAccepted, RequestsForward
<1>23. ASSUME NEW r \in RefundIds, DispatchRefused(r) PROVE PaymentInv'
  <2>1. refunds[r].status # "absent"
    BY <1>23 DEF DispatchRefused, PaymentInv, RequestHasRow
  <2>2. /\ refunds'[r].status = "failed" /\ refunds'[r].payment = refunds[r].payment
        /\ \A t \in RefundIds \ {r} : refunds'[t] = refunds[t]
    BY <1>23 DEF DispatchRefused, RefundRow
  <2> QED
    BY <1>23, <1>d, <2>1, <2>2 DEF DispatchRefused, RequestsForward
<1>24. ASSUME NEW r \in RefundIds, DispatchLost(r) PROVE PaymentInv'
    BY <1>24, <1>r DEF DispatchLost, RequestsForward
<1>25. ASSUME NEW r \in RefundIds, RecordRefundFailed(r) PROVE PaymentInv'
    BY <1>25, RowsForward
    DEF RecordRefundFailed, Verifiable, OrderForward, PaymentForward, RefundForward, RequestsForward, Started, Settled
<1>26. ASSUME NEW r \in RefundIds, RecordRefundSucceeded(r) PROVE PaymentInv'
  <2> DEFINE p == refunds[r].payment
             o == payments[p].order
  <2>1. /\ refunds[r].status # "absent" /\ refunds'[r].status # "absent" /\ p \in PaymentIds /\ o \in OrderIds
        /\ \A t \in RefundIds : refunds'[t].payment = refunds[t].payment
        /\ \A t \in RefundIds \ {r} : refunds'[t] = refunds[t]
        /\ payments'[p] = [payments[p] EXCEPT !.status = "refunded"]
        /\ \A q \in PaymentIds \ {p} : payments'[q] = payments[q]
        /\ orders'[o].status = orders[o].status
        /\ \A other \in OrderIds \ {o} : orders'[other] = orders[other]
        /\ inflight' = inflight
    BY <1>26 DEF RecordRefundSucceeded, Verifiable
  <2>2. Captured(p) /\ Started(o)
    BY <2>1 DEF PaymentInv, RefundOfCapture
  <2>3. \A other \in OrderIds : OrderForward(other)
    BY <2>1, <2>2 DEF OrderForward, Started, Settled
  <2>4. \A q \in PaymentIds : PaymentForward(q)
    BY <2>1, <2>2 DEF PaymentForward, PaymentRow
  <2>5. \A t \in RefundIds : RefundForward(t)
    BY <2>1 DEF RefundForward
  <2> QED
    BY <2>1, <2>3, <2>4, <2>5, RowsForward DEF RequestsForward
<1>27. ASSUME NEW o \in OrderIds, BookShipment(o) PROVE PaymentInv'
    BY <1>27, <1>r DEF BookShipment, RequestsForward
<1>28. ASSUME NEW o \in OrderIds, CourierMoves(o) PROVE PaymentInv'
    BY <1>28, RowsForward DEF CourierMoves, OrderForward, PaymentForward, RefundForward, RequestsForward, Started, Settled
<1>29. ASSUME NEW o \in OrderIds, CourierDelivers(o) PROVE PaymentInv'
  <2>1. /\ orders'[o].status \in {"delivered", "return_requested"}
        /\ \A other \in OrderIds \ {o} : orders'[other] = orders[other]
    BY <1>29 DEF CourierDelivers
  <2>2. (\A other \in OrderIds : OrderForward(other)) /\ Started(o)'
    BY <2>1 DEF OrderForward, Started, Settled
  <2>3. \A p \in PaymentIds : PaymentForward(p)
    BY <1>29, <2>2, CodCollectionForward DEF CourierDelivers
  <2> QED
    BY <1>29, <2>2, <2>3, RowsForward DEF CourierDelivers, RefundForward, RequestsForward
<1>30. ASSUME NEW request \in inflight, RequestDies(request) PROVE PaymentInv'
    BY <1>30, <1>r DEF RequestDies, RequestsForward
<1> QED
    BY <1>1, <1>2, <1>3, <1>4, <1>5, <1>6, <1>7, <1>8, <1>9, <1>10, <1>11, <1>12, <1>13, <1>14, <1>15,
       <1>16, <1>17, <1>18, <1>19, <1>20, <1>21, <1>22, <1>23, <1>24, <1>25, <1>26, <1>27, <1>28, <1>29, <1>30
    DEF Next, ShopperStep, AttemptStep, GatewayStep, ProcessVerifiedPaymentResult, AdminStep, RefundStep, CourierStep

\* The payment invariant holds of every reachable state.
THEOREM PaymentsCorrect == Spec => []PaymentInv
<1>1. Init => TypeOK /\ PaymentInv
    BY InitType, InitPayments
<1>2. TypeOK /\ PaymentInv /\ [Next]_vars => (TypeOK /\ PaymentInv)'
    BY StepType, StepPayments
<1> QED
    BY <1>1, <1>2, PTL DEF Spec

\* The shopper never pays online what the courier collects at the door: confirming
\* an order for COD and opening or capturing an online attempt exclude each other,
\* for any number of orders, attempts, shoppers and requests in flight.
THEOREM CodExcludesOnlineAlways == Spec => []CodExcludesOnline
<1>1. PaymentInv => CodExcludesOnline
    BY DEF PaymentInv
<1> QED
    BY <1>1, PaymentsCorrect, PTL

\* One provider never charges twice for an order.
THEOREM NoDoubleChargeAlways == Spec => []NoDoubleChargePerProvider
<1>1. PaymentInv => NoDoubleChargePerProvider
    BY DEF PaymentInv
<1> QED
    BY <1>1, PaymentsCorrect, PTL

-----------------------------------------------------------------------------
(* Goods: the inductive invariant behind FulfilmentBacked,                   *)
(* CapturedMoneyAccounted, CancellationSticks and RefundedOrderHoldsNoGoods. *)

Fulfilling == {"confirmed", "processing", "shipped", "delivered", "return_requested"}
GoodsOf(o) ==
    /\ orders[o].status \in {"absent", "pending"} => ~held[o]
    /\ orders[o].status = "absent" => shipments[o] = "none"
    /\ orders[o].status = "pending" /\ orders[o].payment_status = "paid" => orders[o].commerce_exception # "none"
    /\ orders[o].status \in Fulfilling /\ orders[o].commerce_exception = "none" /\ ~orders[o].cancelled_at => held[o]
    /\ shipments[o] # "none" /\ orders[o].commerce_exception = "none" /\ ~orders[o].cancelled_at => held[o]
    /\ orders[o].cancelled_at /\ shipments[o] # "delivered" => orders[o].status = "cancelled"
CodHoldsGoods == \A p \in PaymentIds : Live(p) /\ payments[p].provider = "cod" => held[payments[p].order]

GoodsInv ==
    /\ \A o \in OrderIds : GoodsOf(o)
    /\ CodHoldsGoods
    /\ CapturedMoneyAccounted
    /\ RefundedOrderHoldsNoGoods

LEMMA GoodsTypes ==
    ASSUME TypeOK
    PROVE  /\ \A o \in OrderIds :
                /\ orders[o].status \in {"absent", "pending", "cancelled"} \cup Fulfilling
                /\ orders[o].payment_status \in {"pending", "paid", "refunded"}
                /\ orders[o].commerce_exception \in {"none", "inventory_unavailable", "order_not_confirmable"}
                /\ orders[o].cancelled_at \in BOOLEAN
           /\ shipments \in [OrderIds -> {"none", "booked", "moving", "delivered"}]
           /\ held \in [OrderIds -> BOOLEAN]
<1> QED
    BY DEF TypeOK, OrderRow, OrderStatus, OrderPaymentStatus, CommerceException, Fulfilling

LEMMA InitGoods == Init => GoodsInv
<1> SUFFICES ASSUME Init PROVE GoodsInv
    OBVIOUS
<1>1. /\ \A p \in PaymentIds : payments[p].status = "absent"
      /\ \A r \in RefundIds : refunds[r].status = "absent"
      /\ held = [o \in OrderIds |-> FALSE]
      /\ shipments = [o \in OrderIds |-> "none"]
    BY DEF Init, AbsentPayment, AbsentRefund
<1>2. \A o \in OrderIds :
        /\ orders[o].status \in {"absent", "pending"}
        /\ orders[o].payment_status = "pending"
        /\ ~orders[o].cancelled_at
    BY DEF Init, AbsentOrder, NewOrder
<1> QED
    BY <1>1, <1>2 DEF GoodsInv, GoodsOf, CodHoldsGoods, CapturedMoneyAccounted, RefundedOrderHoldsNoGoods, Live, Fulfilling

\* What a step other than the cancellation of a paid order does to the books.
HeldForward(o) == (held[o] => held'[o]) /\ (held'[o] => held[o] \/ orders[o].status = "pending")
PaidForward(o) ==
    orders'[o].payment_status = "paid" =>
        \/ held'[o] \/ orders'[o].commerce_exception # "none"
        \/ orders[o].payment_status = "paid" /\ orders'[o].commerce_exception = orders[o].commerce_exception
PaymentKept(p) ==
    /\ Live(p) => payments'[p].order = payments[p].order /\ payments'[p].provider = payments[p].provider
    /\ Live(p)' /\ payments'[p].provider = "cod" => Live(p) \/ held'[payments'[p].order]
RefundKept(r) ==
    /\ refunds'[r].payment = refunds[r].payment
    /\ refunds'[r].status = "absent" <=> refunds[r].status = "absent"

LEMMA GoodsForward ==
    ASSUME TypeOK, TypeOK', PaymentInv, GoodsInv,
           \A o \in OrderIds : GoodsOf(o)' /\ HeldForward(o) /\ PaidForward(o),
           \A p \in PaymentIds : PaymentKept(p),
           \A r \in RefundIds : RefundKept(r)
    PROVE  GoodsInv'
<1> USE RowTypes, GoodsTypes
<1>1. CodHoldsGoods'
    BY DEF GoodsInv, CodHoldsGoods, PaymentKept, HeldForward
<1>2. \A r \in RefundIds : refunds[r].status # "absent" =>
        /\ Live(refunds[r].payment)
        /\ Started(payments[refunds[r].payment].order)
    BY DEF PaymentInv, RefundOfCapture, Captured, Live
<1>3. CapturedMoneyAccounted'
    BY <1>2 DEF GoodsInv, CapturedMoneyAccounted, HeldForward, PaidForward, PaymentKept, RefundKept
<1>4. RefundedOrderHoldsNoGoods'
    BY <1>2 DEF GoodsInv, RefundedOrderHoldsNoGoods, HeldForward, PaymentKept, RefundKept, Started
<1> QED
    BY <1>1, <1>3, <1>4 DEF GoodsInv

\* An order a step does not touch keeps its goods.
LEMMA GoodsFrame ==
    ASSUME TypeOK, GoodsInv, NEW o \in OrderIds,
           orders'[o] = orders[o], held'[o] = held[o], shipments'[o] = shipments[o]
    PROVE  GoodsOf(o)' /\ HeldForward(o) /\ PaidForward(o)
<1> QED
    BY DEF GoodsInv, GoodsOf, HeldForward, PaidForward

\* A step that touches neither an order, its goods nor its parcel.
LEMMA GoodsUntouched ==
    ASSUME TypeOK, TypeOK', PaymentInv, GoodsInv, UNCHANGED <<orders, held, shipments>>,
           \A p \in PaymentIds : PaymentKept(p),
           \A r \in RefundIds : RefundKept(r)
    PROVE  GoodsInv'
<1> QED
    BY GoodsFrame, GoodsForward

\* A step of one order that makes and settles no refund.
LEMMA GoodsOfOneOrder ==
    ASSUME TypeOK, TypeOK', PaymentInv, GoodsInv, NEW o \in OrderIds,
           UNCHANGED refunds,
           \A other \in OrderIds \ {o} :
                /\ orders'[other] = orders[other] /\ held'[other] = held[other]
                /\ shipments'[other] = shipments[other],
           GoodsOf(o)', HeldForward(o), PaidForward(o),
           \A p \in PaymentIds : PaymentKept(p)
    PROVE  GoodsInv'
<1>1. \A other \in OrderIds : GoodsOf(other)' /\ HeldForward(other) /\ PaidForward(other)
    BY GoodsFrame
<1>2. \A r \in RefundIds : RefundKept(r)
    BY DEF RefundKept
<1> QED
    BY <1>1, <1>2, GoodsForward

LEMMA StepGoods == TypeOK /\ PaymentInv /\ GoodsInv /\ [Next]_vars => GoodsInv'
<1> SUFFICES ASSUME TypeOK, TypeOK', PaymentInv, GoodsInv, [Next]_vars PROVE GoodsInv'
    BY StepType
<1> USE RowTypes, GoodsTypes
<1>u. ASSUME UNCHANGED <<orders, payments, refunds, held, shipments>> PROVE GoodsInv'
    BY <1>u, GoodsUntouched DEF PaymentKept, RefundKept, Live
<1>g. \A o \in OrderIds : GoodsOf(o)
    BY DEF GoodsInv
<1>s. \A o \in OrderIds : orders[o].status \in OrderStatus \cup {"absent"}
    BY DEF OrderRow
<1>1. CASE UNCHANGED vars
    BY <1>1, <1>u DEF vars
<1>2. ASSUME NEW s \in Shoppers, OpenCart(s) PROVE GoodsInv'
    BY <1>2, <1>u DEF OpenCart
<1>3. ASSUME NEW s \in Shoppers, NEW o \in OrderIds, NEW b \in Baskets, CreateOrder(s, o, b) PROVE GoodsInv'
  <2>1. /\ orders[o].status = "absent"
        /\ orders'[o].status = "pending" /\ orders'[o].payment_status = "pending"
        /\ ~orders'[o].cancelled_at
        /\ \A other \in OrderIds \ {o} : orders'[other] = orders[other]
        /\ UNCHANGED <<held, shipments, payments, refunds>>
    BY <1>3 DEF CreateOrder, NewOrder, IsNextId
  <2>2. GoodsOf(o)' /\ HeldForward(o) /\ PaidForward(o)
    BY <1>g, <2>1 DEF GoodsOf, HeldForward, PaidForward, Fulfilling
  <2> QED
    BY <2>1, <2>2, GoodsOfOneOrder DEF PaymentKept, Live
<1>c. ASSUME NEW o \in OrderIds, UNCHANGED <<held, shipments, payments, refunds>>,
             orders'[o].status = "cancelled", orders'[o].cancelled_at,
             orders'[o].payment_status = orders[o].payment_status,
             orders'[o].commerce_exception = orders[o].commerce_exception,
             \A other \in OrderIds \ {o} : orders'[other] = orders[other]
      PROVE  GoodsInv'
  <2>1. GoodsOf(o)' /\ HeldForward(o) /\ PaidForward(o)
    BY <1>g, <1>c DEF GoodsOf, HeldForward, PaidForward, Fulfilling
  <2> QED
    BY <1>c, <2>1, GoodsOfOneOrder DEF PaymentKept, Live
<1>4. ASSUME NEW o \in OrderIds, PerformPendingOrderCancellation(o) PROVE GoodsInv'
    BY <1>4, <1>c DEF PerformPendingOrderCancellation, OrderRow
<1>5. ASSUME NEW o \in OrderIds, InitiatePayuCheckout(o) PROVE GoodsInv'
    BY <1>5, <1>u DEF InitiatePayuCheckout
<1>6. ASSUME NEW o \in OrderIds, InitiateBreezeCheckout(o) PROVE GoodsInv'
    BY <1>6, <1>u DEF InitiateBreezeCheckout
<1>7. ASSUME NEW o \in OrderIds, NEW p \in PaymentIds, ConfirmCodOrder(o, p) PROVE GoodsInv'
  <2>1. /\ orders[o].status = "pending" /\ orders'[o].status = "confirmed"
        /\ orders'[o].cancelled_at = orders[o].cancelled_at
        /\ \A other \in OrderIds \ {o} : orders'[other] = orders[other]
        /\ held' = [held EXCEPT ![o] = TRUE] /\ UNCHANGED <<shipments, refunds>>
    BY <1>s, <1>7, NextIsStarted DEF ConfirmCodOrder, CanConfirm, OrderRow
  <2>2. GoodsOf(o)' /\ HeldForward(o) /\ PaidForward(o)
    BY <1>g, <2>1 DEF GoodsOf, HeldForward, PaidForward, Fulfilling
  <2>3. \A q \in PaymentIds : PaymentKept(q)
    BY <1>7, <2>1 DEF ConfirmCodOrder, IsNextId, PaymentKept, Live
  <2> QED
    BY <2>1, <2>2, <2>3, GoodsOfOneOrder
<1>8. ASSUME NEW o \in OrderIds, NEW v \in OnlineProviders, NEW p \in PaymentIds,
             CreatePaymentAttempt(o, v, p) PROVE GoodsInv'
    BY <1>8, GoodsUntouched DEF CreatePaymentAttempt, IsNextId, PaymentKept, RefundKept, Live, OnlineProviders
<1>9. ASSUME NEW o \in OrderIds, NEW v \in OnlineProviders, NEW p \in PaymentIds,
             ReuseActiveAttempt(o, v, p) PROVE GoodsInv'
    BY <1>9, <1>u DEF ReuseActiveAttempt
<1>10. ASSUME NEW o \in OrderIds, NEW v \in OnlineProviders, RejectPaymentAttempt(o, v) PROVE GoodsInv'
    BY <1>10, <1>u DEF RejectPaymentAttempt
<1>11. ASSUME NEW p \in PaymentIds, EnsureProviderTransactionId(p) PROVE GoodsInv'
    BY <1>11, GoodsUntouched DEF EnsureProviderTransactionId, PaymentKept, RefundKept, Live
<1>12. ASSUME NEW p \in PaymentIds, NEW v \in {"captured", "failed", "cancelled"}, GatewayDecides(p, v) PROVE GoodsInv'
    BY <1>12, <1>u DEF GatewayDecides
<1>13. ASSUME NEW r \in RefundIds, NEW v \in {"paid_out", "rejected"}, GatewaySettlesRefund(r, v) PROVE GoodsInv'
    BY <1>13, <1>u DEF GatewaySettlesRefund
<1>14. ASSUME NEW p \in PaymentIds, RecordDeclined(p) PROVE GoodsInv'
    BY <1>14, GoodsUntouched DEF RecordDeclined, PaymentKept, RefundKept, Live
<1>p. ASSUME NEW p \in PaymentIds, CapturePending(p),
             payments' = [payments EXCEPT ![p].status = "paid"]
      PROVE  payments'[p].order = payments[p].order /\ \A q \in PaymentIds : PaymentKept(q)
    BY <1>p DEF CapturePending, PaymentKept, Live
<1>15. ASSUME NEW p \in PaymentIds, RecordRepeatedCapture(p) PROVE GoodsInv'
    BY <1>15, <1>p, GoodsUntouched DEF RecordRepeatedCapture, RefundKept
<1>16. ASSUME NEW p \in PaymentIds, ConfirmPaidOrder(p) PROVE GoodsInv'
  <2>1. PICK o \in OrderIds :
        /\ o = payments[p].order
        /\ orders[o].status = "pending" /\ orders'[o].status = "confirmed"
        /\ orders'[o].cancelled_at = orders[o].cancelled_at
        /\ \A other \in OrderIds \ {o} : orders'[other] = orders[other]
        /\ held' = [held EXCEPT ![o] = TRUE] /\ UNCHANGED <<shipments, refunds>>
    <3> DEFINE o == payments[p].order
    <3>1. o \in OrderIds /\ orders[o].status = "pending"
      BY <1>s, <1>16, NextIsStarted DEF ConfirmPaidOrder, CanConfirm
    <3>2. /\ orders'[o].status = "confirmed"
          /\ orders'[o].cancelled_at = orders[o].cancelled_at
          /\ \A other \in OrderIds \ {o} : orders'[other] = orders[other]
      BY <1>16, <3>1 DEF ConfirmPaidOrder, OrderRow
    <3>3. held' = [held EXCEPT ![o] = TRUE] /\ UNCHANGED <<shipments, refunds>>
      BY <1>16 DEF ConfirmPaidOrder
    <3> QED
      BY <3>1, <3>2, <3>3
  <2>2. GoodsOf(o)' /\ HeldForward(o) /\ PaidForward(o)
    BY <1>g, <2>1 DEF GoodsOf, HeldForward, PaidForward, Fulfilling
  <2>3. \A q \in PaymentIds : PaymentKept(q)
    BY <1>16, <1>p DEF ConfirmPaidOrder
  <2> QED
    BY <2>1, <2>2, <2>3, GoodsOfOneOrder
<1>17. ASSUME NEW p \in PaymentIds, FlagPaidOrder(p) PROVE GoodsInv'
  <2>1. PICK o \in OrderIds :
        /\ o = payments[p].order
        /\ orders'[o].commerce_exception # "none"
        /\ orders'[o].status = orders[o].status
        /\ orders'[o].cancelled_at = orders[o].cancelled_at
        /\ \A other \in OrderIds \ {o} : orders'[other] = orders[other]
        /\ UNCHANGED <<held, shipments, refunds>>
    BY <1>17 DEF FlagPaidOrder, ExceptionFor, OrderRow
  <2>2. GoodsOf(o)' /\ HeldForward(o) /\ PaidForward(o)
    BY <1>g, <2>1 DEF GoodsOf, HeldForward, PaidForward
  <2>3. \A q \in PaymentIds : PaymentKept(q)
    BY <1>17, <1>p DEF FlagPaidOrder
  <2> QED
    BY <2>1, <2>2, <2>3, GoodsOfOneOrder
<1>f. ASSUME NEW o \in OrderIds, FulfilmentPaymentSafe(o) PROVE orders[o].payment_status = "paid" \/ held[o]
    BY <1>f DEF FulfilmentPaymentSafe, HasCodPayment, PaymentsOf, GoodsInv, CodHoldsGoods, Live
<1>v. \A status \in OrderStatus \cup {"absent"} :
        /\ "return_requested" \in ValidNext[status] => status = "delivered"
        /\ \A next \in ValidNext[status] :
            next # "cancelled" => next \in Fulfilling /\ status \notin {"absent", "cancelled"}
    BY DEF ValidNext, OrderStatus, Fulfilling
<1>18. ASSUME NEW o \in OrderIds, NEW next \in OrderStatus, AdvanceStatus(o, next) PROVE GoodsInv'
  <2>1. /\ orders'[o].status = next /\ next \in Fulfilling
        /\ orders[o].status \notin {"absent", "cancelled"}
        /\ orders[o].status = "delivered" \/ orders[o].payment_status = "paid" \/ held[o]
        /\ orders'[o].payment_status = orders[o].payment_status
        /\ orders'[o].commerce_exception = orders[o].commerce_exception
        /\ orders'[o].cancelled_at = orders[o].cancelled_at
        /\ \A other \in OrderIds \ {o} : orders'[other] = orders[other]
        /\ UNCHANGED <<held, shipments, refunds, payments>>
    BY <1>f, <1>s, <1>v, <1>18 DEF AdvanceStatus, OrderRow
  <2>2. GoodsOf(o)' /\ HeldForward(o) /\ PaidForward(o)
    BY <1>g, <2>1 DEF GoodsOf, HeldForward, PaidForward, Fulfilling
  <2> QED
    BY <2>1, <2>2, GoodsOfOneOrder DEF PaymentKept, Live
<1>k. ASSUME NEW o \in OrderIds, payments' = CodCollected(o) PROVE \A p \in PaymentIds : PaymentKept(p)
    BY <1>k DEF CodCollected, PaymentsIn, PaymentsOf, PaymentKept, Live
<1>a. \A o \in OrderIds : PaymentStatusAfterDelivery(o) = orders[o].payment_status \/ held[o]
    BY DEF PaymentStatusAfterDelivery, PaymentsIn, PaymentsOf, GoodsInv, CodHoldsGoods, Live
<1>19. ASSUME NEW o \in OrderIds, DeliverByHand(o) PROVE GoodsInv'
  <2>1. /\ orders'[o].status = "delivered"
        /\ orders[o].status \notin {"absent", "cancelled"}
        /\ orders[o].payment_status = "paid" \/ held[o]
        /\ orders'[o].payment_status = orders[o].payment_status \/ held[o]
        /\ orders'[o].commerce_exception = orders[o].commerce_exception
        /\ orders'[o].cancelled_at = orders[o].cancelled_at
        /\ \A other \in OrderIds \ {o} : orders'[other] = orders[other]
        /\ UNCHANGED <<held, shipments, refunds>>
    BY <1>f, <1>s, <1>v, <1>a, <1>19 DEF DeliverByHand, OrderRow
  <2>2. GoodsOf(o)' /\ HeldForward(o) /\ PaidForward(o)
    BY <1>g, <2>1 DEF GoodsOf, HeldForward, PaidForward, Fulfilling
  <2> QED
    BY <1>19, <1>k, <2>1, <2>2, GoodsOfOneOrder DEF DeliverByHand
<1>20. ASSUME NEW o \in OrderIds, CancelUnpaidOrder(o) PROVE GoodsInv'
    BY <1>20, <1>c DEF CancelUnpaidOrder, OrderRow
<1>21. ASSUME NEW o \in OrderIds, NEW p \in PaymentIds, NEW r \in RefundIds, CancelPaidOrder(o, p, r) PROVE GoodsInv'
  <2>1. /\ orders'[o].status = "cancelled" /\ orders'[o].cancelled_at
        /\ \A other \in OrderIds \ {o} : orders'[other] = orders[other]
        /\ held' = [held EXCEPT ![o] = FALSE]
        /\ UNCHANGED <<payments, shipments>>
        /\ refunds[r].status = "absent"
        /\ refunds'[r].status = "pending" /\ refunds'[r].payment = p
        /\ \A t \in RefundIds \ {r} : refunds'[t] = refunds[t]
    BY <1>21 DEF CancelPaidOrder, IsNextId
  <2>2. /\ payments[p].order = o /\ payments[p].provider = "payu"
        /\ payments[p].status = "paid"
    BY <1>21 DEF CancelPaidOrder, Refundable, PaymentsIn, PaymentsOf
  <2>3. \A x \in OrderIds : GoodsOf(x)'
    <3>1. GoodsOf(o)'
      BY <1>g, <2>1 DEF GoodsOf, Fulfilling
    <3> QED
      BY <2>1, <3>1, GoodsFrame
  <2>4. CodHoldsGoods'
    BY <2>1, <2>2 DEF PaymentInv, CodExcludesOnline, GoodsInv, CodHoldsGoods, Live
  <2>5. CapturedMoneyAccounted'
    BY <2>1, <2>2 DEF GoodsInv, CapturedMoneyAccounted
  <2>6. RefundedOrderHoldsNoGoods'
    BY <2>1, <2>2 DEF GoodsInv, RefundedOrderHoldsNoGoods
  <2> QED
    BY <2>3, <2>4, <2>5, <2>6 DEF GoodsInv
<1>d. \A r \in RefundIds : [op |-> "dispatch", id |-> r] \in inflight => refunds[r].status # "absent"
    BY DEF PaymentInv, RequestHasRow
<1>22. ASSUME NEW r \in RefundIds, DispatchAccepted(r) PROVE GoodsInv'
  <2>1. \A t \in RefundIds : RefundKept(t)
    BY <1>22, <1>d DEF DispatchAccepted, RefundKept, RefundRow
  <2> QED
    BY <1>22, <2>1, GoodsUntouched DEF DispatchAccepted, PaymentKept, Live
<1>23. ASSUME NEW r \in RefundIds, DispatchRefused(r) PROVE GoodsInv'
  <2>1. \A t \in RefundIds : RefundKept(t)
    BY <1>23, <1>d DEF DispatchRefused, RefundKept, RefundRow
  <2> QED
    BY <1>23, <2>1, GoodsUntouched DEF DispatchRefused, PaymentKept, Live
<1>24. ASSUME NEW r \in RefundIds, DispatchLost(r) PROVE GoodsInv'
    BY <1>24, <1>u DEF DispatchLost
<1>25. ASSUME NEW r \in RefundIds, RecordRefundFailed(r) PROVE GoodsInv'
  <2>1. \A t \in RefundIds : RefundKept(t)
    BY <1>25 DEF RecordRefundFailed, Verifiable, RefundKept, RefundRow
  <2> QED
    BY <1>25, <2>1, GoodsUntouched DEF RecordRefundFailed, PaymentKept, Live
<1>26. ASSUME NEW r \in RefundIds, RecordRefundSucceeded(r) PROVE GoodsInv'
  <2>1. PICK p \in PaymentIds, o \in OrderIds :
        /\ p = refunds[r].payment /\ o = payments[p].order
        /\ Captured(p)
        /\ \A t \in RefundIds : RefundKept(t)
        /\ payments' = [payments EXCEPT ![p].status = "refunded"]
        /\ orders' = [orders EXCEPT ![o].payment_status = "refunded"]
        /\ UNCHANGED <<held, shipments>>
    BY <1>26 DEF RecordRefundSucceeded, Verifiable, RefundKept, RefundRow, PaymentInv, RefundOfCapture
  <2>2. \A x \in OrderIds :
        /\ orders'[x].status = orders[x].status
        /\ orders'[x].commerce_exception = orders[x].commerce_exception
        /\ orders'[x].cancelled_at = orders[x].cancelled_at
        /\ orders'[x].payment_status \in {orders[x].payment_status, "refunded"}
    BY <2>1 DEF OrderRow
  <2>3. \A x \in OrderIds : GoodsOf(x)' /\ HeldForward(x) /\ PaidForward(x)
    <3>1. \A x \in OrderIds : GoodsOf(x)'
      BY <1>g, <2>1, <2>2 DEF GoodsOf
    <3>2. \A x \in OrderIds : HeldForward(x) /\ PaidForward(x)
      BY <2>1, <2>2 DEF HeldForward, PaidForward
    <3> QED
      BY <3>1, <3>2
  <2>4. \A q \in PaymentIds : PaymentKept(q)
    BY <2>1 DEF PaymentKept, Live, Captured
  <2> QED
    BY <2>1, <2>3, <2>4, GoodsForward
<1>27. ASSUME NEW o \in OrderIds, BookShipment(o) PROVE GoodsInv'
  <2>1. /\ orders[o].status = "confirmed" /\ ~orders[o].cancelled_at
        /\ shipments' = [shipments EXCEPT ![o] = "booked"]
        /\ UNCHANGED <<orders, held, refunds, payments>>
    BY <1>27 DEF BookShipment
  <2>2. GoodsOf(o)' /\ HeldForward(o) /\ PaidForward(o)
    BY <1>g, <2>1 DEF GoodsOf, HeldForward, PaidForward, Fulfilling
  <2> QED
    BY <2>1, <2>2, GoodsOfOneOrder DEF PaymentKept, Live
<1>28. ASSUME NEW o \in OrderIds, CourierMoves(o) PROVE GoodsInv'
  <2>1. /\ shipments[o] = "booked" /\ shipments' = [shipments EXCEPT ![o] = "moving"]
        /\ \/ orders'[o].status = orders[o].status
           \/ orders'[o].status = "shipped" /\ orders[o].status \in {"confirmed", "processing"}
        /\ orders'[o].payment_status = orders[o].payment_status
        /\ orders'[o].commerce_exception = orders[o].commerce_exception
        /\ orders'[o].cancelled_at = orders[o].cancelled_at
        /\ \A other \in OrderIds \ {o} : orders'[other] = orders[other]
        /\ UNCHANGED <<held, refunds, payments>>
    BY <1>28 DEF CourierMoves, OrderRow
  <2>2. GoodsOf(o)' /\ HeldForward(o) /\ PaidForward(o)
    BY <1>g, <2>1 DEF GoodsOf, HeldForward, PaidForward, Fulfilling
  <2> QED
    BY <2>1, <2>2, GoodsOfOneOrder DEF PaymentKept, Live
<1>29. ASSUME NEW o \in OrderIds, CourierDelivers(o) PROVE GoodsInv'
  <2>1. /\ shipments[o] # "none" /\ shipments' = [shipments EXCEPT ![o] = "delivered"]
        /\ orders'[o].status \in {"delivered", "return_requested"}
        /\ orders'[o].payment_status = orders[o].payment_status \/ held[o]
        /\ orders'[o].commerce_exception = orders[o].commerce_exception
        /\ orders'[o].cancelled_at = orders[o].cancelled_at
        /\ \A other \in OrderIds \ {o} : orders'[other] = orders[other]
        /\ UNCHANGED <<held, refunds>>
    BY <1>29, <1>a DEF CourierDelivers, OrderRow
  <2>2. GoodsOf(o)' /\ HeldForward(o) /\ PaidForward(o)
    BY <1>g, <2>1 DEF GoodsOf, HeldForward, PaidForward, Fulfilling
  <2> QED
    BY <1>29, <1>k, <2>1, <2>2, GoodsOfOneOrder DEF CourierDelivers
<1>30. ASSUME NEW request \in inflight, RequestDies(request) PROVE GoodsInv'
    BY <1>30, <1>u DEF RequestDies
<1> QED
    BY <1>1, <1>2, <1>3, <1>4, <1>5, <1>6, <1>7, <1>8, <1>9, <1>10, <1>11, <1>12, <1>13, <1>14, <1>15,
       <1>16, <1>17, <1>18, <1>19, <1>20, <1>21, <1>22, <1>23, <1>24, <1>25, <1>26, <1>27, <1>28, <1>29, <1>30
    DEF Next, ShopperStep, AttemptStep, GatewayStep, ProcessVerifiedPaymentResult, AdminStep, RefundStep, CourierStep

\* The goods invariant holds of every reachable state.
THEOREM GoodsCorrect == Spec => []GoodsInv
<1>1. Init => TypeOK /\ PaymentInv /\ GoodsInv
    BY InitType, InitPayments, InitGoods
<1>2. TypeOK /\ PaymentInv /\ GoodsInv /\ [Next]_vars => (TypeOK /\ PaymentInv /\ GoodsInv)'
    BY StepType, StepPayments, StepGoods
<1> QED
    BY <1>1, <1>2, PTL DEF Spec

\* No order without an exception is fulfilled around the stock decrement.
THEOREM FulfilmentBackedAlways == Spec => []FulfilmentBacked
<1>1. GoodsInv => FulfilmentBacked
    BY DEF GoodsInv, GoodsOf, FulfilmentBacked, Fulfilling
<1> QED
    BY <1>1, GoodsCorrect, PTL

\* Money recorded on an order has goods, an exception or a refund to show for it.
THEOREM CapturedMoneyAccountedAlways == Spec => []CapturedMoneyAccounted
<1>1. GoodsInv => CapturedMoneyAccounted
    BY DEF GoodsInv
<1> QED
    BY <1>1, GoodsCorrect, PTL

\* No payment, however late, revives a cancelled order.
THEOREM CancellationSticksAlways == Spec => []CancellationSticks
<1>1. GoodsInv => CancellationSticks
    BY DEF GoodsInv, GoodsOf, CancellationSticks
<1> QED
    BY <1>1, GoodsCorrect, PTL

\* An order never holds its goods and a refund of its money at once.
THEOREM RefundedOrderHoldsNoGoodsAlways == Spec => []RefundedOrderHoldsNoGoods
<1>1. GoodsInv => RefundedOrderHoldsNoGoods
    BY DEF GoodsInv
<1> QED
    BY <1>1, GoodsCorrect, PTL

-----------------------------------------------------------------------------
(* OrderPayment implements Purchase                                        *)

(* The facts about an order's rows that tell which step of Purchase a       *)
(* handler takes, beyond those of PaymentInv and GoodsInv.                  *)

Arrived(o) == orders[o].status \in {"delivered", "return_requested"}
CashOwed(p) == payments[p].provider = "cod" /\ payments[p].status = "pending"

DealOfRow(o) ==
    /\ orders[o].status = "absent" => orders[o].payment_status = "pending" /\ orders[o].commerce_exception = "none"
    /\ orders[o].status = "pending" =>
            \/ orders[o].payment_status = "pending" /\ orders[o].commerce_exception = "none"
            \/ orders[o].payment_status = "paid" /\ orders[o].commerce_exception # "none"
    /\ Arrived(o) => orders[o].payment_status # "pending"
    /\ shipments[o] # "none" => Started(o) /\ (orders[o].payment_status # "pending" \/ held[o])
    /\ orders[o].cancelled_at => orders[o].status = "cancelled" \/ Arrived(o)
HeldIsPaidOrOwed ==
    \A o \in OrderIds :
        held[o] /\ orders[o].payment_status # "paid" =>
            /\ orders[o].payment_status = "pending"
            /\ \E p \in PaymentIds : CashOwed(p) /\ payments[p].order = o
OwedIsUnpaid == \A p \in PaymentIds : CashOwed(p) => orders[payments[p].order].payment_status = "pending"
RefundOfCancelled ==
    \A r \in RefundIds :
        refunds[r].status # "absent" =>
            LET o == payments[refunds[r].payment].order
            IN  orders[o].payment_status # "pending" /\ orders[o].cancelled_at

VerdictIsOnline ==
    \A p \in PaymentIds : gateway[p] # "open" => Live(p) /\ payments[p].provider # "cod"

DealInv ==
    /\ \A o \in OrderIds : DealOfRow(o)
    /\ HeldIsPaidOrOwed
    /\ OwedIsUnpaid
    /\ RefundOfCancelled
    /\ VerdictIsOnline

LEMMA InitDeals == Init => DealInv
<1> SUFFICES ASSUME Init PROVE DealInv
    OBVIOUS
<1>1. /\ \A p \in PaymentIds : payments[p].status = "absent" /\ gateway[p] = "open"
      /\ \A r \in RefundIds : refunds[r].status = "absent"
      /\ \A o \in OrderIds : ~held[o] /\ shipments[o] = "none"
    BY DEF Init, AbsentPayment, AbsentRefund
<1>2. \A o \in OrderIds :
        /\ orders[o].status \in {"absent", "pending"}
        /\ orders[o].payment_status = "pending"
        /\ orders[o].commerce_exception = "none"
        /\ ~orders[o].cancelled_at
    BY DEF Init, AbsentOrder, NewOrder
<1> QED
    BY <1>1, <1>2 DEF DealInv, DealOfRow, Arrived, HeldIsPaidOrOwed, CashOwed, OwedIsUnpaid,
        RefundOfCancelled, VerdictIsOnline

-----------------------------------------------------------------------------
(* Frames                                                                  *)

\* The cash the courier is still to collect for an order is the same.
CashKept(o) ==
    \A p \in PaymentIds :
        CashOwed(p) /\ payments[p].order = o <=> CashOwed(p)' /\ payments'[p].order = o

\* What a step that makes no refund must establish for every order.
DealKept(o) ==
    /\ DealOfRow(o)'
    /\ held'[o] /\ orders'[o].payment_status # "paid" =>
            /\ orders'[o].payment_status = "pending"
            /\ \E p \in PaymentIds : CashOwed(p)' /\ payments'[p].order = o
    /\ \A p \in PaymentIds :
            CashOwed(p)' /\ payments'[p].order = o => orders'[o].payment_status = "pending"
    /\ orders[o].payment_status # "pending" /\ orders[o].cancelled_at =>
            orders'[o].payment_status # "pending" /\ orders'[o].cancelled_at

OthersKept(o) ==
    \A other \in OrderIds \ {o} :
        /\ orders'[other] = orders[other]
        /\ held'[other] = held[other]
        /\ shipments'[other] = shipments[other]
        /\ CashKept(other)

PaymentStays(p) ==
    Live(p) => Live(p)' /\ payments'[p].order = payments[p].order /\ payments'[p].provider = payments[p].provider

LEMMA DealsForward ==
    ASSUME TypeOK, TypeOK', PaymentInv, DealInv, UNCHANGED gateway,
           \A o \in OrderIds : DealKept(o),
           \A p \in PaymentIds : PaymentStays(p),
           \A r \in RefundIds : RefundKept(r)
    PROVE  DealInv'
<1> USE RowTypes
<1>1. \A p \in PaymentIds : payments'[p].order \in OrderIds
    BY DEF TypeOK, PaymentRow
<1>2. HeldIsPaidOrOwed' /\ OwedIsUnpaid'
    BY <1>1 DEF HeldIsPaidOrOwed, OwedIsUnpaid, DealKept, CashOwed
<1>3. \A r \in RefundIds : refunds[r].status # "absent" => Live(refunds[r].payment)
    BY DEF PaymentInv, RefundOfCapture, Captured, Live
<1>4. RefundOfCancelled'
    BY <1>3 DEF DealInv, RefundOfCancelled, DealKept, PaymentStays, RefundKept
<1>5. VerdictIsOnline'
    BY DEF DealInv, VerdictIsOnline, PaymentStays
<1> QED
    BY <1>2, <1>4, <1>5 DEF DealInv, DealKept

\* An order whose rows and cash a step leaves alone.
LEMMA DealFrame ==
    ASSUME TypeOK, DealInv, NEW o \in OrderIds,
           orders'[o] = orders[o], held'[o] = held[o], shipments'[o] = shipments[o], CashKept(o)
    PROVE  DealKept(o) /\ DealOf(o)' = DealOf(o)
<1>1. DealOfRow(o)'
    BY DEF DealInv, DealOfRow, Arrived, Started
<1>2. DealKept(o)
    BY <1>1 DEF DealInv, HeldIsPaidOrOwed, OwedIsUnpaid, DealKept, CashKept
<1>3. DealOf(o)' = DealOf(o)
    BY DEF DealOf
<1> QED
    BY <1>2, <1>3

\* A step that touches no order, and no cash to collect.
LEMMA StepOfNoOrder ==
    ASSUME TypeOK, TypeOK', PaymentInv, DealInv, UNCHANGED <<orders, held, shipments, gateway>>,
           \A o \in OrderIds : CashKept(o),
           \A p \in PaymentIds : PaymentStays(p),
           \A r \in RefundIds : RefundKept(r)
    PROVE  DealInv' /\ Deals' = Deals
<1>1. \A o \in OrderIds : DealKept(o) /\ DealOf(o)' = DealOf(o)
    BY DealFrame
<1> QED
    BY <1>1, DealsForward DEF Deals

\* A step of one order.
LEMMA StepOfOneOrder ==
    ASSUME TypeOK, TypeOK', PaymentInv, DealInv, UNCHANGED gateway,
           NEW o \in OrderIds, OthersKept(o), DealKept(o),
           \A p \in PaymentIds : PaymentStays(p),
           \A r \in RefundIds : RefundKept(r)
    PROVE  DealInv' /\ Deals' = [Deals EXCEPT ![o] = DealOf(o)']
<1>1. \A other \in OrderIds \ {o} : DealKept(other) /\ DealOf(other)' = DealOf(other)
    BY DealFrame DEF OthersKept
<1>2. DealInv'
    BY <1>1, DealsForward
<1>3. Deals' = [Deals EXCEPT ![o] = DealOf(o)']
    BY <1>1 DEF Deals
<1> QED
    BY <1>2, <1>3

-----------------------------------------------------------------------------
(* Steps of Purchase, told from the columns of one order                   *)

LEMMA StageNames ==
    /\ StageOf("absent") = "absent"
    /\ StageOf("pending") = "open"
    /\ \A status \in {"confirmed", "processing", "shipped"} : StageOf(status) = "going"
    /\ \A status \in {"delivered", "return_requested"} : StageOf(status) = "arrived"
    /\ StageOf("cancelled") = "closed"
<1> QED
    BY DEF StageOf

\* A deal and its columns, before and after a step.
LEMMA DealColumns ==
    ASSUME NEW o \in OrderIds, TypeOK, TypeOK'
    PROVE  /\ Deals[o] = Promise!Deal(StageOf(orders[o].status), orders[o].payment_status, held[o],
                                      orders[o].commerce_exception # "none")
           /\ DealOf(o)' = Promise!Deal(StageOf(orders'[o].status), orders'[o].payment_status, held'[o],
                                        orders'[o].commerce_exception # "none")
           /\ Deals[o].stage = StageOf(orders[o].status)
           /\ Deals[o].money = orders[o].payment_status
           /\ Deals[o].goods = held[o]
           /\ Deals[o].flagged = (orders[o].commerce_exception # "none")
           /\ held[o] \in BOOLEAN /\ held'[o] \in BOOLEAN
<1>1. DealOf(o)' = [stage |-> StageOf(orders'[o].status), money |-> orders'[o].payment_status,
                    goods |-> held'[o], flagged |-> orders'[o].commerce_exception # "none"]
    BY DEF DealOf, StageOf
<1> QED
    BY <1>1 DEF TypeOK, Deals, DealOf, Promise!Deal

LEMMA DealBefore ==
    ASSUME TypeOK, TypeOK', NEW o \in OrderIds
    PROVE  /\ ~held[o] /\ orders[o].commerce_exception = "none" =>
                Deals[o] = Promise!Deal(StageOf(orders[o].status), orders[o].payment_status, FALSE, FALSE)
           /\ held[o] /\ orders[o].commerce_exception = "none" =>
                Deals[o] = Promise!Deal(StageOf(orders[o].status), orders[o].payment_status, TRUE, FALSE)
           /\ ~held[o] /\ orders[o].commerce_exception # "none" =>
                Deals[o] = Promise!Deal(StageOf(orders[o].status), orders[o].payment_status, FALSE, TRUE)
<1>1. /\ held[o] => held[o] = TRUE
      /\ ~held[o] => held[o] = FALSE
      /\ orders[o].commerce_exception = "none" => (orders[o].commerce_exception # "none") = FALSE
      /\ orders[o].commerce_exception # "none" => (orders[o].commerce_exception # "none") = TRUE
    BY DealColumns
<1>2. Deals[o] = Promise!Deal(StageOf(orders[o].status), orders[o].payment_status, held[o], orders[o].commerce_exception # "none")
    BY DealColumns
<1> QED
    BY <1>1, <1>2, Zenon

LEMMA DealAfter ==
    ASSUME TypeOK, TypeOK', NEW o \in OrderIds
    PROVE  /\ ~held'[o] /\ orders'[o].commerce_exception = "none" =>
                DealOf(o)' = Promise!Deal(StageOf(orders'[o].status), orders'[o].payment_status, FALSE, FALSE)
           /\ held'[o] /\ orders'[o].commerce_exception = "none" =>
                DealOf(o)' = Promise!Deal(StageOf(orders'[o].status), orders'[o].payment_status, TRUE, FALSE)
           /\ ~held'[o] /\ orders'[o].commerce_exception # "none" =>
                DealOf(o)' = Promise!Deal(StageOf(orders'[o].status), orders'[o].payment_status, FALSE, TRUE)
<1>1. /\ held'[o] => held'[o] = TRUE
      /\ ~held'[o] => held'[o] = FALSE
      /\ orders'[o].commerce_exception = "none" => (orders'[o].commerce_exception # "none") = FALSE
      /\ orders'[o].commerce_exception # "none" => (orders'[o].commerce_exception # "none") = TRUE
    BY DealColumns
<1>2. DealOf(o)' = Promise!Deal(StageOf(orders'[o].status), orders'[o].payment_status, held'[o], orders'[o].commerce_exception # "none")
    BY DealColumns
<1> QED
    BY <1>1, <1>2, Zenon

LEMMA OpenOrder ==
    ASSUME TypeOK, TypeOK', NEW o \in OrderIds,
           orders[o].status = "pending", orders[o].payment_status = "pending",
           orders[o].commerce_exception = "none", ~held[o]
    PROVE  Deals[o] = Promise!OpenDeal
<1>1. Deals[o] = Promise!Deal("open", "pending", FALSE, FALSE)
    BY StageNames, DealBefore
<1> QED
    BY <1>1 DEF Promise!OpenDeal

-----------------------------------------------------------------------------
(* Every step of the shop is one step of Purchase, or none                 *)

LEMMA StepDeals ==
    TypeOK /\ PaymentInv /\ GoodsInv /\ DealInv /\ [Next]_vars => DealInv' /\ [Promise!Next]_Deals
<1> SUFFICES ASSUME TypeOK, TypeOK', PaymentInv, GoodsInv, DealInv, [Next]_vars
             PROVE  DealInv' /\ [Promise!Next]_Deals
    BY StepType
<1> DEFINE Goal == DealInv' /\ [Promise!Next]_Deals
<1> HIDE DEF Goal
<1> USE RowTypes, GoodsTypes
<1>g. \A o \in OrderIds : GoodsOf(o) /\ DealOfRow(o)
    BY DEF GoodsInv, DealInv
<1>s. \A o \in OrderIds : orders[o].status \in OrderStatus \cup {"absent"}
    BY DEF OrderRow
<1>u. ASSUME UNCHANGED <<orders, payments, held, shipments, gateway>>, \A r \in RefundIds : RefundKept(r)
      PROVE  Goal
    BY <1>u, StepOfNoOrder DEF CashKept, CashOwed, PaymentStays, Live, Goal
<1>v. ASSUME UNCHANGED <<orders, payments, held, shipments, gateway, refunds>>
      PROVE  Goal
    BY <1>v, <1>u DEF RefundKept
<1>1. ASSUME UNCHANGED vars PROVE Goal
    BY <1>1, <1>v DEF vars
<1>2. ASSUME NEW s \in Shoppers, OpenCart(s) PROVE Goal
    BY <1>2, <1>v DEF OpenCart
<1>5. ASSUME NEW o \in OrderIds, InitiatePayuCheckout(o) PROVE Goal
    BY <1>5, <1>v DEF InitiatePayuCheckout
<1>6. ASSUME NEW o \in OrderIds, InitiateBreezeCheckout(o) PROVE Goal
    BY <1>6, <1>v DEF InitiateBreezeCheckout
<1>8. ASSUME NEW o \in OrderIds, NEW v \in OnlineProviders, NEW p \in PaymentIds,
             CreatePaymentAttempt(o, v, p) PROVE Goal
  <2>1. /\ payments[p].status = "absent"
        /\ payments'[p].provider # "cod" 
        /\ \A q \in PaymentIds \ {p} : payments'[q] = payments[q]
        /\ UNCHANGED <<orders, held, shipments, gateway, refunds>>
    BY <1>8 DEF CreatePaymentAttempt, IsNextId, OnlineProviders
  <2> QED
    BY <2>1, StepOfNoOrder DEF CashKept, CashOwed, PaymentStays, RefundKept, Live, Goal
<1>9. ASSUME NEW o \in OrderIds, NEW v \in OnlineProviders, NEW p \in PaymentIds,
             ReuseActiveAttempt(o, v, p) PROVE Goal
    BY <1>9, <1>v DEF ReuseActiveAttempt
<1>10. ASSUME NEW o \in OrderIds, NEW v \in OnlineProviders, RejectPaymentAttempt(o, v) PROVE Goal
    BY <1>10, <1>v DEF RejectPaymentAttempt
<1>11. ASSUME NEW p \in PaymentIds, EnsureProviderTransactionId(p) PROVE Goal
  <2>1. /\ payments' = [payments EXCEPT ![p].provider_order_id = TRUE]
        /\ UNCHANGED <<orders, held, shipments, gateway, refunds>>
    BY <1>11 DEF EnsureProviderTransactionId
  <2>2. \A q \in PaymentIds : /\ payments'[q].status = payments[q].status
                              /\ payments'[q].order = payments[q].order
                              /\ payments'[q].provider = payments[q].provider
    BY <2>1 DEF PaymentRow
  <2> QED
    BY <2>1, <2>2, StepOfNoOrder DEF CashKept, CashOwed, PaymentStays, RefundKept, Live, Goal
<1>12. ASSUME NEW p \in PaymentIds, NEW v \in {"captured", "failed", "cancelled"}, GatewayDecides(p, v) PROVE Goal
  <2>1. /\ Live(p) /\ payments[p].provider # "cod"
        /\ \A q \in PaymentIds \ {p} : gateway'[q] = gateway[q]
        /\ UNCHANGED <<orders, payments, held, shipments, refunds>>
    BY <1>12 DEF GatewayDecides, Live, OnlineProviders
  <2>2. VerdictIsOnline'
    BY <2>1 DEF DealInv, VerdictIsOnline, Live
  <2>3. Deals' = Deals
    BY <2>1 DEF Deals, DealOf
  <2>4. /\ \A o \in OrderIds : DealOfRow(o)'
        /\ HeldIsPaidOrOwed' /\ OwedIsUnpaid' /\ RefundOfCancelled'
    BY <2>1 DEF DealInv, DealOfRow, Arrived, Started, HeldIsPaidOrOwed, CashOwed, OwedIsUnpaid, RefundOfCancelled
  <2> QED
    BY <2>2, <2>3, <2>4 DEF DealInv, Goal
<1>13. ASSUME NEW r \in RefundIds, NEW v \in {"paid_out", "rejected"}, GatewaySettlesRefund(r, v) PROVE Goal
    BY <1>13, <1>v DEF GatewaySettlesRefund
<1>p. ASSUME NEW p \in PaymentIds, NEW verdict, gateway[p] # "open", payments' = [payments EXCEPT ![p].status = verdict],
             verdict # "absent"
      PROVE  /\ payments'[p].order = payments[p].order
             /\ \A q \in PaymentIds : PaymentStays(q)
             /\ \A o \in OrderIds : CashKept(o)
  <2>1. Live(p) /\ payments[p].provider # "cod"
    BY <1>p DEF DealInv, VerdictIsOnline
  <2> QED
    BY <1>p, <2>1 DEF PaymentStays, Live, CashKept, CashOwed
<1>14. ASSUME NEW p \in PaymentIds, RecordDeclined(p) PROVE Goal
    BY <1>14, <1>p, StepOfNoOrder DEF RecordDeclined, RefundKept, Goal
<1>15. ASSUME NEW p \in PaymentIds, RecordRepeatedCapture(p) PROVE Goal
    BY <1>15, <1>p, StepOfNoOrder DEF RecordRepeatedCapture, CapturePending, RefundKept, Goal
<1>d. \A r \in RefundIds : [op |-> "dispatch", id |-> r] \in inflight => refunds[r].status # "absent"
    BY DEF PaymentInv, RequestHasRow
<1>22. ASSUME NEW r \in RefundIds, DispatchAccepted(r) PROVE Goal
  <2>1. \A t \in RefundIds : RefundKept(t)
    BY <1>22, <1>d DEF DispatchAccepted, RefundKept, RefundRow
  <2> QED
    BY <1>22, <2>1, <1>u DEF DispatchAccepted
<1>23. ASSUME NEW r \in RefundIds, DispatchRefused(r) PROVE Goal
  <2>1. \A t \in RefundIds : RefundKept(t)
    BY <1>23, <1>d DEF DispatchRefused, RefundKept, RefundRow
  <2> QED
    BY <1>23, <2>1, <1>u DEF DispatchRefused
<1>24. ASSUME NEW r \in RefundIds, DispatchLost(r) PROVE Goal
    BY <1>24, <1>v DEF DispatchLost
<1>25. ASSUME NEW r \in RefundIds, RecordRefundFailed(r) PROVE Goal
  <2>1. \A t \in RefundIds : RefundKept(t)
    BY <1>25 DEF RecordRefundFailed, Verifiable, RefundKept, RefundRow
  <2> QED
    BY <1>25, <2>1, <1>u DEF RecordRefundFailed
<1>30. ASSUME NEW request \in inflight, RequestDies(request) PROVE Goal
    BY <1>30, <1>v DEF RequestDies
<1>r. UNCHANGED refunds => \A r \in RefundIds : RefundKept(r)
    BY DEF RefundKept
<1>o. ASSUME NEW o \in OrderIds, OthersKept(o), DealKept(o), UNCHANGED gateway,
             \A p \in PaymentIds : PaymentStays(p),
             \A r \in RefundIds : RefundKept(r),
             \/ DealOf(o)' = Deals[o]
             \/ Deals' = [Deals EXCEPT ![o] = DealOf(o)'] => Promise!Next
      PROVE  Goal
  <2>1. DealInv' /\ Deals' = [Deals EXCEPT ![o] = DealOf(o)']
    BY <1>o, StepOfOneOrder
  <2>2. CASE DealOf(o)' = Deals[o]
    <3>1. Deals' = Deals
      BY <2>1, <2>2 DEF Deals
    <3> QED
      BY <2>1, <3>1 DEF Goal
  <2> QED
    BY <1>o, <2>1, <2>2 DEF Goal
<1>k. ASSUME NEW o \in OrderIds, UNCHANGED payments,
             \A other \in OrderIds \ {o} :
                /\ orders'[other] = orders[other] /\ held'[other] = held[other]
                /\ shipments'[other] = shipments[other]
      PROVE  OthersKept(o) /\ CashKept(o) /\ \A p \in PaymentIds : PaymentStays(p)
    BY <1>k DEF OthersKept, CashKept, CashOwed, PaymentStays, Live
<1>3. ASSUME NEW s \in Shoppers, NEW o \in OrderIds, NEW b \in Baskets, CreateOrder(s, o, b) PROVE Goal
  <2>1. /\ orders[o].status = "absent"
        /\ orders'[o].status = "pending" /\ orders'[o].payment_status = "pending"
        /\ orders'[o].commerce_exception = "none" /\ ~orders'[o].cancelled_at
        /\ \A other \in OrderIds \ {o} : orders'[other] = orders[other]
        /\ UNCHANGED <<held, shipments, payments, refunds, gateway>>
    BY <1>3 DEF CreateOrder, NewOrder, IsNextId
  <2>2. ~held[o] /\ shipments[o] = "none" /\ orders[o].payment_status = "pending"
            /\ orders[o].commerce_exception = "none"
    BY <1>g, <2>1 DEF GoodsOf, DealOfRow
  <2>3. DealKept(o)
    BY <2>1, <2>2 DEF DealKept, DealOfRow, Arrived, CashOwed
  <2>4. ASSUME Deals' = [Deals EXCEPT ![o] = DealOf(o)'] PROVE Promise!Place(o)
    <3>1. Deals[o] = Promise!Deal(StageOf(orders[o].status), orders[o].payment_status, FALSE, FALSE)
      BY <2>1, <2>2, DealBefore
    <3>2. Deals[o] = Promise!Deal("absent", "pending", FALSE, FALSE)
      BY <2>1, <2>2, <3>1, StageNames, Zenon
    <3>3. ~held'[o]
      BY <2>1, <2>2
    <3>4. DealOf(o)' = Promise!Deal(StageOf(orders'[o].status), orders'[o].payment_status, FALSE, FALSE)
      BY <2>1, <3>3, DealAfter
    <3>5. DealOf(o)' = Promise!Deal("open", "pending", FALSE, FALSE)
      BY <2>1, <3>4, StageNames, Zenon
    <3> QED
      BY <2>4, <3>2, <3>5 DEF Promise!Place, Promise!Becomes, Promise!NoDeal, Promise!OpenDeal
  <2>5. OthersKept(o) /\ \A p \in PaymentIds : PaymentStays(p)
    BY <1>k, <2>1
  <2> QED
    BY <1>r, <1>o, <2>1, <2>3, <2>4, <2>5 DEF Promise!Next
<1>c. ASSUME NEW o \in OrderIds, UNCHANGED <<held, shipments, payments, refunds, gateway>>,
             orders[o].status \in {"pending", "confirmed", "processing", "shipped"},
             orders[o].payment_status # "paid",
             orders'[o].status = "cancelled", orders'[o].cancelled_at,
             orders'[o].payment_status = orders[o].payment_status,
             orders'[o].commerce_exception = orders[o].commerce_exception,
             \A other \in OrderIds \ {o} : orders'[other] = orders[other]
      PROVE  Goal
  <2>1. OthersKept(o) /\ CashKept(o) /\ \A p \in PaymentIds : PaymentStays(p)
    BY <1>c, <1>k
  <2>2. DealKept(o)
    BY <1>c, <1>g, <2>1 DEF DealInv, DealKept, DealOfRow, Arrived, Started, HeldIsPaidOrOwed, OwedIsUnpaid, CashKept
  <2>3. ASSUME Deals' = [Deals EXCEPT ![o] = DealOf(o)'] PROVE Promise!Cancel(o)
    <3>1. Deals[o].stage \in {"open", "going"} /\ Deals[o].money # "paid"
      BY <1>c, DealColumns, StageNames
    <3>2. DealOf(o)' = Promise!Deal("closed", Deals[o].money, Deals[o].goods, Deals[o].flagged)
      BY <1>c, DealColumns, StageNames
    <3>3. (Deals[o].goods /\ Deals[o].money # "paid") = Deals[o].goods
      BY <3>1, DealColumns
    <3> QED
      BY <2>3, <3>1, <3>2, <3>3 DEF Promise!Cancel, Promise!Becomes
  <2> QED
    BY <1>c, <1>r, <1>o, <2>1, <2>2, <2>3 DEF Promise!Next
<1>n. \A status \in OrderStatus \cup {"absent"} :
        "cancelled" \in ValidNext[status] => status \in {"pending", "confirmed", "processing", "shipped"}
    BY DEF OrderStatus, ValidNext
<1>4. ASSUME NEW o \in OrderIds, PerformPendingOrderCancellation(o) PROVE Goal
    BY <1>4, <1>c DEF PerformPendingOrderCancellation, OrderRow
<1>20. ASSUME NEW o \in OrderIds, CancelUnpaidOrder(o) PROVE Goal
    BY <1>20, <1>s, <1>n, <1>c DEF CancelUnpaidOrder, OrderRow
<1>b. ASSUME NEW o \in OrderIds, orders[o].status = "pending", orders[o].payment_status # "paid",
             orders'[o].status = "confirmed", orders'[o].payment_status \in {"pending", "paid"},
             orders'[o].commerce_exception = orders[o].commerce_exception,
             held' = [held EXCEPT ![o] = TRUE],
             Deals' = [Deals EXCEPT ![o] = DealOf(o)']
      PROVE  Promise!Next
  <2>1. /\ orders[o].payment_status = "pending" /\ orders[o].commerce_exception = "none"
        /\ ~held[o]
    BY <1>b, <1>g DEF DealOfRow, GoodsOf
  <2>2. Deals[o] = Promise!OpenDeal
    BY <1>b, <2>1, OpenOrder
  <2>4. DealOf(o)' = Promise!Deal("going", orders'[o].payment_status, TRUE, FALSE)
    BY <1>b, <2>1, DealAfter, StageNames
  <2>5. Promise!Buy(o, orders'[o].payment_status)
    BY <1>b, <2>2, <2>4 DEF Promise!Buy, Promise!Becomes
  <2> QED
    BY <1>b, <2>5 DEF Promise!Next
<1>7. ASSUME NEW o \in OrderIds, NEW p \in PaymentIds, ConfirmCodOrder(o, p) PROVE Goal
  <2>1. /\ orders[o].status = "pending" /\ orders[o].payment_status # "paid"
        /\ orders'[o].status = "confirmed"
        /\ orders'[o].payment_status = orders[o].payment_status
        /\ orders'[o].commerce_exception = orders[o].commerce_exception
        /\ orders'[o].cancelled_at = orders[o].cancelled_at
        /\ \A other \in OrderIds \ {o} : orders'[other] = orders[other]
        /\ held' = [held EXCEPT ![o] = TRUE] /\ UNCHANGED <<shipments, refunds, gateway>>
    BY <1>s, <1>7, NextIsStarted DEF ConfirmCodOrder, CanConfirm, OrderRow
  <2>2. /\ payments[p].status = "absent"
        /\ payments'[p].order = o /\ payments'[p].provider = "cod" /\ payments'[p].status = "pending"
        /\ \A q \in PaymentIds \ {p} : payments'[q] = payments[q]
    BY <1>7 DEF ConfirmCodOrder, IsNextId
  <2>3. orders[o].payment_status = "pending" /\ ~orders[o].cancelled_at
    BY <1>g, <2>1 DEF DealOfRow, Arrived
  <2>4. OthersKept(o) /\ \A q \in PaymentIds : PaymentStays(q)
    BY <2>1, <2>2 DEF OthersKept, CashKept, CashOwed, PaymentStays, Live
  <2>5. DealKept(o)
    <3>1. DealOfRow(o)'
      BY <2>1, <2>3 DEF DealOfRow, Arrived, Started
    <3>2. CashOwed(p)' /\ payments'[p].order = o
      BY <2>2 DEF CashOwed
    <3> QED
      BY <2>1, <2>3, <3>1, <3>2 DEF DealKept
  <2>6. Deals' = [Deals EXCEPT ![o] = DealOf(o)'] => Promise!Next
    BY <1>b, <2>1, <2>3
  <2> QED
    BY <1>r, <1>o, <2>1, <2>4, <2>5, <2>6
<1>16. ASSUME NEW p \in PaymentIds, ConfirmPaidOrder(p) PROVE Goal
  <2>0. PICK o \in OrderIds : o = payments[p].order
    OBVIOUS
  <2>1. orders[o].status = "pending" /\ orders[o].payment_status # "paid"
    BY <1>s, <1>16, <2>0, NextIsStarted DEF ConfirmPaidOrder, CanConfirm
  <2>2. /\ orders'[o].status = "confirmed" /\ orders'[o].payment_status = "paid"
        /\ orders'[o].commerce_exception = orders[o].commerce_exception
        /\ orders'[o].cancelled_at = orders[o].cancelled_at
        /\ \A other \in OrderIds \ {o} : orders'[other] = orders[other]
    BY <1>16, <2>0, <2>1 DEF ConfirmPaidOrder, OrderRow
  <2>3. /\ held' = [held EXCEPT ![o] = TRUE] /\ UNCHANGED <<shipments, refunds, gateway>>
        /\ payments' = [payments EXCEPT ![p].status = "paid"] /\ gateway[p] # "open"
    BY <1>16, <2>0 DEF ConfirmPaidOrder, CapturePending
  <2>4. (\A q \in PaymentIds : PaymentStays(q)) /\ \A x \in OrderIds : CashKept(x)
    BY <1>p, <2>3
  <2>5. OthersKept(o)
    BY <2>1, <2>2, <2>3, <2>4 DEF OthersKept
  <2>6. DealKept(o)
    <3>1. ~orders[o].cancelled_at /\ ~held[o]
      BY <1>g, <2>1 DEF DealOfRow, Arrived, GoodsOf
    <3>2. DealOfRow(o)'
      BY <2>1, <2>2, <2>3, <3>1 DEF DealOfRow, Arrived, Started
    <3>3. \A q \in PaymentIds : ~(CashOwed(q) /\ payments[q].order = o)
      <4>1. Live(p) /\ payments[p].provider # "cod" /\ payments[p].status = "pending"
        BY <1>16, <2>3 DEF DealInv, VerdictIsOnline, ConfirmPaidOrder, CapturePending
      <4> QED
        BY <2>0, <4>1 DEF PaymentInv, CodExcludesOnline, CashOwed, Live
    <3> QED
      BY <2>1, <2>2, <2>4, <3>1, <3>2, <3>3 DEF DealKept, CashKept
  <2>7. Deals' = [Deals EXCEPT ![o] = DealOf(o)'] => Promise!Next
    BY <1>b, <2>1, <2>2, <2>3
  <2> QED
    BY <1>r, <1>o, <2>1, <2>3, <2>4, <2>5, <2>6, <2>7
<1>17. ASSUME NEW p \in PaymentIds, FlagPaidOrder(p) PROVE Goal
  <2>0. PICK o \in OrderIds : o = payments[p].order
    OBVIOUS
  <2>1. /\ orders[o].payment_status # "paid"
        /\ orders'[o].status = orders[o].status /\ orders'[o].payment_status = "paid"
        /\ orders'[o].commerce_exception # "none"
        /\ orders'[o].cancelled_at = orders[o].cancelled_at
        /\ \A other \in OrderIds \ {o} : orders'[other] = orders[other]
    BY <1>17, <2>0 DEF FlagPaidOrder, ExceptionFor, OrderRow
  <2>2. /\ UNCHANGED <<held, shipments, refunds, gateway>>
        /\ payments' = [payments EXCEPT ![p].status = "paid"] /\ gateway[p] # "open"
    BY <1>17 DEF FlagPaidOrder, CapturePending
  <2>3. (\A q \in PaymentIds : PaymentStays(q)) /\ \A x \in OrderIds : CashKept(x)
    BY <1>p, <2>2
  <2>4. OthersKept(o)
    BY <2>1, <2>2, <2>3 DEF OthersKept
  <2>5. Live(p) /\ payments[p].provider # "cod" /\ payments[p].status = "pending"
    BY <1>17, <2>2 DEF DealInv, VerdictIsOnline, FlagPaidOrder, CapturePending
  <2>6. \A q \in PaymentIds : ~(CashOwed(q) /\ payments[q].order = o)
    BY <2>0, <2>5 DEF PaymentInv, CodExcludesOnline, CashOwed, Live
  <2>7. ~held[o] /\ orders[o].status # "absent"
    BY <2>0, <2>1, <2>5, <2>6 DEF DealInv, HeldIsPaidOrOwed, PaymentInv, LivePaymentHasOrder
  <2>8. DealKept(o)
    <3>1. DealOfRow(o)'
      BY <1>g, <2>1, <2>2, <2>7 DEF DealOfRow, Arrived, Started
    <3> QED
      BY <2>1, <2>3, <2>6, <3>1 DEF DealKept, CashKept
  <2>9. ASSUME Deals' = [Deals EXCEPT ![o] = DealOf(o)'] PROVE Promise!Owe(o)
    <3>1. Deals[o].stage # "absent" /\ Deals[o].money # "paid" /\ ~Deals[o].goods
      BY <1>s, <2>1, <2>7, DealColumns, StageNames DEF OrderStatus
    <3>2. DealOf(o)' = Promise!Deal(Deals[o].stage, "paid", FALSE, TRUE)
      <4>1. ~held'[o] /\ Deals[o].stage = StageOf(orders[o].status)
        BY <2>2, <2>7, DealColumns
      <4>2. DealOf(o)' = Promise!Deal(StageOf(orders'[o].status), orders'[o].payment_status, FALSE, TRUE)
        BY <2>1, <4>1, DealAfter
      <4> QED
        BY <2>1, <4>1, <4>2, Zenon
    <3> QED
      BY <2>9, <3>1, <3>2 DEF Promise!Owe, Promise!Becomes
  <2> QED
    BY <1>r, <1>o, <2>1, <2>2, <2>3, <2>4, <2>8, <2>9 DEF Promise!Next
<1>m. \A status \in OrderStatus \cup {"absent"} : \A next \in ValidNext[status] \ {"cancelled", "delivered"} :
        \/ status = "delivered" /\ next = "return_requested"
        \/ status \in {"pending", "confirmed", "processing"} /\ next \in {"confirmed", "processing", "shipped"}
    BY DEF OrderStatus, ValidNext
<1>f. \A o \in OrderIds : FulfilmentPaymentSafe(o) =>
        orders[o].payment_status = "paid" \/ (held[o] /\ orders[o].status # "pending")
  <2>1. \A o \in OrderIds : HasCodPayment(o) => held[o]
    BY DEF HasCodPayment, PaymentsOf, GoodsInv, CodHoldsGoods, Live
  <2> QED
    BY <1>g, <2>1 DEF FulfilmentPaymentSafe, GoodsOf
\* A pending order whose money has no goods.
<1>w. ASSUME NEW o \in OrderIds, orders[o].status = "pending", orders[o].payment_status = "paid"
      PROVE  /\ ~held[o] /\ orders[o].commerce_exception # "none"
             /\ Deals[o] = Promise!Deal("open", "paid", FALSE, TRUE)
  <2>1. ~held[o] /\ orders[o].commerce_exception # "none"
    BY <1>g, <1>w DEF GoodsOf, DealOfRow
  <2>2. Deals[o] = Promise!Deal(StageOf(orders[o].status), orders[o].payment_status, FALSE, TRUE)
    BY <2>1, DealBefore
  <2>3. Deals[o] = Promise!Deal("open", "paid", FALSE, TRUE)
    BY <1>w, <2>2, StageNames, Zenon
  <2> QED
    BY <2>1, <2>3
<1>18. ASSUME NEW o \in OrderIds, NEW next \in OrderStatus, AdvanceStatus(o, next) PROVE Goal
  <2>1. /\ orders'[o].status = next
        /\ orders'[o].payment_status = orders[o].payment_status
        /\ orders'[o].commerce_exception = orders[o].commerce_exception
        /\ orders'[o].cancelled_at = orders[o].cancelled_at
        /\ \A other \in OrderIds \ {o} : orders'[other] = orders[other]
        /\ UNCHANGED <<held, shipments, refunds, payments, gateway>>
    BY <1>18 DEF AdvanceStatus, OrderRow
  <2>2. \/ orders[o].status = "delivered" /\ next = "return_requested"
        \/ /\ orders[o].status \in {"pending", "confirmed", "processing"}
           /\ next \in {"confirmed", "processing", "shipped"}
    BY <1>m, <1>s, <1>18 DEF AdvanceStatus
  <2>3. orders[o].status = "pending" => orders[o].payment_status = "paid"
    BY <1>f, <1>18, <2>2 DEF AdvanceStatus
  <2>4. OthersKept(o) /\ CashKept(o) /\ \A p \in PaymentIds : PaymentStays(p)
    BY <1>k, <2>1
  <2>5. DealKept(o)
    <3>1. DealOfRow(o)'
      BY <1>g, <2>1, <2>2 DEF DealOfRow, Arrived, Started
    <3> QED
      BY <2>1, <2>4, <3>1 DEF DealInv, DealKept, HeldIsPaidOrOwed, OwedIsUnpaid, CashKept
  <2>6. CASE orders[o].status = "pending"
    <3>1. ASSUME Deals' = [Deals EXCEPT ![o] = DealOf(o)'] PROVE Promise!Overrule(o)
      <4>1. Deals[o] = Promise!Deal("open", "paid", FALSE, TRUE)
        BY <1>w, <2>3, <2>6
      <4>2. ~held'[o] /\ orders'[o].commerce_exception # "none" /\ orders'[o].payment_status = "paid"
                /\ StageOf(orders'[o].status) = "going"
        BY <1>w, <2>1, <2>2, <2>3, <2>6, StageNames
      <4>3. DealOf(o)' = Promise!Deal(StageOf(orders'[o].status), orders'[o].payment_status, FALSE, TRUE)
        BY <4>2, DealAfter
      <4>4. DealOf(o)' = Promise!Deal("going", "paid", FALSE, TRUE)
        BY <4>2, <4>3, Zenon
      <4> QED
        BY <3>1, <4>1, <4>4 DEF Promise!Overrule, Promise!Becomes
    <3> QED
      BY <1>r, <1>o, <2>1, <2>4, <2>5, <3>1 DEF Promise!Next
  <2>7. CASE orders[o].status # "pending"
    <3>1. StageOf(orders'[o].status) = StageOf(orders[o].status) /\ held'[o] = held[o]
      BY <2>1, <2>2, <2>7, StageNames
    <3>2. DealOf(o)' = Deals[o]
      BY <2>1, <3>1, DealColumns
    <3> QED
      BY <1>r, <1>o, <2>1, <2>4, <2>5, <3>2
  <2> QED
    BY <2>6, <2>7
<1>27. ASSUME NEW o \in OrderIds, BookShipment(o) PROVE Goal
  <2>1. /\ orders[o].status = "confirmed" /\ (orders[o].payment_status = "paid" \/ held[o])
        /\ shipments' = [shipments EXCEPT ![o] = "booked"]
        /\ UNCHANGED <<orders, held, refunds, payments, gateway>>
    BY <1>27, <1>f DEF BookShipment
  <2>2. OthersKept(o) /\ CashKept(o) /\ \A p \in PaymentIds : PaymentStays(p)
    BY <1>k, <2>1
  <2>3. DealKept(o)
    <3>1. DealOfRow(o)'
      BY <1>g, <2>1 DEF DealOfRow, Arrived, Started
    <3> QED
      BY <2>1, <2>2, <3>1 DEF DealInv, DealKept, HeldIsPaidOrOwed, OwedIsUnpaid, CashKept
  <2>4. DealOf(o)' = Deals[o]
    BY <2>1 DEF Deals, DealOf
  <2> QED
    BY <1>r, <1>o, <2>1, <2>2, <2>3, <2>4
<1>28. ASSUME NEW o \in OrderIds, CourierMoves(o) PROVE Goal
  <2>1. /\ shipments[o] = "booked" /\ shipments' = [shipments EXCEPT ![o] = "moving"]
        /\ \/ orders'[o].status = orders[o].status
           \/ orders'[o].status = "shipped" /\ orders[o].status \in {"confirmed", "processing"}
        /\ orders'[o].payment_status = orders[o].payment_status
        /\ orders'[o].commerce_exception = orders[o].commerce_exception
        /\ orders'[o].cancelled_at = orders[o].cancelled_at
        /\ \A other \in OrderIds \ {o} : orders'[other] = orders[other]
        /\ UNCHANGED <<held, refunds, payments, gateway>>
    BY <1>28 DEF CourierMoves, OrderRow
  <2>2. OthersKept(o) /\ CashKept(o) /\ \A p \in PaymentIds : PaymentStays(p)
    BY <1>k, <2>1
  <2>3. DealKept(o)
    <3>1. DealOfRow(o)'
      BY <1>g, <2>1 DEF DealOfRow, Arrived, Started
    <3> QED
      BY <2>1, <2>2, <3>1 DEF DealInv, DealKept, HeldIsPaidOrOwed, OwedIsUnpaid, CashKept
  <2>4. StageOf(orders'[o].status) = StageOf(orders[o].status) /\ held'[o] = held[o]
    BY <2>1, StageNames
  <2>5. DealOf(o)' = Deals[o]
    BY <2>1, <2>4, DealColumns
  <2> QED
    BY <1>r, <1>o, <2>1, <2>2, <2>3, <2>5
<1>x. ASSUME NEW o \in OrderIds, payments' = CodCollected(o),
             orders'[o].status \in {"delivered", "return_requested"},
             orders'[o].payment_status = PaymentStatusAfterDelivery(o),
             orders'[o].commerce_exception = orders[o].commerce_exception,
             orders'[o].cancelled_at = orders[o].cancelled_at,
             \A other \in OrderIds \ {o} :
                orders'[other] = orders[other] /\ shipments'[other] = shipments[other],
             UNCHANGED <<held, refunds, gateway>>,
             orders[o].status # "absent",
             orders[o].status = "pending" => orders[o].payment_status = "paid",
             orders[o].payment_status = "pending" => held[o]
      PROVE  Goal
  <2>1. PaymentsIn(o, {"cod"}, {"pending"}) = {p \in PaymentIds : CashOwed(p) /\ payments[p].order = o}
    BY DEF PaymentsIn, PaymentsOf, CashOwed
  <2>2. orders'[o].payment_status = IF orders[o].payment_status = "refunded" THEN "refunded" ELSE "paid"
    BY <1>x, <2>1 DEF PaymentStatusAfterDelivery, DealInv, HeldIsPaidOrOwed, OwedIsUnpaid
  <2>3. \A q \in PaymentIds :
        /\ payments'[q].order = payments[q].order /\ payments'[q].provider = payments[q].provider
        /\ IF CashOwed(q) /\ payments[q].order = o
           THEN payments'[q].status = "paid" ELSE payments'[q].status = payments[q].status
    BY <1>x, <2>1 DEF CodCollected, PaymentRow
  <2>4. OthersKept(o) /\ \A q \in PaymentIds : PaymentStays(q)
    BY <1>x, <2>3 DEF OthersKept, CashKept, CashOwed, PaymentStays, Live
  <2>5. \A q \in PaymentIds : ~(CashOwed(q)' /\ payments'[q].order = o)
    BY <2>3 DEF CashOwed
  <2>6. DealKept(o)
    <3>1. DealOfRow(o)'
      BY <1>x, <1>g, <2>2 DEF DealOfRow, Arrived, Started
    <3>2. held[o] => orders[o].payment_status # "refunded"
      BY DEF DealInv, HeldIsPaidOrOwed
    <3> QED
      BY <1>x, <2>2, <2>5, <3>1, <3>2 DEF DealKept
  <2>7. CASE Arrived(o)
    <3>1. StageOf(orders'[o].status) = StageOf(orders[o].status)
      BY <1>x, <2>7, StageNames DEF Arrived
    <3>2. orders'[o].payment_status = orders[o].payment_status /\ held'[o] = held[o]
      BY <1>x, <1>g, <2>2, <2>7 DEF DealOfRow
    <3>3. DealOf(o)' = Deals[o]
      BY <1>x, <3>1, <3>2, DealColumns
    <3> QED
      BY <1>x, <1>r, <1>o, <2>4, <2>6, <3>3
  <2>8. ASSUME ~Arrived(o), Deals' = [Deals EXCEPT ![o] = DealOf(o)'] PROVE Promise!Arrive(o)
    <3>1. Deals[o].money = "pending" => Deals[o].goods
      BY <1>x, DealColumns
    <3>2. Deals[o].stage \in {"going", "closed"} \/ Deals[o] = Promise!Deal("open", "paid", FALSE, TRUE)
      <4>1. CASE orders[o].status = "pending"
        BY <1>x, <1>w, <4>1
      <4>2. CASE orders[o].status \in {"confirmed", "processing", "shipped", "cancelled"}
        <5>1. Deals[o].stage = StageOf(orders[o].status)
          BY DealColumns
        <5> QED
          BY <4>2, <5>1, StageNames
      <4> QED
        BY <1>x, <2>8, <4>1, <4>2 DEF Arrived, Fulfilling
    <3>3. /\ StageOf(orders'[o].status) = "arrived" /\ held'[o] = held[o]
          /\ orders'[o].payment_status = IF Deals[o].money = "refunded" THEN "refunded" ELSE "paid"
      BY <1>x, <2>2, DealColumns, StageNames
    <3>4. DealOf(o)' = Promise!Deal("arrived", IF Deals[o].money = "refunded" THEN "refunded" ELSE "paid",
                                    Deals[o].goods, Deals[o].flagged)
      BY <1>x, <3>3, DealColumns
    <3> QED
      BY <2>8, <3>1, <3>2, <3>4 DEF Promise!Arrive, Promise!Becomes
  <2>9. CASE ~Arrived(o)
    BY <1>x, <1>r, <1>o, <2>4, <2>6, <2>8, <2>9 DEF Promise!Next
  <2> QED
    BY <2>7, <2>9
<1>19. ASSUME NEW o \in OrderIds, DeliverByHand(o) PROVE Goal
  <2>1. /\ payments' = CodCollected(o)
        /\ orders'[o].status = "delivered"
        /\ orders'[o].payment_status = PaymentStatusAfterDelivery(o)
        /\ orders'[o].commerce_exception = orders[o].commerce_exception
        /\ orders'[o].cancelled_at = orders[o].cancelled_at
        /\ \A other \in OrderIds \ {o} : orders'[other] = orders[other]
        /\ UNCHANGED <<held, shipments, refunds, gateway>>
    BY <1>19 DEF DeliverByHand, OrderRow
  <2>2. orders[o].payment_status = "paid" \/ (held[o] /\ orders[o].status # "pending")
    BY <1>19, <1>f DEF DeliverByHand
  <2>3. orders[o].status # "absent"
    BY <1>19, <1>s, NextIsStarted DEF DeliverByHand
  <2> QED
    BY <1>x, <2>1, <2>2, <2>3
<1>29. ASSUME NEW o \in OrderIds, CourierDelivers(o) PROVE Goal
  <2>1. /\ payments' = CodCollected(o)
        /\ orders'[o].status \in {"delivered", "return_requested"}
        /\ orders'[o].payment_status = PaymentStatusAfterDelivery(o)
        /\ orders'[o].commerce_exception = orders[o].commerce_exception
        /\ orders'[o].cancelled_at = orders[o].cancelled_at
        /\ \A other \in OrderIds \ {o} : orders'[other] = orders[other] /\ shipments'[other] = shipments[other]
        /\ UNCHANGED <<held, refunds, gateway>>
        /\ shipments[o] # "none"
    BY <1>29 DEF CourierDelivers, OrderRow
  <2>2. /\ orders[o].status \notin {"absent", "pending"}
        /\ orders[o].payment_status = "pending" => held[o]
    BY <1>g, <2>1 DEF DealOfRow, Started
  <2> QED
    BY <1>x, <2>1, <2>2
<1>21. ASSUME NEW o \in OrderIds, NEW p \in PaymentIds, NEW r \in RefundIds, CancelPaidOrder(o, p, r) PROVE Goal
  <2>1. /\ orders[o].status \in {"pending", "confirmed", "processing", "shipped"}
        /\ orders[o].payment_status = "paid"
        /\ orders'[o].status = "cancelled" /\ orders'[o].cancelled_at
        /\ orders'[o].payment_status = "paid"
        /\ orders'[o].commerce_exception = orders[o].commerce_exception
        /\ \A other \in OrderIds \ {o} : orders'[other] = orders[other]
        /\ held' = [held EXCEPT ![o] = FALSE]
        /\ UNCHANGED <<payments, shipments, gateway>>
        /\ refunds'[r].payment = p
        /\ \A t \in RefundIds \ {r} : refunds'[t] = refunds[t]
    BY <1>21, <1>s, <1>n DEF CancelPaidOrder, OrderRow
  <2>2. payments[p].order = o
    BY <1>21 DEF CancelPaidOrder, Refundable, PaymentsIn, PaymentsOf
  <2>3. OthersKept(o)
    BY <1>k, <2>1
  <2>4. DealKept(o)
    <3>1. DealOfRow(o)'
      BY <1>g, <2>1 DEF DealOfRow, Arrived, Started
    <3> QED
      BY <2>1, <3>1 DEF DealInv, DealKept, OwedIsUnpaid, CashOwed
  <2>5. \A x \in OrderIds : DealKept(x)
    BY <2>3, <2>4, DealFrame DEF OthersKept
  <2>6. HeldIsPaidOrOwed' /\ OwedIsUnpaid'
    BY <2>1, <2>5 DEF HeldIsPaidOrOwed, OwedIsUnpaid, DealKept, CashOwed
  <2>7. RefundOfCancelled'
    BY <2>1, <2>2, <2>5 DEF DealInv, RefundOfCancelled, DealKept
  <2>8. VerdictIsOnline'
    BY <2>1 DEF DealInv, VerdictIsOnline, Live
  <2>9. \A x \in OrderIds \ {o} : DealOf(x)' = DealOf(x)
    BY <2>1 DEF DealOf
  <2>10. Promise!Cancel(o)
    <3>1. Deals' = [Deals EXCEPT ![o] = DealOf(o)']
      BY <2>9 DEF Deals
    <3>2. /\ Deals[o].stage = StageOf(orders[o].status) /\ Deals[o].money = "paid"
          /\ Deals[o].flagged = (orders[o].commerce_exception # "none")
      BY <2>1, DealColumns
    <3>3. Deals[o].stage \in {"open", "going"}
      BY <2>1, <3>2, StageNames
    <3>4. (Deals[o].goods /\ Deals[o].money # "paid") = FALSE /\ held'[o] = FALSE
      BY <2>1, <3>2
    <3>5. DealOf(o)' = Promise!Deal(StageOf(orders'[o].status), orders'[o].payment_status, held'[o],
                                    orders'[o].commerce_exception # "none")
      BY DealColumns
    <3>6. /\ StageOf(orders'[o].status) = "closed"
          /\ orders'[o].payment_status = Deals[o].money
      BY <2>1, <3>2, StageNames
    <3>7. (orders'[o].commerce_exception # "none") = Deals[o].flagged
      BY <2>1, <3>2
    <3>8. held'[o] = (Deals[o].goods /\ Deals[o].money # "paid")
      BY <3>4, Zenon
    <3>9. DealOf(o)' = Promise!Deal("closed", Deals[o].money, Deals[o].goods /\ Deals[o].money # "paid",
                                    Deals[o].flagged)
      BY <3>5, <3>6, <3>7, <3>8, Zenon
    <3> QED
      BY <3>1, <3>3, <3>9 DEF Promise!Cancel, Promise!Becomes
  <2> QED
    BY <2>5, <2>6, <2>7, <2>8, <2>10 DEF DealInv, DealKept, Promise!Next, Goal
<1>26. ASSUME NEW r \in RefundIds, RecordRefundSucceeded(r) PROVE Goal
  <2>1. PICK p \in PaymentIds, o \in OrderIds :
        /\ p = refunds[r].payment /\ o = payments[p].order
        /\ refunds[r].status # "absent"
        /\ \A t \in RefundIds : RefundKept(t)
        /\ payments' = [payments EXCEPT ![p].status = "refunded"]
        /\ orders' = [orders EXCEPT ![o].payment_status = "refunded"]
        /\ UNCHANGED <<held, shipments, gateway>>
    BY <1>26 DEF RecordRefundSucceeded, Verifiable, RefundKept, RefundRow
  <2>2. /\ orders'[o].status = orders[o].status /\ orders'[o].payment_status = "refunded"
        /\ orders'[o].commerce_exception = orders[o].commerce_exception
        /\ orders'[o].cancelled_at = orders[o].cancelled_at
        /\ \A other \in OrderIds \ {o} : orders'[other] = orders[other]
    BY <2>1 DEF OrderRow
  <2>3. Captured(p) /\ orders[o].payment_status # "pending" /\ orders[o].cancelled_at /\ ~held[o]
    BY <2>1 DEF PaymentInv, RefundOfCapture, DealInv, RefundOfCancelled, GoodsInv, RefundedOrderHoldsNoGoods
  <2>4. /\ \A q \in PaymentIds : PaymentStays(q)
        /\ \A x \in OrderIds : CashKept(x)
    BY <2>1, <2>3 DEF PaymentStays, Live, CashKept, CashOwed, Captured
  <2>5. OthersKept(o)
    BY <2>1, <2>2, <2>4 DEF OthersKept
  <2>6. DealKept(o)
    <3>1. /\ orders[o].status \in {"absent", "pending"} =>
                orders[o].payment_status = "pending" \/ orders[o].commerce_exception # "none"
          /\ orders[o].cancelled_at => orders[o].status = "cancelled" \/ Arrived(o)
          /\ shipments[o] # "none" => Started(o)
      BY <1>g DEF DealOfRow
    <3>2. orders[o].status \notin {"absent", "pending"}
      BY <2>3, <3>1 DEF Arrived
    <3>3. Arrived(o)' <=> Arrived(o)
      BY <2>2 DEF Arrived
    <3>4. Started(o)' <=> Started(o)
      BY <2>2 DEF Started
    <3>5. shipments'[o] = shipments[o]
      BY <2>1
    <3>6. DealOfRow(o)'
      BY <2>2, <3>1, <3>2, <3>3, <3>4, <3>5 DEF DealOfRow
    <3>7. ~held'[o]
      BY <2>1, <2>3
    <3>8. \A q \in PaymentIds : ~(CashOwed(q)' /\ payments'[q].order = o)
      BY <2>3, <2>4 DEF DealInv, OwedIsUnpaid, CashKept
    <3> QED
      BY <2>2, <3>6, <3>7, <3>8 DEF DealKept
  <2>7. CASE orders[o].payment_status = "refunded"
    <3>1. orders'[o].payment_status = orders[o].payment_status /\ held'[o] = held[o]
      BY <2>1, <2>2, <2>7
    <3>2. DealOf(o)' = Deals[o]
      BY <2>2, <3>1, DealColumns
    <3> QED
      BY <1>o, <2>1, <2>4, <2>5, <2>6, <3>2
  <2>8. ASSUME orders[o].payment_status = "paid", Deals' = [Deals EXCEPT ![o] = DealOf(o)']
        PROVE  Promise!Refund(o)
    <3>1. /\ Deals[o].stage = StageOf(orders[o].status) /\ Deals[o].money = "paid" /\ ~Deals[o].goods
          /\ Deals[o].flagged = (orders[o].commerce_exception # "none")
      BY <2>3, <2>8, DealColumns
    <3>2. Deals[o].stage \in {"closed", "arrived"}
      BY <1>g, <2>3, <3>1, StageNames DEF DealOfRow, Arrived
    <3>3. held'[o] = FALSE
      BY <2>1, <2>3
    <3>4. DealOf(o)' = Promise!Deal(StageOf(orders'[o].status), orders'[o].payment_status, held'[o],
                                    orders'[o].commerce_exception # "none")
      BY DealColumns
    <3>5. DealOf(o)' = Promise!Deal(Deals[o].stage, "refunded", FALSE, Deals[o].flagged)
      BY <2>2, <3>1, <3>3, <3>4, Zenon
    <3> QED
      BY <2>8, <3>1, <3>2, <3>5 DEF Promise!Refund, Promise!Becomes
  <2>9. CASE orders[o].payment_status = "paid"
    BY <1>o, <2>1, <2>4, <2>5, <2>6, <2>8, <2>9 DEF Promise!Next
  <2> QED
    BY <2>3, <2>7, <2>9
<1> QED
    BY <1>1, <1>2, <1>3, <1>4, <1>5, <1>6, <1>7, <1>8, <1>9, <1>10, <1>11, <1>12, <1>13, <1>14, <1>15,
       <1>16, <1>17, <1>18, <1>19, <1>20, <1>21, <1>22, <1>23, <1>24, <1>25, <1>26, <1>27, <1>28, <1>29, <1>30
    DEF Goal, Next, ShopperStep, AttemptStep, GatewayStep, ProcessVerifiedPaymentResult, AdminStep, RefundStep, CourierStep

LEMMA InitPromise == Init => Promise!Init
<1> SUFFICES ASSUME Init PROVE Promise!Init
    OBVIOUS
<1>1. ASSUME NEW o \in OrderIds PROVE Deals[o] \in {Promise!NoDeal, Promise!OpenDeal}
  <2>1. /\ orders[o].status \in {"absent", "pending"} /\ orders[o].payment_status = "pending"
        /\ (orders[o].commerce_exception # "none") = FALSE /\ held[o] = FALSE
    BY DEF Init, AbsentOrder, NewOrder
  <2>2. Deals[o] = Promise!Deal(StageOf(orders[o].status), orders[o].payment_status, held[o],
                                orders[o].commerce_exception # "none")
    BY DEF Deals, DealOf, Promise!Deal
  <2>3. Deals[o] = Promise!Deal(StageOf(orders[o].status), "pending", FALSE, FALSE)
    BY <2>1, <2>2, Zenon
  <2>4. StageOf(orders[o].status) = "absent" \/ StageOf(orders[o].status) = "open"
    BY <2>1, StageNames
  <2> QED
    BY <2>3, <2>4, Zenon DEF Promise!NoDeal, Promise!OpenDeal
<1> QED
    BY <1>1 DEF Promise!Init, Deals

-----------------------------------------------------------------------------
\* The facts that relate an order's columns, its parcel and its cash hold always.
THEOREM DealsCorrect == Spec => []DealInv
<1>1. TypeOK /\ PaymentInv /\ GoodsInv /\ DealInv /\ [Next]_vars => DealInv'
    BY StepDeals
<1> QED
    BY <1>1, InitDeals, TypeCorrect, PaymentsCorrect, GoodsCorrect, PTL DEF Spec

\* The shop keeps its promise: every behaviour of OrderPayment, whatever its shoppers,
\* gateways, couriers and administrators interleave, is a behaviour of Purchase.
THEOREM PromiseKept == Spec => KeepsPromise
<1>1. TypeOK /\ PaymentInv /\ GoodsInv /\ DealInv /\ [Next]_vars => [Promise!Next]_Deals
    BY StepDeals
<1> QED
    BY <1>1, InitPromise, TypeCorrect, PaymentsCorrect, GoodsCorrect, DealsCorrect, PTL
    DEF Spec, KeepsPromise, Promise!Spec

-----------------------------------------------------------------------------
(* The books                                                               *)

(* Refunds: the inductive invariant behind RefundLedger.                     *)

\* A refund whose request is still to be sent is pending: the process that commits
\* the row is the only one to send it, once.
DispatchIsPending ==
    \A r \in RefundIds : [op |-> "dispatch", id |-> r] \in inflight => refunds[r].status = "pending"

RefundInv == RefundLedger /\ DispatchIsPending

LEMMA InitRefunds == Init => RefundInv
<1> SUFFICES ASSUME Init PROVE RefundInv
    OBVIOUS
<1>1. /\ \A p \in PaymentIds : payments[p].status = "absent"
      /\ \A r \in RefundIds : refunds[r].status = "absent"
      /\ inflight = {}
    BY DEF Init, AbsentPayment, AbsentRefund
<1>2. \A r \in RefundIds : refunds[r].payment \in PaymentIds
    BY InitType, RowTypes
<1> QED
    BY <1>1, <1>2 DEF RefundInv, RefundLedger, DispatchIsPending

\* What a step that neither makes a refund nor pays one out may do.
CaptureStays(p) ==
    /\ Captured(p) => /\ payments'[p].status = payments[p].status
                      /\ payments'[p].provider = payments[p].provider
    /\ payments'[p].status = "refunded" => payments[p].status = "refunded"
OutcomeStays(r) ==
    /\ RefundKept(r)
    /\ refunds'[r].status = "succeeded" <=> refunds[r].status = "succeeded"
DispatchStays ==
    \A r \in RefundIds :
        [op |-> "dispatch", id |-> r] \in inflight' =>
            [op |-> "dispatch", id |-> r] \in inflight /\ refunds'[r].status = refunds[r].status

LEMMA RefundsForward ==
    ASSUME TypeOK, TypeOK', PaymentInv, RefundInv,
           \A p \in PaymentIds : CaptureStays(p),
           \A r \in RefundIds : OutcomeStays(r),
           DispatchStays
    PROVE  RefundInv'
<1> USE RowTypes
<1>1. \A r \in RefundIds : refunds[r].status # "absent" => Captured(refunds[r].payment)
    BY DEF PaymentInv, RefundOfCapture
<1>2. ASSUME NEW r \in RefundIds, refunds'[r].status # "absent"
      PROVE  /\ payments'[refunds'[r].payment].provider = "payu"
             /\ payments'[refunds'[r].payment].status = IF refunds'[r].status = "succeeded" THEN "refunded" ELSE "paid"
    BY <1>1, <1>2 DEF RefundInv, RefundLedger, CaptureStays, OutcomeStays, RefundKept
<1>3. ASSUME NEW p \in PaymentIds, payments'[p].status = "refunded"
      PROVE  \E r \in RefundIds : refunds'[r].status = "succeeded" /\ refunds'[r].payment = p
    BY <1>3 DEF RefundInv, RefundLedger, CaptureStays, OutcomeStays, RefundKept
<1>4. ASSUME NEW r \in RefundIds, NEW t \in RefundIds, refunds'[r].status # "absent", refunds'[t].status # "absent",
             refunds'[r].payment = refunds'[t].payment
      PROVE  r = t
    BY <1>4 DEF RefundInv, RefundLedger, OutcomeStays, RefundKept
<1>5. DispatchIsPending'
    BY DEF RefundInv, DispatchIsPending, DispatchStays
<1> QED
    BY <1>2, <1>3, <1>4, <1>5 DEF RefundInv, RefundLedger

LEMMA StepRefunds ==
    TypeOK /\ PaymentInv /\ DealInv /\ RefundInv /\ [Next]_vars => RefundInv'
<1> SUFFICES ASSUME TypeOK, TypeOK', PaymentInv, DealInv, RefundInv, [Next]_vars PROVE RefundInv'
    BY StepType
<1> USE RowTypes, GoodsTypes
<1>d. DispatchIsPending /\ RefundLedger
    BY DEF RefundInv
<1>u. ASSUME UNCHANGED refunds, \A p \in PaymentIds : CaptureStays(p), DispatchStays
      PROVE  RefundInv'
    BY <1>u, RefundsForward DEF OutcomeStays, RefundKept
<1>v. ASSUME UNCHANGED <<payments, refunds>>, DispatchStays
      PROVE  RefundInv'
    BY <1>v, <1>u DEF CaptureStays
<1>w. ASSUME UNCHANGED <<payments, refunds, inflight>>
      PROVE  RefundInv'
    BY <1>w, <1>v DEF DispatchStays
<1>1. ASSUME UNCHANGED vars PROVE RefundInv'
    BY <1>1, <1>w DEF vars
<1>2. ASSUME NEW s \in Shoppers, OpenCart(s) PROVE RefundInv'
    BY <1>2, <1>w DEF OpenCart
<1>3. ASSUME NEW s \in Shoppers, NEW o \in OrderIds, NEW b \in Baskets, CreateOrder(s, o, b) PROVE RefundInv'
    BY <1>3, <1>w DEF CreateOrder
<1>4. ASSUME NEW o \in OrderIds, PerformPendingOrderCancellation(o) PROVE RefundInv'
    BY <1>4, <1>w DEF PerformPendingOrderCancellation
<1>5. ASSUME NEW o \in OrderIds, InitiatePayuCheckout(o) PROVE RefundInv'
    BY <1>5, <1>v DEF InitiatePayuCheckout, DispatchStays
<1>6. ASSUME NEW o \in OrderIds, InitiateBreezeCheckout(o) PROVE RefundInv'
    BY <1>6, <1>v DEF InitiateBreezeCheckout, DispatchStays
<1>7. ASSUME NEW o \in OrderIds, NEW p \in PaymentIds, ConfirmCodOrder(o, p) PROVE RefundInv'
  <2>1. /\ payments[p].status = "absent" /\ payments'[p].status = "pending"
        /\ \A q \in PaymentIds \ {p} : payments'[q] = payments[q]
        /\ UNCHANGED <<refunds, inflight>>
    BY <1>7 DEF ConfirmCodOrder, IsNextId
  <2> QED
    BY <2>1, <1>u DEF CaptureStays, Captured, DispatchStays
<1>8. ASSUME NEW o \in OrderIds, NEW v \in OnlineProviders, NEW p \in PaymentIds,
             CreatePaymentAttempt(o, v, p) PROVE RefundInv'
  <2>1. /\ payments[p].status = "absent" /\ payments'[p].status = "pending"
        /\ \A q \in PaymentIds \ {p} : payments'[q] = payments[q]
        /\ UNCHANGED refunds
    BY <1>8 DEF CreatePaymentAttempt, IsNextId
  <2>2. DispatchStays
    BY <1>8 DEF CreatePaymentAttempt, DispatchStays
  <2> QED
    BY <2>1, <2>2, <1>u DEF CaptureStays, Captured
<1>9. ASSUME NEW o \in OrderIds, NEW v \in OnlineProviders, NEW p \in PaymentIds,
             ReuseActiveAttempt(o, v, p) PROVE RefundInv'
    BY <1>9, <1>v DEF ReuseActiveAttempt, DispatchStays
<1>10. ASSUME NEW o \in OrderIds, NEW v \in OnlineProviders, RejectPaymentAttempt(o, v) PROVE RefundInv'
    BY <1>10, <1>v DEF RejectPaymentAttempt, DispatchStays
<1>11. ASSUME NEW p \in PaymentIds, EnsureProviderTransactionId(p) PROVE RefundInv'
  <2>1. \A q \in PaymentIds : payments'[q].status = payments[q].status /\ payments'[q].provider = payments[q].provider
    BY <1>11 DEF EnsureProviderTransactionId, PaymentRow
  <2> QED
    BY <1>11, <2>1, <1>u DEF EnsureProviderTransactionId, CaptureStays, DispatchStays
<1>12. ASSUME NEW p \in PaymentIds, NEW v \in {"captured", "failed", "cancelled"}, GatewayDecides(p, v) PROVE RefundInv'
    BY <1>12, <1>w DEF GatewayDecides
<1>13. ASSUME NEW r \in RefundIds, NEW v \in {"paid_out", "rejected"}, GatewaySettlesRefund(r, v) PROVE RefundInv'
    BY <1>13, <1>w DEF GatewaySettlesRefund
<1>p. ASSUME NEW p \in PaymentIds, NEW verdict \in {"paid", "failed", "cancelled"}, payments[p].status = "pending",
             payments' = [payments EXCEPT ![p].status = verdict], UNCHANGED <<refunds, inflight>>
      PROVE  RefundInv'
    BY <1>p, <1>u DEF CaptureStays, Captured, DispatchStays
<1>14. ASSUME NEW p \in PaymentIds, RecordDeclined(p) PROVE RefundInv'
    BY <1>14, <1>p DEF RecordDeclined
<1>15. ASSUME NEW p \in PaymentIds, RecordRepeatedCapture(p) PROVE RefundInv'
    BY <1>15, <1>p DEF RecordRepeatedCapture, CapturePending
<1>16. ASSUME NEW p \in PaymentIds, ConfirmPaidOrder(p) PROVE RefundInv'
    BY <1>16, <1>p DEF ConfirmPaidOrder, CapturePending
<1>17. ASSUME NEW p \in PaymentIds, FlagPaidOrder(p) PROVE RefundInv'
    BY <1>17, <1>p DEF FlagPaidOrder, CapturePending
<1>18. ASSUME NEW o \in OrderIds, NEW next \in OrderStatus, AdvanceStatus(o, next) PROVE RefundInv'
    BY <1>18, <1>w DEF AdvanceStatus
<1>x. ASSUME NEW o \in OrderIds, payments' = CodCollected(o), UNCHANGED <<refunds, inflight>>
      PROVE  RefundInv'
  <2>1. \A q \in PaymentIds :
        /\ payments'[q].provider = payments[q].provider
        /\ \/ payments'[q].status = payments[q].status
           \/ payments[q].status = "pending" /\ payments'[q].status = "paid"
    BY <1>x DEF CodCollected, PaymentsIn, PaymentsOf, PaymentRow
  <2> QED
    BY <1>x, <2>1, <1>u DEF CaptureStays, Captured, DispatchStays
<1>19. ASSUME NEW o \in OrderIds, DeliverByHand(o) PROVE RefundInv'
    BY <1>19, <1>x DEF DeliverByHand
<1>20. ASSUME NEW o \in OrderIds, CancelUnpaidOrder(o) PROVE RefundInv'
    BY <1>20, <1>w DEF CancelUnpaidOrder
<1>21. ASSUME NEW o \in OrderIds, NEW p \in PaymentIds, NEW r \in RefundIds, CancelPaidOrder(o, p, r) PROVE RefundInv'
  <2>1. /\ orders[o].status \notin {"cancelled", "delivered", "return_requested"}
        /\ payments[p].status = "paid" /\ payments[p].provider = "payu" /\ payments[p].order = o
        /\ payments' = payments
        /\ refunds[r].status = "absent"
        /\ refunds'[r].status = "pending" /\ refunds'[r].payment = p
        /\ \A t \in RefundIds \ {r} : refunds'[t] = refunds[t]
        /\ inflight' = inflight \cup {[op |-> "dispatch", id |-> r]}
    <3>1. orders[o].status \notin {"cancelled", "delivered", "return_requested"}
      BY <1>21 DEF CancelPaidOrder, ValidNext
    <3> QED
      BY <1>21, <3>1 DEF CancelPaidOrder, Refundable, PaymentsIn, PaymentsOf, IsNextId
  <2>2. ~orders[o].cancelled_at
    BY <2>1 DEF DealInv, DealOfRow, Arrived
  <2>3. \A t \in RefundIds : refunds[t].status # "absent" => refunds[t].payment # p
    BY <2>1, <2>2 DEF DealInv, RefundOfCancelled
  <2>4. RefundLedger'
    BY <1>d, <2>1, <2>3 DEF RefundLedger
  <2>5. DispatchIsPending'
    BY <1>d, <2>1 DEF DispatchIsPending
  <2> QED
    BY <2>4, <2>5 DEF RefundInv
<1>s. ASSUME NEW r \in RefundIds, UNCHANGED payments, refunds'[r].payment = refunds[r].payment,
             refunds[r].status \in {"pending", "processing"}, refunds'[r].status \in {"processing", "failed"},
             \A t \in RefundIds \ {r} : refunds'[t] = refunds[t],
             inflight' = inflight \ {[op |-> "dispatch", id |-> r]}
      PROVE  RefundInv'
    BY <1>s, RefundsForward DEF CaptureStays, OutcomeStays, RefundKept, DispatchStays
<1>22. ASSUME NEW r \in RefundIds, DispatchAccepted(r) PROVE RefundInv'
  <2>1. refunds[r].status = "pending"
    BY <1>22, <1>d DEF DispatchAccepted, DispatchIsPending
  <2>2. refunds'[r].status = "processing" /\ refunds'[r].payment = refunds[r].payment
    BY <1>22 DEF DispatchAccepted, RefundRow
  <2> QED
    BY <1>22, <1>s, <2>1, <2>2 DEF DispatchAccepted
<1>23. ASSUME NEW r \in RefundIds, DispatchRefused(r) PROVE RefundInv'
  <2>1. refunds[r].status = "pending"
    BY <1>23, <1>d DEF DispatchRefused, DispatchIsPending
  <2>2. refunds'[r].status = "failed" /\ refunds'[r].payment = refunds[r].payment
    BY <1>23 DEF DispatchRefused, RefundRow
  <2> QED
    BY <1>23, <1>s, <2>1, <2>2 DEF DispatchRefused
<1>24. ASSUME NEW r \in RefundIds, DispatchLost(r) PROVE RefundInv'
    BY <1>24, <1>v DEF DispatchLost, DispatchStays
<1>25. ASSUME NEW r \in RefundIds, RecordRefundFailed(r) PROVE RefundInv'
  <2>1. refunds[r].status = "processing" /\ refunds'[r].status = "failed" /\ refunds'[r].payment = refunds[r].payment
    BY <1>25 DEF RecordRefundFailed, Verifiable, RefundRow
  <2>2. inflight' = inflight \ {[op |-> "dispatch", id |-> r]}
    BY <1>25, <1>d, <2>1 DEF RecordRefundFailed, DispatchIsPending
  <2> QED
    BY <1>25, <1>s, <2>1, <2>2 DEF RecordRefundFailed
<1>26. ASSUME NEW r \in RefundIds, RecordRefundSucceeded(r) PROVE RefundInv'
  <2>1. PICK p \in PaymentIds :
        /\ p = refunds[r].payment
        /\ refunds[r].status = "processing" /\ refunds'[r].status = "succeeded" /\ refunds'[r].payment = p
        /\ \A t \in RefundIds \ {r} : refunds'[t] = refunds[t]
        /\ payments'[p].status = "refunded" /\ payments'[p].provider = payments[p].provider
        /\ \A q \in PaymentIds \ {p} : payments'[q] = payments[q]
        /\ inflight' = inflight
    BY <1>26 DEF RecordRefundSucceeded, Verifiable, RefundRow, PaymentRow
  <2>2. \A t \in RefundIds \ {r} : refunds[t].status # "absent" => refunds[t].payment # p
    BY <1>d, <2>1 DEF RefundLedger
  <2>3. RefundLedger'
    <3>1. \A t \in RefundIds : refunds'[t].status # "absent" =>
            /\ payments'[refunds'[t].payment].provider = "payu"
            /\ payments'[refunds'[t].payment].status = IF refunds'[t].status = "succeeded" THEN "refunded" ELSE "paid"
      BY <1>d, <2>1, <2>2 DEF RefundLedger
    <3>2. \A q \in PaymentIds : payments'[q].status = "refunded" =>
            \E t \in RefundIds : refunds'[t].status = "succeeded" /\ refunds'[t].payment = q
      BY <1>d, <2>1 DEF RefundLedger
    <3>3. \A t, u \in RefundIds :
            refunds'[t].status # "absent" /\ refunds'[u].status # "absent"
                /\ refunds'[t].payment = refunds'[u].payment => t = u
      BY <1>d, <2>1 DEF RefundLedger
    <3> QED
      BY <3>1, <3>2, <3>3 DEF RefundLedger
  <2>4. DispatchIsPending'
    BY <1>d, <2>1 DEF DispatchIsPending
  <2> QED
    BY <2>3, <2>4 DEF RefundInv
<1>27. ASSUME NEW o \in OrderIds, BookShipment(o) PROVE RefundInv'
    BY <1>27, <1>w DEF BookShipment
<1>28. ASSUME NEW o \in OrderIds, CourierMoves(o) PROVE RefundInv'
    BY <1>28, <1>w DEF CourierMoves
<1>29. ASSUME NEW o \in OrderIds, CourierDelivers(o) PROVE RefundInv'
    BY <1>29, <1>x DEF CourierDelivers
<1>30. ASSUME NEW request \in inflight, RequestDies(request) PROVE RefundInv'
    BY <1>30, <1>v DEF RequestDies, DispatchStays
<1> QED
    BY <1>1, <1>2, <1>3, <1>4, <1>5, <1>6, <1>7, <1>8, <1>9, <1>10, <1>11, <1>12, <1>13, <1>14, <1>15,
       <1>16, <1>17, <1>18, <1>19, <1>20, <1>21, <1>22, <1>23, <1>24, <1>25, <1>26, <1>27, <1>28, <1>29, <1>30
    DEF Next, ShopperStep, AttemptStep, GatewayStep, ProcessVerifiedPaymentResult, AdminStep, RefundStep, CourierStep

\* The refund books agree with the payments for ever: a refund is made of a PayU
\* capture, at most one of each, and a payment reads refunded exactly when it succeeded
\* (createPendingCancellationRefund, dispatchRefund, processVerifiedRefundResult).
THEOREM RefundLedgerAlways == Spec => []RefundLedger
<1>1. TypeOK /\ PaymentInv /\ DealInv /\ RefundInv /\ [Next]_vars => RefundInv'
    BY StepRefunds
<1>2. RefundInv => RefundLedger
    BY DEF RefundInv
<1> QED
    BY <1>1, <1>2, InitRefunds, TypeCorrect, PaymentsCorrect, DealsCorrect, PTL DEF Spec

-----------------------------------------------------------------------------
(* Coupons and carts: the inductive invariant behind CouponSettled and       *)
(* CartSpent.                                                                *)

\* An order was made from a cart its shopper had by then.
CartIsKnown ==
    \A o \in OrderIds :
        orders[o].status # "absent" => orders[o].cart <= carts[orders[o].shopper].gen

BooksInv ==
    /\ CouponSettled
    /\ CartIsKnown
    /\ CartSpent

\* CouponSettled and CartSpent, told of one order.
CouponOf(o) ==
    /\ orders[o].payment_status # "pending" \/ held[o] => orders[o].coupon # "reserved"
    /\ orders[o].coupon = "released" => orders[o].cancelled_at
    /\ orders[o].coupon = "consumed" => orders[o].payment_status # "pending" \/ HasCodPayment(o)
CartOf(o) ==
    /\ orders[o].status # "absent" => orders[o].cart <= carts[orders[o].shopper].gen
    /\ held[o] /\ orders[o].shopper \notin Guests =>
            ~(carts[orders[o].shopper].active /\ carts[orders[o].shopper].gen = orders[o].cart)

LEMMA BooksOfOrders ==
    /\ BooksInv <=> \A o \in OrderIds : CouponOf(o) /\ CartOf(o)
    /\ BooksInv' <=> \A o \in OrderIds : CouponOf(o)' /\ CartOf(o)'
<1> QED
    BY DEF BooksInv, CouponSettled, CartIsKnown, CartSpent, CouponOf, CartOf

LEMMA InitBooks == Init => BooksInv
<1> SUFFICES ASSUME Init PROVE BooksInv
    OBVIOUS
<1>1. ASSUME NEW o \in OrderIds PROVE CouponOf(o) /\ CartOf(o)
  <2>1. /\ orders[o].payment_status = "pending" /\ orders[o].coupon \in {"none", "reserved"}
        /\ orders[o].cart = 0 /\ ~held[o]
    BY DEF Init, AbsentOrder, NewOrder
  <2>2. orders[o].shopper \in Shoppers
    BY InitType DEF TypeOK, OrderRow
  <2>3. carts[orders[o].shopper].gen = 0
    BY <2>2 DEF Init
  <2> QED
    BY <2>1, <2>3 DEF CouponOf, CartOf
<1> QED
    BY <1>1, BooksOfOrders

\* The columns the books depend on.
BookColumnsKept(o) ==
    /\ orders'[o].payment_status = orders[o].payment_status
    /\ orders'[o].coupon = orders[o].coupon
    /\ orders'[o].cancelled_at = orders[o].cancelled_at
    /\ orders'[o].shopper = orders[o].shopper /\ orders'[o].cart = orders[o].cart
    /\ orders'[o].status = "absent" <=> orders[o].status = "absent"

LEMMA CodStays ==
    ASSUME TypeOK, \A p \in PaymentIds : PaymentStays(p), NEW o \in OrderIds, HasCodPayment(o)
    PROVE  HasCodPayment(o)'
<1> QED
    BY DEF HasCodPayment, PaymentsOf, PaymentStays, Live

\* An order whose columns, goods and carts a step leaves alone.
LEMMA BooksFrame ==
    ASSUME TypeOK, TypeOK', BooksInv, \A p \in PaymentIds : PaymentStays(p),
           NEW o \in OrderIds, BookColumnsKept(o), held'[o] => held[o],
           \A s \in Shoppers : carts'[s].gen = carts[s].gen /\ (carts'[s].active => carts[s].active)
    PROVE  CouponOf(o)' /\ CartOf(o)'
<1>1. CouponOf(o) /\ CartOf(o) /\ orders[o].shopper \in Shoppers
    BY BooksOfOrders DEF TypeOK, OrderRow
<1>2. CouponOf(o)'
    BY <1>1, CodStays DEF CouponOf, BookColumnsKept
<1>3. CartOf(o)'
    BY <1>1 DEF CartOf, BookColumnsKept
<1> QED
    BY <1>2, <1>3

\* The carts after a sale: no generation changes, none is opened, and the one the
\* order was made from is spent.
LEMMA FinalizedCarts ==
    ASSUME TypeOK, NEW o \in OrderIds, FinalizeCart(o)
    PROVE  /\ \A s \in Shoppers : carts'[s].gen = carts[s].gen /\ (carts'[s].active => carts[s].active)
           /\ LET s == orders[o].shopper
              IN  ~(carts'[s].active /\ carts'[s].gen = orders[o].cart)
<1>1. orders[o].shopper \in Shoppers
    BY DEF TypeOK, OrderRow
<1> QED
    BY <1>1 DEF TypeOK, FinalizeCart

LEMMA CouponOutcomes ==
    \A c \in RedemptionStatus :
        /\ Consumed(c) # "reserved" /\ (Consumed(c) = "released" => c = "released")
        /\ Released(c) # "reserved" /\ (Released(c) = "consumed" => c = "consumed")
<1> QED
    BY DEF RedemptionStatus, Consumed, Released

LEMMA StepBooks ==
    TypeOK /\ PaymentInv /\ GoodsInv /\ DealInv /\ BooksInv /\ [Next]_vars => BooksInv'
<1> SUFFICES ASSUME TypeOK, TypeOK', PaymentInv, GoodsInv, DealInv, BooksInv, [Next]_vars PROVE BooksInv'
    BY StepType
<1> USE RowTypes, GoodsTypes
<1>g. \A o \in OrderIds :
        /\ CouponOf(o) /\ CartOf(o) /\ GoodsOf(o) /\ DealOfRow(o)
        /\ orders[o].shopper \in Shoppers
        /\ orders[o].coupon \in RedemptionStatus
    BY BooksOfOrders DEF GoodsInv, DealInv, OrderRow
<1>u. ASSUME UNCHANGED <<orders, held, carts>>, \A p \in PaymentIds : PaymentStays(p)
      PROVE  BooksInv'
    BY <1>u, BooksFrame, BooksOfOrders DEF BookColumnsKept
<1>v. ASSUME UNCHANGED <<orders, held, carts, payments>>
      PROVE  BooksInv'
    BY <1>v, <1>u DEF PaymentStays, Live
<1>o. ASSUME NEW o \in OrderIds, \A other \in OrderIds \ {o} : orders'[other] = orders[other] /\ held'[other] = held[other],
             \A s \in Shoppers : carts'[s].gen = carts[s].gen /\ (carts'[s].active => carts[s].active),
             \A p \in PaymentIds : PaymentStays(p),
             CouponOf(o)', CartOf(o)'
      PROVE  BooksInv'
    BY <1>o, BooksFrame, BooksOfOrders DEF BookColumnsKept
<1>1. ASSUME UNCHANGED vars PROVE BooksInv'
    BY <1>1, <1>v DEF vars
<1>2. ASSUME NEW s \in Shoppers, OpenCart(s) PROVE BooksInv'
  <2>1. /\ ~carts[s].active /\ carts'[s].active /\ carts[s].gen \in Nat
        /\ carts'[s].gen = IF s \in Guests THEN carts[s].gen ELSE carts[s].gen + 1
        /\ \A other \in Shoppers \ {s} : carts'[other] = carts[other]
        /\ UNCHANGED <<orders, payments, held>>
    BY <1>2 DEF OpenCart, TypeOK
  <2>2. ASSUME NEW o \in OrderIds PROVE CouponOf(o)'
    BY <1>g, <2>1 DEF CouponOf, HasCodPayment, PaymentsOf
  <2>3. ASSUME NEW o \in OrderIds PROVE CartOf(o)'
    <3>1. CartOf(o) /\ orders[o].cart \in Nat /\ orders[o].shopper \in Shoppers
      BY <1>g DEF OrderRow
    <3>2. held[o] => orders[o].status # "absent"
      BY <1>g DEF GoodsOf
    <3> QED
      BY <2>1, <3>1, <3>2 DEF CartOf
  <2> QED
    BY <2>2, <2>3, BooksOfOrders
<1>3. ASSUME NEW s \in Shoppers, NEW o \in OrderIds, NEW b \in Baskets, CreateOrder(s, o, b) PROVE BooksInv'
  <2>1. /\ orders[o].status = "absent"
        /\ orders'[o].payment_status = "pending" /\ orders'[o].coupon = "none"
        /\ orders'[o].shopper = s /\ orders'[o].cart = carts[s].gen
        /\ \A other \in OrderIds \ {o} : orders'[other] = orders[other]
        /\ UNCHANGED <<held, carts, payments>>
    BY <1>3 DEF CreateOrder, NewOrder, IsNextId
  <2>2. ~held[o] /\ carts[s].gen \in Nat
    BY <1>g, <2>1 DEF GoodsOf, TypeOK
  <2>3. CouponOf(o)' /\ CartOf(o)'
    BY <2>1, <2>2 DEF CouponOf, CartOf
  <2> QED
    BY <1>o, <2>1, <2>3 DEF PaymentStays, Live
<1>c. ASSUME NEW o \in OrderIds, UNCHANGED <<held, payments, carts>>,
             orders'[o].cancelled_at, orders'[o].payment_status = orders[o].payment_status,
             orders'[o].coupon \in {orders[o].coupon, Released(orders[o].coupon)},
             orders'[o].shopper = orders[o].shopper, orders'[o].cart = orders[o].cart,
             orders[o].status # "absent",
             \A other \in OrderIds \ {o} : orders'[other] = orders[other]
      PROVE  BooksInv'
  <2>1. /\ orders'[o].coupon = "reserved" => orders[o].coupon = "reserved"
        /\ orders'[o].coupon = "consumed" => orders[o].coupon = "consumed"
    BY <1>c, <1>g, CouponOutcomes
  <2>2. CouponOf(o)'
    BY <1>c, <1>g, <2>1 DEF CouponOf, HasCodPayment, PaymentsOf
  <2>3. CartOf(o)'
    BY <1>c, <1>g DEF CartOf
  <2> QED
    BY <1>c, <1>o, <2>2, <2>3 DEF PaymentStays, Live
<1>4. ASSUME NEW o \in OrderIds, PerformPendingOrderCancellation(o) PROVE BooksInv'
  <2>1. /\ orders'[o].cancelled_at /\ orders'[o].payment_status = orders[o].payment_status
        /\ orders'[o].coupon = Released(orders[o].coupon)
        /\ orders'[o].shopper = orders[o].shopper /\ orders'[o].cart = orders[o].cart
        /\ orders[o].status # "absent"
        /\ \A other \in OrderIds \ {o} : orders'[other] = orders[other]
        /\ UNCHANGED <<held, payments, carts>>
    BY <1>4 DEF PerformPendingOrderCancellation, OrderRow
  <2> QED
    BY <1>c, <2>1
<1>5. ASSUME NEW o \in OrderIds, InitiatePayuCheckout(o) PROVE BooksInv'
    BY <1>5, <1>v DEF InitiatePayuCheckout
<1>6. ASSUME NEW o \in OrderIds, InitiateBreezeCheckout(o) PROVE BooksInv'
    BY <1>6, <1>v DEF InitiateBreezeCheckout
<1>b. ASSUME NEW o \in OrderIds, \A p \in PaymentIds : PaymentStays(p),
             orders'[o].coupon = Consumed(orders[o].coupon),
             orders'[o].payment_status = "paid" \/ HasCodPayment(o)',
             orders'[o].cancelled_at = orders[o].cancelled_at,
             orders'[o].shopper = orders[o].shopper, orders'[o].cart = orders[o].cart,
             orders[o].status # "absent",
             \A other \in OrderIds \ {o} : orders'[other] = orders[other],
             \/ FinalizeCart(o) /\ held' = [held EXCEPT ![o] = TRUE]
             \/ UNCHANGED <<carts, held>>
      PROVE  BooksInv'
  <2>1. /\ \A s \in Shoppers : carts'[s].gen = carts[s].gen /\ (carts'[s].active => carts[s].active)
        /\ \A other \in OrderIds \ {o} : held'[other] = held[other]
    BY <1>b, FinalizedCarts
  <2>2. CouponOf(o)'
    BY <1>b, <1>g, CouponOutcomes DEF CouponOf
  <2>3. CartOf(o)'
    <3>1. CASE FinalizeCart(o)
      BY <1>b, <1>g, <2>1, <3>1, FinalizedCarts DEF CartOf
    <3>2. CASE UNCHANGED <<carts, held>>
      BY <1>b, <1>g, <3>2 DEF CartOf
    <3> QED
      BY <1>b, <3>1, <3>2
  <2> QED
    BY <1>b, <1>o, <2>1, <2>2, <2>3
<1>s. \A o \in OrderIds : CanConfirm(o) => orders[o].status = "pending"
    BY NextIsStarted DEF CanConfirm, OrderRow
<1>n. ASSUME NEW p \in PaymentIds, payments[p].status = "absent",
             \A q \in PaymentIds \ {p} : payments'[q] = payments[q]
      PROVE  \A q \in PaymentIds : PaymentStays(q)
    BY <1>n DEF PaymentStays, Live
<1>7. ASSUME NEW o \in OrderIds, NEW p \in PaymentIds, ConfirmCodOrder(o, p) PROVE BooksInv'
  <2>1. /\ payments[p].status = "absent"
        /\ payments'[p].status = "pending" /\ payments'[p].order = o /\ payments'[p].provider = "cod"
        /\ \A q \in PaymentIds \ {p} : payments'[q] = payments[q]
        /\ orders[o].status # "absent"
        /\ FinalizeCart(o) /\ held' = [held EXCEPT ![o] = TRUE]
    BY <1>7, <1>s DEF ConfirmCodOrder, IsNextId
  <2>2. /\ orders'[o].coupon = Consumed(orders[o].coupon)
        /\ orders'[o].cancelled_at = orders[o].cancelled_at
        /\ orders'[o].shopper = orders[o].shopper /\ orders'[o].cart = orders[o].cart
        /\ \A other \in OrderIds \ {o} : orders'[other] = orders[other]
    BY <1>7 DEF ConfirmCodOrder, OrderRow
  <2>3. HasCodPayment(o)'
    BY <2>1 DEF HasCodPayment, PaymentsOf
  <2> QED
    BY <1>b, <1>n, <2>1, <2>2, <2>3
<1>8. ASSUME NEW o \in OrderIds, NEW v \in OnlineProviders, NEW p \in PaymentIds,
             CreatePaymentAttempt(o, v, p) PROVE BooksInv'
    BY <1>8, <1>u, <1>n DEF CreatePaymentAttempt, IsNextId
<1>9. ASSUME NEW o \in OrderIds, NEW v \in OnlineProviders, NEW p \in PaymentIds,
             ReuseActiveAttempt(o, v, p) PROVE BooksInv'
    BY <1>9, <1>v DEF ReuseActiveAttempt
<1>10. ASSUME NEW o \in OrderIds, NEW v \in OnlineProviders, RejectPaymentAttempt(o, v) PROVE BooksInv'
    BY <1>10, <1>v DEF RejectPaymentAttempt
<1>11. ASSUME NEW p \in PaymentIds, EnsureProviderTransactionId(p) PROVE BooksInv'
  <2>1. \A q \in PaymentIds : PaymentStays(q)
    BY <1>11 DEF EnsureProviderTransactionId, PaymentRow, PaymentStays, Live
  <2> QED
    BY <1>11, <2>1, <1>u DEF EnsureProviderTransactionId
<1>12. ASSUME NEW p \in PaymentIds, NEW v \in {"captured", "failed", "cancelled"}, GatewayDecides(p, v) PROVE BooksInv'
    BY <1>12, <1>v DEF GatewayDecides
<1>13. ASSUME NEW r \in RefundIds, NEW v \in {"paid_out", "rejected"}, GatewaySettlesRefund(r, v) PROVE BooksInv'
    BY <1>13, <1>v DEF GatewaySettlesRefund
<1>p. ASSUME NEW p \in PaymentIds, NEW verdict \in PaymentStatus, payments' = [payments EXCEPT ![p].status = verdict]
      PROVE  \A q \in PaymentIds : PaymentStays(q)
    BY <1>p DEF PaymentStays, Live, PaymentStatus, PaymentRow
<1>14. ASSUME NEW p \in PaymentIds, RecordDeclined(p) PROVE BooksInv'
    BY <1>14, <1>u, <1>p, ColumnValues DEF RecordDeclined
<1>15. ASSUME NEW p \in PaymentIds, RecordRepeatedCapture(p) PROVE BooksInv'
    BY <1>15, <1>u, <1>p, ColumnValues DEF RecordRepeatedCapture
<1>16. ASSUME NEW p \in PaymentIds, ConfirmPaidOrder(p) PROVE BooksInv'
  <2>1. PICK o \in OrderIds :
        /\ o = payments[p].order
        /\ orders[o].status # "absent"
        /\ orders'[o].coupon = Consumed(orders[o].coupon) /\ orders'[o].payment_status = "paid"
        /\ orders'[o].cancelled_at = orders[o].cancelled_at
        /\ orders'[o].shopper = orders[o].shopper /\ orders'[o].cart = orders[o].cart
        /\ \A other \in OrderIds \ {o} : orders'[other] = orders[other]
        /\ FinalizeCart(o) /\ held' = [held EXCEPT ![o] = TRUE]
    BY <1>16, <1>s DEF ConfirmPaidOrder, OrderRow
  <2>2. \A q \in PaymentIds : PaymentStays(q)
    BY <1>16, <1>p, ColumnValues DEF ConfirmPaidOrder
  <2> QED
    BY <1>b, <2>1, <2>2
<1>17. ASSUME NEW p \in PaymentIds, FlagPaidOrder(p) PROVE BooksInv'
  <2>1. PICK o \in OrderIds :
        /\ o = payments[p].order
        /\ orders[o].status # "absent"
        /\ orders'[o].coupon = Consumed(orders[o].coupon) /\ orders'[o].payment_status = "paid"
        /\ orders'[o].cancelled_at = orders[o].cancelled_at
        /\ orders'[o].shopper = orders[o].shopper /\ orders'[o].cart = orders[o].cart
        /\ \A other \in OrderIds \ {o} : orders'[other] = orders[other]
        /\ UNCHANGED <<carts, held>>
    <3>1. Live(p)
      BY <1>17 DEF FlagPaidOrder, CapturePending, Live
    <3>2. orders[payments[p].order].status # "absent"
      BY <3>1 DEF PaymentInv, LivePaymentHasOrder
    <3> QED
      BY <1>17, <3>2 DEF FlagPaidOrder, OrderRow
  <2>2. \A q \in PaymentIds : PaymentStays(q)
    BY <1>17, <1>p, ColumnValues DEF FlagPaidOrder
  <2> QED
    BY <1>b, <2>1, <2>2
<1>m. ASSUME NEW o \in OrderIds, UNCHANGED <<held, carts>>, \A p \in PaymentIds : PaymentStays(p),
             orders'[o].coupon = orders[o].coupon, orders'[o].cancelled_at = orders[o].cancelled_at,
             orders'[o].shopper = orders[o].shopper, orders'[o].cart = orders[o].cart,
             orders'[o].payment_status # orders[o].payment_status =>
                orders'[o].payment_status # "pending" /\ (held[o] \/ orders[o].payment_status # "pending"),
             orders[o].status # "absent",
             \A other \in OrderIds \ {o} : orders'[other] = orders[other]
      PROVE  BooksInv'
  <2>1. CouponOf(o)'
    BY <1>m, <1>g, CodStays DEF CouponOf
  <2>2. CartOf(o)'
    BY <1>m, <1>g DEF CartOf
  <2> QED
    BY <1>m, <1>o, <2>1, <2>2
<1>18. ASSUME NEW o \in OrderIds, NEW next \in OrderStatus, AdvanceStatus(o, next) PROVE BooksInv'
  <2>1. /\ orders'[o].coupon = orders[o].coupon /\ orders'[o].cancelled_at = orders[o].cancelled_at
        /\ orders'[o].shopper = orders[o].shopper /\ orders'[o].cart = orders[o].cart
        /\ orders'[o].payment_status = orders[o].payment_status
        /\ \A other \in OrderIds \ {o} : orders'[other] = orders[other]
        /\ UNCHANGED <<held, carts, payments>>
    BY <1>18 DEF AdvanceStatus, OrderRow
  <2>2. orders[o].status # "absent"
    BY <1>18, NextIsStarted DEF AdvanceStatus, OrderRow
  <2> QED
    BY <1>m, <2>1, <2>2 DEF PaymentStays, Live
<1>x. ASSUME NEW o \in OrderIds, payments' = CodCollected(o), UNCHANGED <<held, carts>>,
             orders[o].status # "absent",
             orders'[o].payment_status = PaymentStatusAfterDelivery(o),
             orders'[o].coupon = orders[o].coupon, orders'[o].cancelled_at = orders[o].cancelled_at,
             orders'[o].shopper = orders[o].shopper, orders'[o].cart = orders[o].cart,
             \A other \in OrderIds \ {o} : orders'[other] = orders[other]
      PROVE  BooksInv'
  <2>1. \A p \in PaymentIds : PaymentStays(p)
    BY <1>x DEF CodCollected, PaymentsIn, PaymentsOf, PaymentRow, PaymentStays, Live
  <2>2. PaymentsIn(o, {"cod"}, {"pending"}) # {} => held[o]
    BY DEF PaymentsIn, PaymentsOf, GoodsInv, CodHoldsGoods, Live
  <2>3. orders'[o].payment_status # orders[o].payment_status => orders'[o].payment_status = "paid" /\ held[o]
    BY <1>x, <2>2 DEF PaymentStatusAfterDelivery
  <2> QED
    BY <1>x, <1>m, <2>1, <2>3
<1>19. ASSUME NEW o \in OrderIds, DeliverByHand(o) PROVE BooksInv'
  <2>1. /\ payments' = CodCollected(o)
        /\ orders'[o].payment_status = PaymentStatusAfterDelivery(o)
        /\ orders'[o].coupon = orders[o].coupon /\ orders'[o].cancelled_at = orders[o].cancelled_at
        /\ orders'[o].shopper = orders[o].shopper /\ orders'[o].cart = orders[o].cart
        /\ \A other \in OrderIds \ {o} : orders'[other] = orders[other]
        /\ UNCHANGED <<held, carts>>
    BY <1>19 DEF DeliverByHand, OrderRow
  <2>2. orders[o].status # "absent"
    BY <1>19, NextIsStarted DEF DeliverByHand, OrderRow
  <2> QED
    BY <1>x, <2>1, <2>2
<1>20. ASSUME NEW o \in OrderIds, CancelUnpaidOrder(o) PROVE BooksInv'
  <2>1. /\ orders'[o].cancelled_at /\ orders'[o].payment_status = orders[o].payment_status
        /\ orders'[o].coupon \in {orders[o].coupon, Released(orders[o].coupon)}
        /\ orders'[o].shopper = orders[o].shopper /\ orders'[o].cart = orders[o].cart
        /\ \A other \in OrderIds \ {o} : orders'[other] = orders[other]
        /\ UNCHANGED <<held, payments, carts>>
    BY <1>20 DEF CancelUnpaidOrder, OrderRow
  <2>2. orders[o].status # "absent"
    BY <1>20, NextIsStarted DEF CancelUnpaidOrder, OrderRow
  <2> QED
    BY <1>c, <2>1, <2>2
<1>21. ASSUME NEW o \in OrderIds, NEW p \in PaymentIds, NEW r \in RefundIds, CancelPaidOrder(o, p, r) PROVE BooksInv'
  <2>1. /\ orders'[o].cancelled_at /\ orders'[o].payment_status = orders[o].payment_status
        /\ orders'[o].coupon = orders[o].coupon
        /\ orders'[o].shopper = orders[o].shopper /\ orders'[o].cart = orders[o].cart
        /\ \A other \in OrderIds \ {o} : orders'[other] = orders[other]
        /\ orders[o].payment_status = "paid"
        /\ held' = [held EXCEPT ![o] = FALSE]
        /\ UNCHANGED <<payments, carts>>
    BY <1>21 DEF CancelPaidOrder, OrderRow
  <2>2. orders[o].status # "absent"
    BY <1>21, NextIsStarted DEF CancelPaidOrder, OrderRow
  <2>3. CouponOf(o)' /\ CartOf(o)'
    BY <1>g, <2>1, <2>2 DEF CouponOf, CartOf
  <2> QED
    BY <1>o, <2>1, <2>3 DEF PaymentStays, Live
<1>22. ASSUME NEW r \in RefundIds, DispatchAccepted(r) PROVE BooksInv'
    BY <1>22, <1>v DEF DispatchAccepted
<1>23. ASSUME NEW r \in RefundIds, DispatchRefused(r) PROVE BooksInv'
  <2>1. UNCHANGED <<orders, held, carts, payments>>
    BY <1>23, Zenon DEF DispatchRefused
  <2> QED
    BY <2>1, <1>v
<1>24. ASSUME NEW r \in RefundIds, DispatchLost(r) PROVE BooksInv'
    BY <1>24, <1>v DEF DispatchLost
<1>25. ASSUME NEW r \in RefundIds, RecordRefundFailed(r) PROVE BooksInv'
  <2>1. UNCHANGED <<orders, held, carts, payments>>
    BY <1>25, Zenon DEF RecordRefundFailed
  <2> QED
    BY <2>1, <1>v
<1>26. ASSUME NEW r \in RefundIds, RecordRefundSucceeded(r) PROVE BooksInv'
  <2>1. PICK p \in PaymentIds, o \in OrderIds :
        /\ p = refunds[r].payment /\ o = payments[p].order
        /\ refunds[r].status # "absent"
        /\ orders' = [orders EXCEPT ![o].payment_status = "refunded"]
        /\ payments' = [payments EXCEPT ![p].status = "refunded"]
        /\ UNCHANGED <<held, carts>>
    BY <1>26 DEF RecordRefundSucceeded, Verifiable
  <2>2. /\ orders'[o].coupon = orders[o].coupon /\ orders'[o].cancelled_at = orders[o].cancelled_at
        /\ orders'[o].shopper = orders[o].shopper /\ orders'[o].cart = orders[o].cart
        /\ orders'[o].payment_status = "refunded"
        /\ \A other \in OrderIds \ {o} : orders'[other] = orders[other]
    BY <2>1 DEF OrderRow
  <2>3. orders[o].payment_status # "pending"
    BY <2>1 DEF DealInv, RefundOfCancelled
  <2>4. orders[o].status # "absent"
    BY <2>1 DEF PaymentInv, RefundOfCapture, Started
  <2>5. \A q \in PaymentIds : PaymentStays(q)
    BY <2>1, <1>p, ColumnValues
  <2> QED
    BY <1>m, <2>1, <2>2, <2>3, <2>4, <2>5, Zenon
<1>27. ASSUME NEW o \in OrderIds, BookShipment(o) PROVE BooksInv'
    BY <1>27, <1>v DEF BookShipment
<1>28. ASSUME NEW o \in OrderIds, CourierMoves(o) PROVE BooksInv'
  <2>1. /\ orders'[o].coupon = orders[o].coupon /\ orders'[o].cancelled_at = orders[o].cancelled_at
        /\ orders'[o].shopper = orders[o].shopper /\ orders'[o].cart = orders[o].cart
        /\ orders'[o].payment_status = orders[o].payment_status
        /\ \A other \in OrderIds \ {o} : orders'[other] = orders[other]
        /\ UNCHANGED <<held, carts, payments>>
    BY <1>28 DEF CourierMoves, OrderRow
  <2>2. orders[o].status # "absent"
    BY <1>28, <1>g DEF CourierMoves, GoodsOf
  <2> QED
    BY <1>m, <2>1, <2>2 DEF PaymentStays, Live
<1>29. ASSUME NEW o \in OrderIds, CourierDelivers(o) PROVE BooksInv'
  <2>1. /\ payments' = CodCollected(o)
        /\ orders'[o].payment_status = PaymentStatusAfterDelivery(o)
        /\ orders'[o].coupon = orders[o].coupon /\ orders'[o].cancelled_at = orders[o].cancelled_at
        /\ orders'[o].shopper = orders[o].shopper /\ orders'[o].cart = orders[o].cart
        /\ \A other \in OrderIds \ {o} : orders'[other] = orders[other]
        /\ UNCHANGED <<held, carts>>
    BY <1>29 DEF CourierDelivers, OrderRow
  <2>2. orders[o].status # "absent"
    BY <1>29, <1>g DEF CourierDelivers, GoodsOf
  <2> QED
    BY <1>x, <2>1, <2>2
<1>30. ASSUME NEW request \in inflight, RequestDies(request) PROVE BooksInv'
    BY <1>30, <1>v DEF RequestDies
<1> QED
    BY <1>1, <1>2, <1>3, <1>4, <1>5, <1>6, <1>7, <1>8, <1>9, <1>10, <1>11, <1>12, <1>13, <1>14, <1>15,
       <1>16, <1>17, <1>18, <1>19, <1>20, <1>21, <1>22, <1>23, <1>24, <1>25, <1>26, <1>27, <1>28, <1>29, <1>30
    DEF Next, ShopperStep, AttemptStep, GatewayStep, ProcessVerifiedPaymentResult, AdminStep, RefundStep, CourierStep

LEMMA BooksCorrect == Spec => []BooksInv
<1>1. TypeOK /\ PaymentInv /\ GoodsInv /\ DealInv /\ BooksInv /\ [Next]_vars => BooksInv'
    BY StepBooks
<1> QED
    BY <1>1, InitBooks, TypeCorrect, PaymentsCorrect, GoodsCorrect, DealsCorrect, PTL DEF Spec

\* A coupon reserved by an older order is consumed exactly by the sale and released
\* only by a cancellation, in whatever order verdicts, cash and administrators come.
THEOREM CouponsSettledAlways == Spec => []CouponSettled
<1>1. BooksInv => CouponSettled
    BY DEF BooksInv
<1> QED
    BY <1>1, BooksCorrect, PTL

\* A customer's cart is bought once: no confirmation, paid or cash, leaves the cart
\* row it sold active, and none spends a cart opened since (finalizeCartForOrder).
THEOREM CartsSpentAlways == Spec => []CartSpent
<1>1. BooksInv => CartSpent
    BY DEF BooksInv
<1> QED
    BY <1>1, BooksCorrect, PTL
-----------------------------------------------------------------------------
(* Stock: what all orders hold and what is on the shelf is inductive beside  *)
(* the invariants of the orders.                                             *)

\* The stock of one product: what is left of what there was, the lines ordered, who
\* holds theirs and who was an exception.
Balanced(was, left, lines, holders, excepted) ==
    /\ was <= left + Total(lines, holders)
    /\ left + Total(lines, holders) <= was + Total(lines, excepted)

\* With nothing left out, the units an order took are on the shelf or held.
StockBalanced == \A k \in Skus : Balanced(InitialStock[k], stock[k], Lines(k), Held, Excepted)

LEMMA StockByProduct ==
    /\ StockBalanced <=>
            \A k \in Skus : Balanced(InitialStock[k], stock[k], Lines(k), Held, Excepted)
    /\ StockBalanced' <=>
            \A k \in Skus : Balanced(InitialStock[k], stock'[k], Lines(k)', Held', Excepted')
<1> QED
    BY DEF StockBalanced

LEMMA LinesType ==
    ASSUME TypeOK, NEW k \in Skus
    PROVE  /\ Lines(k) \in [OrderIds -> Nat]
           /\ \A o \in OrderIds : Lines(k)[o] = orders[o].lines[k]
           /\ stock[k] \in Nat /\ InitialStock[k] \in Nat
<1>1. \A o \in OrderIds : orders[o].lines \in Baskets
    BY DEF TypeOK, OrderRow
<1>2. \A o \in OrderIds : orders[o].lines[k] \in Nat
    BY <1>1, StockAssumption
<1> QED
    BY <1>2, StockAssumption DEF Lines, TypeOK

LEMMA LinesTypeNext ==
    ASSUME TypeOK', NEW k \in Skus
    PROVE  /\ Lines(k)' \in [OrderIds -> Nat]
           /\ \A o \in OrderIds : Lines(k)'[o] = orders'[o].lines[k]
           /\ stock'[k] \in Nat
<1>1. \A o \in OrderIds : orders'[o].lines \in Baskets
    BY DEF TypeOK, OrderRow
<1>2. \A o \in OrderIds : orders'[o].lines[k] \in Nat
    BY <1>1, StockAssumption
<1> QED
    BY <1>2 DEF Lines, TypeOK

\* The balance of a product when nobody takes or returns anything ...
LEMMA BalanceKept ==
    ASSUME NEW was \in Nat, NEW left \in Nat, NEW f \in [OrderIds -> Nat], NEW g \in [OrderIds -> Nat],
           NEW H \in SUBSET OrderIds, NEW E \in SUBSET OrderIds, NEW F \in SUBSET OrderIds, E \subseteq F,
           \A o \in H \cup E : g[o] = f[o],
           Balanced(was, left, f, H, E)
    PROVE  Balanced(was, left, g, H, F)
<1>1. IsFiniteSet(H) /\ IsFiniteSet(E) /\ IsFiniteSet(F)
    BY FiniteAssumption, FS_Subset
<1>2. Total(f, H) = Total(g, H) /\ Total(f, E) = Total(g, E)
    BY <1>1, TotalSame
<1>3. Total(g, E) <= Total(g, F)
    BY <1>1, TotalMonotone
<1>4. Total(g, H) \in Int /\ Total(g, E) \in Int /\ Total(g, F) \in Int
    BY <1>1, TotalType
<1> QED
    BY <1>2, <1>3, <1>4 DEF Balanced

\* ... when an order takes its lines ...
LEMMA BalanceTaken ==
    ASSUME NEW was \in Nat, NEW left \in Nat, NEW f \in [OrderIds -> Nat],
           NEW H \in SUBSET OrderIds, NEW E \in SUBSET OrderIds, NEW o \in OrderIds, o \notin H,
           Balanced(was, left, f, H, E)
    PROVE  Balanced(was, left - f[o], f, H \cup {o}, E)
<1>1. IsFiniteSet(H) /\ IsFiniteSet(E)
    BY FiniteAssumption, FS_Subset
<1>2. Total(f, H \cup {o}) = f[o] + Total(f, H)
    BY <1>1, TotalAdd
<1>3. Total(f, H) \in Int /\ Total(f, E) \in Int
    BY <1>1, TotalType
<1> QED
    BY <1>2, <1>3 DEF Balanced

\* ... and when one puts them back, or what it never took.
LEMMA BalanceReturned ==
    ASSUME NEW was \in Nat, NEW left \in Nat, NEW f \in [OrderIds -> Nat],
           NEW H \in SUBSET OrderIds, NEW E \in SUBSET OrderIds, NEW o \in OrderIds,
           o \in H \/ o \notin E,
           Balanced(was, left, f, H, E)
    PROVE  Balanced(was, left + f[o], f, H \ {o}, IF o \in H THEN E ELSE E \cup {o})
<1>1. IsFiniteSet(H) /\ IsFiniteSet(E)
    BY FiniteAssumption, FS_Subset
<1>2. Total(f, H) \in Int /\ Total(f, E) \in Int
    BY <1>1, TotalType
<1>3. CASE o \in H
  <2>1. Total(f, H) = f[o] + Total(f, H \ {o})
    BY <1>1, <1>3, TotalRemove
  <2>2. IsFiniteSet(H \ {o})
    BY <1>1, FS_Subset
  <2>3. Total(f, H \ {o}) \in Int
    BY <2>2, TotalType
  <2> QED
    BY <1>2, <1>3, <2>1, <2>3 DEF Balanced
<1>4. CASE o \notin H
  <2>1. H \ {o} = H
    BY <1>4
  <2>2. Total(f, E \cup {o}) = f[o] + Total(f, E)
    BY <1>1, <1>4, TotalAdd
  <2> QED
    BY <1>2, <1>4, <2>1, <2>2 DEF Balanced
<1> QED
    BY <1>3, <1>4

LEMMA InitStock == Init => StockBalanced
<1> SUFFICES ASSUME Init, NEW k \in Skus PROVE Balanced(InitialStock[k], stock[k], Lines(k), Held, Excepted)
    BY StockByProduct
<1>1. Held = {} /\ stock[k] = InitialStock[k] /\ InitialStock[k] \in Nat
    BY StockAssumption DEF Init, Held
<1>2. Excepted = {}
    BY DEF Init, Excepted, AbsentRefund
<1>3. Total(Lines(k), {}) = 0
    BY TotalEmpty
<1> QED
    BY <1>1, <1>2, <1>3 DEF Balanced

\* What no step undoes: what an order asked for, its exception, and the row of a refund.
LinesStay(o) ==
    orders[o].status # "absent" =>
        /\ orders'[o].lines = orders[o].lines
        /\ orders[o].commerce_exception # "none" => orders'[o].commerce_exception # "none"
RefundStays(r) ==
    refunds[r].status # "absent" => refunds'[r].status # "absent" /\ refunds'[r].payment = refunds[r].payment
RowsStay ==
    /\ \A o \in OrderIds : LinesStay(o)
    /\ \A p \in PaymentIds : PaymentStays(p)
    /\ \A r \in RefundIds : RefundStays(r)

LEMMA ExceptedStay ==
    ASSUME TypeOK, PaymentInv, DealInv, RowsStay
    PROVE  /\ Excepted \subseteq Excepted'
           /\ \A o \in Excepted : orders[o].status # "absent"
<1> USE RowTypes
<1>1. ASSUME NEW o \in Excepted PROVE orders[o].status # "absent" /\ o \in Excepted'
  <2>1. PICK r \in RefundIds : refunds[r].status # "absent" /\ payments[refunds[r].payment].order = o
    BY DEF Excepted
  <2>2. o \in OrderIds /\ orders[o].commerce_exception # "none"
    BY DEF Excepted
  <2>3. Live(refunds[r].payment) /\ refunds[r].payment \in PaymentIds
    BY <2>1 DEF PaymentInv, RefundOfCapture, Captured, Live
  <2>4. orders[o].status # "absent"
    BY <2>2 DEF DealInv, DealOfRow
  <2>5. refunds'[r].status # "absent" /\ payments'[refunds'[r].payment].order = o
    BY <2>1, <2>3 DEF RowsStay, RefundStays, PaymentStays
  <2>6. orders'[o].commerce_exception # "none"
    BY <2>2, <2>4 DEF RowsStay, LinesStay
  <2> QED
    BY <2>2, <2>4, <2>5, <2>6 DEF Excepted
<1> QED
    BY <1>1

LEMMA HeldHaveRows ==
    ASSUME GoodsInv
    PROVE  \A o \in Held : orders[o].status # "absent"
<1> QED
    BY DEF Held, GoodsInv, GoodsOf

\* A step that moves no goods.
LEMMA StockForward ==
    ASSUME TypeOK, TypeOK', PaymentInv, GoodsInv, DealInv, StockBalanced, RowsStay, UNCHANGED <<stock, held>>
    PROVE  StockBalanced'
<1>1. Held' = Held /\ Held \in SUBSET OrderIds
    BY DEF Held
<1>2. /\ Excepted \in SUBSET OrderIds /\ Excepted' \in SUBSET OrderIds
      /\ Excepted \subseteq Excepted' /\ \A o \in Excepted : orders[o].status # "absent"
    BY ExceptedStay DEF Excepted
<1>3. ASSUME NEW k \in Skus PROVE Balanced(InitialStock[k], stock'[k], Lines(k)', Held', Excepted')
  <2>1. Balanced(InitialStock[k], stock[k], Lines(k), Held, Excepted)
    BY StockByProduct
  <2>2. \A o \in Held \cup Excepted : Lines(k)'[o] = Lines(k)[o]
    BY <1>1, <1>2, HeldHaveRows, LinesType, LinesTypeNext DEF RowsStay, LinesStay
  <2> QED
    BY <1>1, <1>2, <2>1, <2>2, BalanceKept, LinesType, LinesTypeNext
<1> QED
    BY <1>3, StockByProduct

\* A sale: the order takes its lines.
LEMMA StockTaken ==
    ASSUME TypeOK, TypeOK', PaymentInv, GoodsInv, DealInv, StockBalanced, RowsStay,
           NEW o \in OrderIds, ~held[o], TakeStock(o), held' = [held EXCEPT ![o] = TRUE],
           orders[o].status # "absent"
    PROVE  StockBalanced'
<1>1. /\ Held' = Held \cup {o} /\ o \notin Held
      /\ Held \in SUBSET OrderIds /\ Held' \in SUBSET OrderIds
    BY DEF Held, TypeOK
<1>2. /\ Excepted \in SUBSET OrderIds /\ Excepted' \in SUBSET OrderIds
      /\ Excepted \subseteq Excepted' /\ \A other \in Excepted : orders[other].status # "absent"
    BY ExceptedStay DEF Excepted
<1>l. \A other \in Held' \cup Excepted : orders'[other].lines = orders[other].lines
    BY <1>1, <1>2, HeldHaveRows DEF RowsStay, LinesStay
<1>3. ASSUME NEW k \in Skus PROVE Balanced(InitialStock[k], stock'[k], Lines(k)', Held', Excepted')
  <2>1. Balanced(InitialStock[k], stock[k], Lines(k), Held, Excepted)
    BY StockByProduct
  <2>t. stock'[k] = stock[k] - orders[o].lines[k]
    BY DEF TakeStock
  <2>2. stock'[k] = stock[k] - Lines(k)[o]
    BY <2>t, LinesType
  <2>n. InitialStock[k] \in Nat /\ stock[k] \in Nat /\ Lines(k) \in [OrderIds -> Nat]
    BY LinesType
  <2>b. Balanced(InitialStock[k], stock[k] - Lines(k)[o], Lines(k), Held \cup {o}, Excepted)
    BY <1>1, <1>2, <2>1, <2>n, BalanceTaken
  <2>3. Balanced(InitialStock[k], stock'[k], Lines(k), Held', Excepted)
    BY <1>1, <2>2, <2>b
  <2>4. \A other \in Held' \cup Excepted : Lines(k)'[other] = Lines(k)[other]
    BY <1>1, <1>2, <1>l, LinesType, LinesTypeNext
  <2>5. stock'[k] \in Nat /\ Lines(k)' \in [OrderIds -> Nat]
    BY LinesTypeNext
  <2> QED
    BY <1>1, <1>2, <2>n, <2>3, <2>4, <2>5, BalanceKept
<1> QED
    BY <1>3, StockByProduct

\* A cancellation: the order puts its lines on the shelf, and if it held none it was an
\* exception and has its first refund.
LEMMA StockReturned ==
    ASSUME TypeOK, TypeOK', PaymentInv, GoodsInv, DealInv, StockBalanced, RowsStay,
           NEW o \in OrderIds, ReturnStock(o), held' = [held EXCEPT ![o] = FALSE],
           orders[o].status # "absent", held[o] \/ o \notin Excepted, held[o] \/ o \in Excepted'
    PROVE  StockBalanced'
<1>1. /\ Held' = Held \ {o} /\ (o \in Held <=> held[o])
      /\ Held \in SUBSET OrderIds /\ Held' \in SUBSET OrderIds
    BY DEF Held, TypeOK
<1>2. /\ Excepted \in SUBSET OrderIds /\ Excepted' \in SUBSET OrderIds
      /\ Excepted \subseteq Excepted' /\ \A other \in Excepted : orders[other].status # "absent"
    BY ExceptedStay DEF Excepted
<1>3. PICK more \in SUBSET OrderIds : more = IF o \in Held THEN Excepted ELSE Excepted \cup {o}
    BY <1>2
<1>4. more \subseteq Excepted' /\ \A other \in more : orders[other].status # "absent"
    BY <1>1, <1>2, <1>3
<1>l. \A other \in Held' \cup more : orders'[other].lines = orders[other].lines
    BY <1>1, <1>2, <1>4, HeldHaveRows DEF RowsStay, LinesStay
<1>5. ASSUME NEW k \in Skus PROVE Balanced(InitialStock[k], stock'[k], Lines(k)', Held', Excepted')
  <2>1. Balanced(InitialStock[k], stock[k], Lines(k), Held, Excepted)
    BY StockByProduct
  <2>t. stock'[k] = stock[k] + orders[o].lines[k]
    BY DEF ReturnStock
  <2>2. stock'[k] = stock[k] + Lines(k)[o]
    BY <2>t, LinesType
  <2>n. InitialStock[k] \in Nat /\ stock[k] \in Nat /\ Lines(k) \in [OrderIds -> Nat]
    BY LinesType
  <2>b. Balanced(InitialStock[k], stock[k] + Lines(k)[o], Lines(k), Held \ {o},
                 IF o \in Held THEN Excepted ELSE Excepted \cup {o})
    BY <1>1, <1>2, <2>1, <2>n, BalanceReturned
  <2>3. Balanced(InitialStock[k], stock'[k], Lines(k), Held', more)
    BY <1>1, <1>3, <2>2, <2>b
  <2>4. \A other \in Held' \cup more : Lines(k)'[other] = Lines(k)[other]
    BY <1>1, <1>3, <1>l, LinesType, LinesTypeNext
  <2>5. stock'[k] \in Nat /\ Lines(k)' \in [OrderIds -> Nat]
    BY LinesTypeNext
  <2> QED
    BY <1>1, <1>2, <1>4, <2>n, <2>3, <2>4, <2>5, BalanceKept
<1> QED
    BY <1>5, StockByProduct

LEMMA StepStock ==
    TypeOK /\ PaymentInv /\ GoodsInv /\ DealInv /\ StockBalanced /\ [Next]_vars => StockBalanced'
<1> SUFFICES ASSUME TypeOK, TypeOK', PaymentInv, GoodsInv, DealInv, StockBalanced, [Next]_vars PROVE StockBalanced'
    BY StepType
<1> USE RowTypes, GoodsTypes
<1>g. \A o \in OrderIds : GoodsOf(o) /\ DealOfRow(o)
    BY DEF GoodsInv, DealInv
<1>s. \A o \in OrderIds : CanConfirm(o) => orders[o].status = "pending" /\ ~held[o]
    BY <1>g, NextIsStarted DEF CanConfirm, OrderRow, GoodsOf
<1>n. ASSUME NEW p \in PaymentIds, payments[p].status = "absent",
             \A q \in PaymentIds \ {p} : payments'[q] = payments[q]
      PROVE  \A q \in PaymentIds : PaymentStays(q)
    BY <1>n DEF PaymentStays, Live
<1>p. ASSUME NEW p \in PaymentIds, NEW verdict \in PaymentStatus, payments' = [payments EXCEPT ![p].status = verdict]
      PROVE  \A q \in PaymentIds : PaymentStays(q)
    BY <1>p DEF PaymentStays, Live, PaymentStatus, PaymentRow
<1>k. UNCHANGED payments => \A q \in PaymentIds : PaymentStays(q)
    BY DEF PaymentStays, Live
<1>r. UNCHANGED refunds => \A t \in RefundIds : RefundStays(t)
    BY DEF RefundStays
<1>u. ASSUME UNCHANGED <<orders, stock, held>>, \A q \in PaymentIds : PaymentStays(q),
             \A t \in RefundIds : RefundStays(t)
      PROVE  StockBalanced'
    BY <1>u, StockForward DEF RowsStay, LinesStay
<1>v. ASSUME UNCHANGED <<orders, stock, held, payments, refunds>> PROVE StockBalanced'
    BY <1>v, <1>u, <1>k, <1>r
\* One order's row changes, and no goods move.
<1>o. ASSUME NEW o \in OrderIds, LinesStay(o), \A other \in OrderIds \ {o} : orders'[other] = orders[other],
             UNCHANGED <<stock, held>>, \A q \in PaymentIds : PaymentStays(q), \A t \in RefundIds : RefundStays(t)
      PROVE  StockBalanced'
    BY <1>o, StockForward DEF RowsStay, LinesStay
<1>1. ASSUME UNCHANGED vars PROVE StockBalanced'
    BY <1>1, <1>v DEF vars
<1>2. ASSUME NEW s \in Shoppers, OpenCart(s) PROVE StockBalanced'
    BY <1>2, <1>v DEF OpenCart
<1>3. ASSUME NEW s \in Shoppers, NEW o \in OrderIds, NEW b \in Baskets, CreateOrder(s, o, b) PROVE StockBalanced'
  <2>1. /\ LinesStay(o) /\ \A other \in OrderIds \ {o} : orders'[other] = orders[other]
        /\ UNCHANGED <<stock, held, payments, refunds>>
    BY <1>3 DEF CreateOrder, IsNextId, LinesStay
  <2> QED
    BY <1>o, <1>k, <1>r, <2>1
<1>4. ASSUME NEW o \in OrderIds, PerformPendingOrderCancellation(o) PROVE StockBalanced'
  <2>1. /\ LinesStay(o) /\ \A other \in OrderIds \ {o} : orders'[other] = orders[other]
        /\ UNCHANGED <<stock, held, payments, refunds>>
    BY <1>4 DEF PerformPendingOrderCancellation, LinesStay, OrderRow
  <2> QED
    BY <1>o, <1>k, <1>r, <2>1
<1>5. ASSUME NEW o \in OrderIds, InitiatePayuCheckout(o) PROVE StockBalanced'
    BY <1>5, <1>v DEF InitiatePayuCheckout
<1>6. ASSUME NEW o \in OrderIds, InitiateBreezeCheckout(o) PROVE StockBalanced'
    BY <1>6, <1>v DEF InitiateBreezeCheckout
<1>b. ASSUME NEW o \in OrderIds, CanConfirm(o), LinesStay(o),
             \A other \in OrderIds \ {o} : orders'[other] = orders[other],
             TakeStock(o), held' = [held EXCEPT ![o] = TRUE],
             \A q \in PaymentIds : PaymentStays(q), UNCHANGED refunds
      PROVE  StockBalanced'
  <2>1. RowsStay
    BY <1>b, <1>r DEF RowsStay, LinesStay
  <2> QED
    BY <1>b, <1>s, <2>1, StockTaken
<1>7. ASSUME NEW o \in OrderIds, NEW p \in PaymentIds, ConfirmCodOrder(o, p) PROVE StockBalanced'
  <2>1. /\ LinesStay(o) /\ \A other \in OrderIds \ {o} : orders'[other] = orders[other]
        /\ CanConfirm(o) /\ TakeStock(o) /\ held' = [held EXCEPT ![o] = TRUE] /\ UNCHANGED refunds
    BY <1>7 DEF ConfirmCodOrder, LinesStay, OrderRow
  <2>2. payments[p].status = "absent" /\ \A q \in PaymentIds \ {p} : payments'[q] = payments[q]
    BY <1>7 DEF ConfirmCodOrder, IsNextId
  <2> QED
    BY <1>b, <1>n, <2>1, <2>2
<1>8. ASSUME NEW o \in OrderIds, NEW v \in OnlineProviders, NEW p \in PaymentIds,
             CreatePaymentAttempt(o, v, p) PROVE StockBalanced'
    BY <1>8, <1>u, <1>n, <1>r DEF CreatePaymentAttempt, IsNextId
<1>9. ASSUME NEW o \in OrderIds, NEW v \in OnlineProviders, NEW p \in PaymentIds,
             ReuseActiveAttempt(o, v, p) PROVE StockBalanced'
    BY <1>9, <1>v DEF ReuseActiveAttempt
<1>10. ASSUME NEW o \in OrderIds, NEW v \in OnlineProviders, RejectPaymentAttempt(o, v) PROVE StockBalanced'
    BY <1>10, <1>v DEF RejectPaymentAttempt
<1>11. ASSUME NEW p \in PaymentIds, EnsureProviderTransactionId(p) PROVE StockBalanced'
  <2>1. \A q \in PaymentIds : PaymentStays(q)
    BY <1>11 DEF EnsureProviderTransactionId, PaymentRow, PaymentStays, Live
  <2> QED
    BY <1>11, <2>1, <1>u, <1>r DEF EnsureProviderTransactionId
<1>12. ASSUME NEW p \in PaymentIds, NEW v \in {"captured", "failed", "cancelled"}, GatewayDecides(p, v) PROVE StockBalanced'
    BY <1>12, <1>v DEF GatewayDecides
<1>13. ASSUME NEW r \in RefundIds, NEW v \in {"paid_out", "rejected"}, GatewaySettlesRefund(r, v) PROVE StockBalanced'
    BY <1>13, <1>v DEF GatewaySettlesRefund
<1>14. ASSUME NEW p \in PaymentIds, RecordDeclined(p) PROVE StockBalanced'
    BY <1>14, <1>u, <1>p, <1>r, ColumnValues DEF RecordDeclined
<1>15. ASSUME NEW p \in PaymentIds, RecordRepeatedCapture(p) PROVE StockBalanced'
    BY <1>15, <1>u, <1>p, <1>r, ColumnValues DEF RecordRepeatedCapture
<1>16. ASSUME NEW p \in PaymentIds, ConfirmPaidOrder(p) PROVE StockBalanced'
  <2>0. PICK o \in OrderIds :
        /\ o = payments[p].order
        /\ CanConfirm(o) /\ TakeStock(o) /\ held' = [held EXCEPT ![o] = TRUE] /\ UNCHANGED refunds
        /\ orders' = [orders EXCEPT ![o].payment_status = "paid", ![o].status = "confirmed",
                                    ![o].coupon = Consumed(@)]
    BY <1>16 DEF ConfirmPaidOrder
  <2>1. LinesStay(o) /\ \A other \in OrderIds \ {o} : orders'[other] = orders[other]
    BY <2>0 DEF LinesStay, OrderRow
  <2>2. \A q \in PaymentIds : PaymentStays(q)
    BY <1>16, <1>p, ColumnValues DEF ConfirmPaidOrder
  <2> QED
    BY <1>b, <2>0, <2>1, <2>2
<1>17. ASSUME NEW p \in PaymentIds, FlagPaidOrder(p) PROVE StockBalanced'
  <2>e. \A o \in OrderIds : ExceptionFor(o) # "none"
    BY DEF ExceptionFor
  <2>1. PICK o \in OrderIds :
        /\ LinesStay(o) /\ \A other \in OrderIds \ {o} : orders'[other] = orders[other]
        /\ UNCHANGED <<stock, held, refunds>>
    BY <1>17, <2>e DEF FlagPaidOrder, LinesStay, OrderRow
  <2>2. \A q \in PaymentIds : PaymentStays(q)
    BY <1>17, <1>p, ColumnValues DEF FlagPaidOrder
  <2> QED
    BY <1>o, <1>r, <2>1, <2>2
<1>18. ASSUME NEW o \in OrderIds, NEW next \in OrderStatus, AdvanceStatus(o, next) PROVE StockBalanced'
  <2>1. /\ LinesStay(o) /\ \A other \in OrderIds \ {o} : orders'[other] = orders[other]
        /\ UNCHANGED <<stock, held, payments, refunds>>
    BY <1>18 DEF AdvanceStatus, LinesStay, OrderRow
  <2> QED
    BY <1>o, <1>k, <1>r, <2>1
<1>x. ASSUME NEW o \in OrderIds, payments' = CodCollected(o)
      PROVE  \A q \in PaymentIds : PaymentStays(q)
    BY <1>x DEF CodCollected, PaymentsIn, PaymentsOf, PaymentRow, PaymentStays, Live
<1>19. ASSUME NEW o \in OrderIds, DeliverByHand(o) PROVE StockBalanced'
  <2>1. /\ LinesStay(o) /\ \A other \in OrderIds \ {o} : orders'[other] = orders[other]
        /\ payments' = CodCollected(o) /\ UNCHANGED <<stock, held, refunds>>
    BY <1>19 DEF DeliverByHand, LinesStay, OrderRow
  <2> QED
    BY <1>o, <1>x, <1>r, <2>1
<1>20. ASSUME NEW o \in OrderIds, CancelUnpaidOrder(o) PROVE StockBalanced'
  <2>1. /\ LinesStay(o) /\ \A other \in OrderIds \ {o} : orders'[other] = orders[other]
        /\ UNCHANGED <<stock, held, payments, refunds>>
    BY <1>20 DEF CancelUnpaidOrder, LinesStay, OrderRow
  <2> QED
    BY <1>o, <1>k, <1>r, <2>1
<1>21. ASSUME NEW o \in OrderIds, NEW p \in PaymentIds, NEW r \in RefundIds, CancelPaidOrder(o, p, r) PROVE StockBalanced'
  <2>1. /\ orders[o].status \notin {"absent", "cancelled", "delivered", "return_requested"}
        /\ orders[o].payment_status = "paid"
    BY <1>21, NextIsStarted DEF CancelPaidOrder, ValidNext, OrderRow
  <2>2. /\ LinesStay(o) /\ \A other \in OrderIds \ {o} : orders'[other] = orders[other]
        /\ orders'[o].commerce_exception = orders[o].commerce_exception
        /\ ReturnStock(o) /\ held' = [held EXCEPT ![o] = FALSE] /\ UNCHANGED payments
    BY <1>21 DEF CancelPaidOrder, LinesStay, OrderRow
  <2>3. /\ payments[p].order = o
        /\ refunds[r].status = "absent" /\ refunds'[r].status = "pending" /\ refunds'[r].payment = p
        /\ \A t \in RefundIds \ {r} : refunds'[t] = refunds[t]
    BY <1>21 DEF CancelPaidOrder, Refundable, PaymentsIn, PaymentsOf, IsNextId
  <2>4. RowsStay
    BY <1>k, <2>2, <2>3 DEF RowsStay, LinesStay, RefundStays
  \* Not cancelled before, it has no refund yet.
  <2>5. ~orders[o].cancelled_at
    BY <2>1 DEF DealInv, DealOfRow, Arrived
  <2>6. \A t \in RefundIds : refunds[t].status # "absent" => payments[refunds[t].payment].order # o
    BY <2>5 DEF DealInv, RefundOfCancelled
  <2>7. o \notin Excepted
    BY <2>6 DEF Excepted
  \* Paid, without goods and without a refund: an exception.
  <2>8. held[o] \/ orders[o].commerce_exception # "none"
    BY <2>1, <2>6 DEF GoodsInv, CapturedMoneyAccounted
  <2>9. held[o] \/ o \in Excepted'
    BY <2>2, <2>3, <2>8 DEF Excepted
  <2> QED
    BY <2>1, <2>2, <2>4, <2>7, <2>9, StockReturned
<1>t. ASSUME NEW r \in RefundIds, NEW status \in RefundStatus, refunds'[r].status = status,
             refunds'[r].payment = refunds[r].payment,
             \A t \in RefundIds \ {r} : refunds'[t] = refunds[t]
      PROVE  \A t \in RefundIds : RefundStays(t)
    BY <1>t DEF RefundStays, RefundStatus
<1>22. ASSUME NEW r \in RefundIds, DispatchAccepted(r) PROVE StockBalanced'
  <2>1. \A t \in RefundIds : RefundStays(t)
    BY <1>22, <1>t DEF DispatchAccepted, RefundRow, RefundStatus
  <2> QED
    BY <1>22, <1>u, <1>k, <2>1 DEF DispatchAccepted
<1>23. ASSUME NEW r \in RefundIds, DispatchRefused(r) PROVE StockBalanced'
  <2>1. \A t \in RefundIds : RefundStays(t)
    BY <1>23, <1>t DEF DispatchRefused, RefundRow, RefundStatus
  <2>2. UNCHANGED <<orders, stock, held, payments>>
    BY <1>23, Zenon DEF DispatchRefused
  <2> QED
    BY <1>u, <1>k, <2>1, <2>2
<1>24. ASSUME NEW r \in RefundIds, DispatchLost(r) PROVE StockBalanced'
    BY <1>24, <1>v DEF DispatchLost
<1>25. ASSUME NEW r \in RefundIds, RecordRefundFailed(r) PROVE StockBalanced'
  <2>1. \A t \in RefundIds : RefundStays(t)
    BY <1>25, <1>t DEF RecordRefundFailed, RefundRow, RefundStatus
  <2>2. UNCHANGED <<orders, stock, held, payments>>
    BY <1>25, Zenon DEF RecordRefundFailed
  <2> QED
    BY <1>u, <1>k, <2>1, <2>2
<1>26. ASSUME NEW r \in RefundIds, RecordRefundSucceeded(r) PROVE StockBalanced'
  <2>1. PICK p \in PaymentIds, o \in OrderIds :
        /\ orders' = [orders EXCEPT ![o].payment_status = "refunded"]
        /\ payments' = [payments EXCEPT ![p].status = "refunded"]
        /\ refunds' = [refunds EXCEPT ![r].status = "succeeded"]
        /\ UNCHANGED <<held, stock>>
    BY <1>26 DEF RecordRefundSucceeded, Verifiable
  <2>2. LinesStay(o) /\ \A other \in OrderIds \ {o} : orders'[other] = orders[other]
    BY <2>1 DEF OrderRow, LinesStay
  <2>3. \A q \in PaymentIds : PaymentStays(q)
    BY <2>1, <1>p, ColumnValues
  <2>4. \A t \in RefundIds : RefundStays(t)
    BY <2>1, <1>t DEF RefundRow, RefundStatus
  <2> QED
    BY <1>o, <2>1, <2>2, <2>3, <2>4
<1>27. ASSUME NEW o \in OrderIds, BookShipment(o) PROVE StockBalanced'
    BY <1>27, <1>v DEF BookShipment
<1>28. ASSUME NEW o \in OrderIds, CourierMoves(o) PROVE StockBalanced'
  <2>1. /\ LinesStay(o) /\ \A other \in OrderIds \ {o} : orders'[other] = orders[other]
        /\ UNCHANGED <<stock, held, payments, refunds>>
    BY <1>28 DEF CourierMoves, LinesStay, OrderRow
  <2> QED
    BY <1>o, <1>k, <1>r, <2>1
<1>29. ASSUME NEW o \in OrderIds, CourierDelivers(o) PROVE StockBalanced'
  <2>1. /\ LinesStay(o) /\ \A other \in OrderIds \ {o} : orders'[other] = orders[other]
        /\ payments' = CodCollected(o) /\ UNCHANGED <<stock, held, refunds>>
    BY <1>29 DEF CourierDelivers, LinesStay, OrderRow
  <2> QED
    BY <1>o, <1>x, <1>r, <2>1
<1>30. ASSUME NEW request \in inflight, RequestDies(request) PROVE StockBalanced'
    BY <1>30, <1>v DEF RequestDies
<1> QED
    BY <1>1, <1>2, <1>3, <1>4, <1>5, <1>6, <1>7, <1>8, <1>9, <1>10, <1>11, <1>12, <1>13, <1>14, <1>15,
       <1>16, <1>17, <1>18, <1>19, <1>20, <1>21, <1>22, <1>23, <1>24, <1>25, <1>26, <1>27, <1>28, <1>29, <1>30
    DEF Next, ShopperStep, AttemptStep, GatewayStep, ProcessVerifiedPaymentResult, AdminStep, RefundStep, CourierStep

LEMMA UnitsAreTotals == \A k \in Skus : \A S \in SUBSET OrderIds : Units(k, S) = Total(Lines(k), S)
<1> SUFFICES ASSUME NEW k \in Skus, NEW S \in SUBSET OrderIds PROVE Units(k, S) = Total(Lines(k), S)
    OBVIOUS
<1>1. IsFiniteSet(S)
    BY FiniteAssumption, FS_Subset
<1>2. PICK f : f = Lines(k)
    OBVIOUS
<1>3. MapThenSumSet(LAMBDA o : f[o], S) = Total(f, S)
    BY <1>1, MapThenSumSetIsTotal
<1> QED
    BY <1>2, <1>3 DEF Units


-----------------------------------------------------------------------------
(* Who holds units for good: an abstract order that is closed with its goods *)
(* still waits for its money.                                                *)

ClosedIsOwed ==
    \A o \in OrderIds :
        Deals[o].goods => /\ Deals[o].money # "refunded"
                          /\ Deals[o].stage = "closed" => Deals[o].money = "pending"

LEMMA DealTypes ==
    ASSUME TypeOK
    PROVE  /\ Deals = [o \in OrderIds |-> Deals[o]]
           /\ \A o \in OrderIds : /\ Deals[o].money \in {"pending", "paid", "refunded"}
                                  /\ Deals[o].goods \in BOOLEAN
<1>1. Deals = [o \in OrderIds |-> Deals[o]]
    BY DEF Deals
<1>2. \A o \in OrderIds : Deals[o].money = orders[o].payment_status /\ Deals[o].goods = held[o]
    BY DEF Deals, DealOf
<1>3. \A o \in OrderIds : orders[o].payment_status \in {"pending", "paid", "refunded"} /\ held[o] \in BOOLEAN
    BY GoodsTypes
<1> QED
    BY <1>1, <1>2, <1>3

LEMMA InitOwed == Init => ClosedIsOwed
<1>1. Init => \A o \in OrderIds : ~held[o]
    BY DEF Init
<1> QED
    BY <1>1 DEF ClosedIsOwed, Deals, DealOf

LEMMA StepOwed ==
    ASSUME TypeOK, ClosedIsOwed, [Promise!Next]_Deals
    PROVE  ClosedIsOwed'
<1> USE DealTypes DEF ClosedIsOwed, Promise!Becomes, Promise!Deal
<1>1. CASE UNCHANGED Deals
    BY <1>1
<1>2. ASSUME NEW o \in OrderIds, Promise!Place(o) PROVE ClosedIsOwed'
    BY <1>2 DEF Promise!Place, Promise!OpenDeal
<1>3. ASSUME NEW o \in OrderIds, NEW money \in {"pending", "paid"}, Promise!Buy(o, money) PROVE ClosedIsOwed'
    BY <1>3 DEF Promise!Buy
<1>4. ASSUME NEW o \in OrderIds, Promise!Owe(o) PROVE ClosedIsOwed'
    BY <1>4 DEF Promise!Owe
<1>5. ASSUME NEW o \in OrderIds, Promise!Overrule(o) PROVE ClosedIsOwed'
    BY <1>5 DEF Promise!Overrule
<1>6. ASSUME NEW o \in OrderIds, Promise!Arrive(o) PROVE ClosedIsOwed'
    BY <1>6 DEF Promise!Arrive
<1>7. ASSUME NEW o \in OrderIds, Promise!Cancel(o) PROVE ClosedIsOwed'
    BY <1>7 DEF Promise!Cancel
<1>8. ASSUME NEW o \in OrderIds, Promise!Refund(o) PROVE ClosedIsOwed'
    BY <1>8 DEF Promise!Refund
<1> QED
    BY <1>1, <1>2, <1>3, <1>4, <1>5, <1>6, <1>7, <1>8 DEF Promise!Next

LEMMA StrandedIsOwed ==
    ASSUME TypeOK, DealInv, ClosedIsOwed, NEW o \in Stranded
    PROVE  orders[o].payment_status = "pending" /\ HasCodPayment(o)
<1>1. o \in OrderIds /\ held[o] /\ orders[o].status = "cancelled"
    BY DEF Stranded, Held
<1>2. /\ Deals[o].stage = StageOf("cancelled") /\ Deals[o].money = orders[o].payment_status
      /\ Deals[o].goods = held[o]
    BY <1>1 DEF Deals, DealOf
<1>3. orders[o].payment_status = "pending"
    BY <1>1, <1>2, StageNames DEF ClosedIsOwed
<1>4. PICK p \in PaymentIds : CashOwed(p) /\ payments[p].order = o
    BY <1>1, <1>3 DEF DealInv, HeldIsPaidOrOwed
<1>5. p \in PaymentsOf(o) /\ payments[p].provider = "cod"
    BY <1>4 DEF PaymentsOf, CashOwed
<1> QED
    BY <1>3, <1>5 DEF HasCodPayment

\* What all orders hold is what stranded orders and the others do.
LEMMA StockOfBooks ==
    ASSUME TypeOK, DealInv, ClosedIsOwed, StockBalanced
    PROVE  StockAccounted
<1>1. /\ Stranded \in SUBSET Held /\ Held \in SUBSET OrderIds /\ Holders = Held \ Stranded
      /\ Excepted \in SUBSET OrderIds
    BY DEF Stranded, Held, Holders, Excepted
<1>2. ASSUME NEW k \in Skus
      PROVE  Missing(k) <= Units(k, Stranded) /\ Units(k, Stranded) <= Missing(k) + Units(k, Excepted)
  <2>1. PICK f \in [OrderIds -> Nat] : f = Lines(k)
    BY LinesType
  <2>2. IsFiniteSet(Held) /\ IsFiniteSet(Stranded) /\ IsFiniteSet(Holders) /\ IsFiniteSet(Excepted)
    BY <1>1, FiniteAssumption, FS_Subset
  <2>3. Total(f, Held) = Total(f, Stranded) + Total(f, Holders)
    BY <1>1, <2>2, TotalSplit
  <2>4. Total(f, Stranded) \in Int /\ Total(f, Holders) \in Int /\ Total(f, Excepted) \in Int
    BY <1>1, <2>2, TotalType
  <2>5. /\ Units(k, Stranded) = Total(f, Stranded) /\ Units(k, Holders) = Total(f, Holders)
        /\ Units(k, Excepted) = Total(f, Excepted)
    BY <1>1, <2>1, UnitsAreTotals
  <2>6. stock[k] \in Nat /\ InitialStock[k] \in Nat
    BY LinesType
  <2>7. Balanced(InitialStock[k], stock[k], f, Held, Excepted)
    BY <2>1 DEF StockBalanced
  <2> QED
    BY <2>3, <2>4, <2>5, <2>6, <2>7 DEF Missing, Balanced
<1> QED
    BY <1>2, StrandedIsOwed DEF StockAccounted

\* Confirmations and cancellations, however many run side by side, lose the units of no
\* order but of those confirmed for cash and cancelled before the courier came, and put back
\* none too many but those of an order that was paid, flagged and refunded (takeStock under
\* the product's row lock, updateStatus to cancelled).
THEOREM StockAccountedAlways == Spec => []StockAccounted
<1>1. TypeOK /\ PaymentInv /\ GoodsInv /\ DealInv /\ StockBalanced /\ [Next]_vars => StockBalanced'
    BY StepStock
<1>2. TypeOK /\ PaymentInv /\ GoodsInv /\ DealInv /\ ClosedIsOwed /\ [Next]_vars => ClosedIsOwed'
    BY StepDeals, StepOwed
<1>3. TypeOK /\ DealInv /\ ClosedIsOwed /\ StockBalanced => StockAccounted
    BY StockOfBooks
<1> QED
    BY <1>1, <1>2, <1>3, InitStock, InitOwed, TypeCorrect, PaymentsCorrect, GoodsCorrect, DealsCorrect, PTL DEF Spec
=============================================================================
