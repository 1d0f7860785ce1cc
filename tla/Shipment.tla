------------------------------ MODULE Shipment ------------------------------
(***************************************************************************)
(* A parcel from booking to delivery, cancellation or return to origin:    *)
(* the shipments table, the order or replacement it fulfils, the courier   *)
(* behind iThink, and the requests of ShipmentService and of the tracking  *)
(* job.  No database transaction is open while iThink is called, so every  *)
(* request is cut there: what it read before the call may be old when it   *)
(* writes after it, and it may die in between.                             *)
(*                                                                         *)
(* A courier status is named by what normalizeIThinkStatus makes of it.    *)
(***************************************************************************)
EXTENDS Integers

CONSTANTS
    Orders,          \* orders that may be shipped, confirmed at the start
    CodOrders,       \* the ones to be paid in cash at the door
    Replacements,    \* replacements of approved return requests
    Admins,          \* concurrent admin requests
    Jobs,            \* concurrent runs of the tracking job
    Actions,         \* provider mutations the admin asks for
    AdminRefreshes   \* whether the admin refreshes tracking too

Sources == Orders \cup Replacements
Handlers == Admins \cup Jobs

ASSUME SourcesAssumption ==
    /\ CodOrders \subseteq Orders /\ Orders \cap Replacements = {} /\ Sources # {}
ASSUME HandlersAssumption == Admins \cap Jobs = {}
ASSUME ActionsAssumption ==
    Actions \subseteq {"Cancellation", "Reattempt", "RTO"} /\ AdminRefreshes \in BOOLEAN

VARIABLES
    shipments,     \* the shipments table, one row per source
    orders,        \* the orders table, as far as fulfilment writes it
    replacements,  \* replacements with their return request
    parcels,       \* the courier: parcels booked for a source, scan of the last
    handlers       \* requests between two of their transactions

vars == <<shipments, orders, replacements, parcels, handlers>>

TERMINAL == {"delivered", "rto_delivered", "cancelled"}
Rto == {"rto_initiated", "rto_in_transit", "rto_delivered"}
Moving == {"picked_up", "in_transit", "out_for_delivery"}

\* normalizeIThinkStatus; provider_status_unknown is a text it does not know.
Scans == TERMINAL \cup Rto \cup Moving
            \cup {"pickup_pending", "delivery_exception", "ndr", "provider_status_unknown"}

ShipmentStatus == Scans \cup {"pending", "awb_assigned", "failed"}

\* What claimProviderMutation writes into provider_status and tells apart there.
Pending(action) == <<action, "dispatch pending">>
Requested(action) == <<action, "requested">>
ProviderStatus == (Actions \X {"dispatch pending", "requested"}) \cup {<<"other", "text">>}
OtherText == <<"other", "text">>

ShipmentRow == [
    status: ShipmentStatus \cup {"absent"},
    provider_status: ProviderStatus,
    tracking_number: BOOLEAN]

OrderRow == [
    status: {"confirmed", "processing", "shipped", "delivered", "cancelled", "return_requested"},
    fulfilment_status: {"unfulfilled", "processing", "shipped", "delivered"},
    payment_status: {"pending", "paid"}]

ReplacementRow == [
    status: {"stock_unavailable", "processing", "completed"},
    return_status: {"approved", "resolved"}]

Parcel == [booked: Nat, scan: Scans \cup {"unscanned"}]

\* Mutant: a parcel on its way may be cancelled.
AllowedInTransit(action) ==
    IF action = "Cancellation" THEN {"awb_assigned", "pickup_pending", "picked_up"} ELSE {"ndr", "delivery_exception"}

\* The statuses from which an action may be claimed.
Allowed(action) ==
    IF action = "Cancellation" THEN {"awb_assigned", "pickup_pending"} ELSE {"ndr", "delivery_exception"}

NoAnswer == "none"
Request ==
    [op: {"idle"}, src: Sources, answer: {NoAnswer},
        status: {"absent"}, provider_status: {OtherText}]
    \cup [op: {"create"}, src: Sources, answer: {NoAnswer, "awb", "no_awb", "rejected", "uncertain"},
        status: {"absent"}, provider_status: {OtherText}]
    \cup [op: {"refresh"}, src: Sources, answer: {NoAnswer, "unscanned"} \cup Scans,
        status: {"absent"}, provider_status: {OtherText}]
    \cup [op: Actions, src: Sources, answer: {NoAnswer, "accepted", "rejected", "uncertain"},
        status: {"awb_assigned", "pickup_pending", "ndr", "delivery_exception"},
        provider_status: ProviderStatus]

NewRequest(op, s) == [op |-> op, src |-> s, answer |-> NoAnswer,
                      status |-> "absent", provider_status |-> OtherText]
Idle == NewRequest("idle", CHOOSE s \in Sources : TRUE)

Init ==
    /\ shipments = [s \in Sources |-> [status |-> "absent", provider_status |-> OtherText,
                                       tracking_number |-> FALSE]]
    /\ orders = [o \in Orders |-> [status |-> "confirmed", fulfilment_status |-> "unfulfilled",
                                   payment_status |-> IF o \in CodOrders THEN "pending" ELSE "paid"]]
    /\ replacements \in [Replacements -> [status: {"stock_unavailable", "processing"},
                                          return_status: {"approved"}]]
    /\ parcels = [s \in Sources |-> [booked |-> 0, scan |-> "unscanned"]]
    /\ handlers = [h \in Handlers |-> Idle]

-----------------------------------------------------------------------------
(* Helpers                                                                 *)

Finish(h) == handlers' = [handlers EXCEPT ![h] = Idle]
Write(s, status, text) ==
    shipments' = [shipments EXCEPT ![s].status = status, ![s].provider_status = text]

\* restoreProviderMutation and its like: WHERE status = 'provider_status_unknown'.
WriteIfUnknown(s, status, text) ==
    IF shipments[s].status = "provider_status_unknown" THEN Write(s, status, text) ELSE UNCHANGED shipments

FORWARD_RANK == [
    pending |-> 0, created |-> 1, awb_assigned |-> 2, pickup_pending |-> 3, picked_up |-> 4,
    in_transit |-> 5, out_for_delivery |-> 6, delivery_exception |-> 7, ndr |-> 7, delivered |-> 8]
Rank(status) == IF status \in DOMAIN FORWARD_RANK THEN FORWARD_RANK[status] ELSE -1

CanAdvance(current, next) ==
    /\ current # next /\ current \notin TERMINAL /\ next # "provider_status_unknown"
    /\ \/ next \in Rto
       \/ /\ current \notin Rto
          /\ \/ current \in {"ndr", "delivery_exception"} /\ next = "out_for_delivery"
             \/ Rank(next) >= Rank(current)

\* Mutant: the parcel on the van counts as delivered.
OrderAfterOutForDelivery(row, next) ==
    IF next \in {"out_for_delivery", "delivered"}
    THEN [status |-> "delivered", fulfilment_status |-> "delivered", payment_status |-> "paid"]
    ELSE row

OrderAfter(row, next) ==
    CASE next \in Moving ->
            [row EXCEPT !.fulfilment_status = "shipped",
                        !.status = IF @ \in {"confirmed", "processing"} THEN "shipped" ELSE @]
      [] next = "delivered" ->
            [status |-> IF row.status = "return_requested" THEN "return_requested" ELSE "delivered",
             fulfilment_status |-> "delivered", payment_status |-> "paid"]
      [] OTHER -> row

\* Mutant: any end of the journey completes the replacement.
ReplacementAfterAnyEnd(row, next) ==
    IF next \in {"delivered", "rto_delivered"} /\ row.status = "processing"
    THEN [status |-> "completed", return_status |-> "resolved"]
    ELSE row

ReplacementAfter(row, next) ==
    IF next = "delivered" /\ row.status = "processing"
    THEN [status |-> "completed", return_status |-> "resolved"]
    ELSE row

ApplyFulfilment(s, next) ==
    /\ orders' = IF s \in Orders THEN [orders EXCEPT ![s] = OrderAfter(@, next)] ELSE orders
    /\ replacements' = IF s \in Replacements THEN [replacements EXCEPT ![s] = ReplacementAfter(@, next)]
                                             ELSE replacements

-----------------------------------------------------------------------------
(* Booking                                                                 *)

Shippable(s) ==
    IF s \in Orders
    THEN orders[s].status = "confirmed" /\ orders[s].fulfilment_status # "delivered"
    ELSE replacements[s].status = "processing"

\* prepare: a new row, or a failed one reset by create or retry.  Any other row is
\* returned as it is.
Prepare(h, s) ==
    /\ handlers[h] = Idle
    /\ shipments[s].status \in {"absent", "failed"} /\ Shippable(s)
    /\ Write(s, "pending", OtherText)
    /\ orders' = IF s \in Orders /\ shipments[s].status = "absent" /\ orders[s].fulfilment_status = "unfulfilled"
                 THEN [orders EXCEPT ![s].fulfilment_status = "processing"] ELSE orders
    /\ handlers' = [handlers EXCEPT ![h] = NewRequest("create", s)]
    /\ UNCHANGED <<replacements, parcels>>

\* iThink books a parcel, refuses, or is not heard of again.  No courier, no rate and
\* a courier that is no longer offered refuse before Add Order is sent.
AddOrder(h) ==
    /\ handlers[h].op = "create" /\ handlers[h].answer = NoAnswer
    /\ \E answer \in {"awb", "no_awb", "rejected", "uncertain"}, booked \in BOOLEAN :
        /\ answer \in {"awb", "no_awb"} => booked
        /\ answer = "rejected" => ~booked
        /\ handlers' = [handlers EXCEPT ![h].answer = answer]
        /\ parcels' = IF booked THEN [parcels EXCEPT ![handlers[h].src] =
                                        [booked |-> @.booked + 1, scan |-> "unscanned"]]
                      ELSE parcels
    /\ UNCHANGED <<shipments, orders, replacements>>

\* Mutant: an unheard Add Order may be retried.
FailureStatusAlwaysRetryable(answer) == "failed"

FailureStatus(answer) == IF answer = "uncertain" THEN "provider_status_unknown" ELSE "failed"

\* The AWB is stored unless there is one; an AWB that another shipment has ends like none.
RecordBooking(h) ==
    LET r == handlers[h]
    IN  /\ r.op = "create" /\ r.answer # NoAnswer
        /\ shipments' = CASE r.answer \in {"awb", "no_awb"} /\ shipments[r.src].tracking_number -> shipments
                          [] r.answer = "awb" /\ ~shipments[r.src].tracking_number ->
                                [shipments EXCEPT ![r.src] = [status |-> "awb_assigned", provider_status |-> OtherText,
                                                              tracking_number |-> TRUE]]
                          [] r.answer = "no_awb" /\ ~shipments[r.src].tracking_number ->
                                [shipments EXCEPT ![r.src].status = "provider_status_unknown",
                                                  ![r.src].provider_status = OtherText]
                          [] OTHER ->
                                [shipments EXCEPT ![r.src].status = FailureStatus(r.answer),
                                                  ![r.src].provider_status = OtherText]
        /\ Finish(h)
        /\ UNCHANGED <<orders, replacements, parcels>>

-----------------------------------------------------------------------------
(* Cancellation, reattempt and RTO                                         *)

\* claimProviderMutation: a row that is pending or done for this action is left alone.
Claimable(s, action) ==
    /\ shipments[s].provider_status # Requested(action)
    /\ shipments[s].tracking_number /\ shipments[s].status \in Allowed(action)

Claim(h, s, action) ==
    /\ handlers[h] = Idle /\ Claimable(s, action)
    /\ handlers' = [handlers EXCEPT ![h] = [
            op |-> action, src |-> s, answer |-> NoAnswer,
            status |-> shipments[s].status, provider_status |-> shipments[s].provider_status]]
    /\ Write(s, "provider_status_unknown", Pending(action))
    /\ UNCHANGED <<orders, replacements, parcels>>

\* iThink accepts what the parcel still allows; a reattempt leaves it with the courier.
CourierAllows(scan, action) ==
    scan \in IF action = "Cancellation" THEN {"unscanned", "pickup_pending"} ELSE {"ndr", "delivery_exception"}

AfterAction(scan, action) ==
    CASE action = "Cancellation" -> "cancelled" [] action = "RTO" -> "rto_initiated" [] OTHER -> scan

Dispatch(h) ==
    LET r == handlers[h]
    IN  /\ r.op \in Actions /\ r.answer = NoAnswer
        /\ \E answer \in {"accepted", "rejected", "uncertain"}, done \in BOOLEAN :
            /\ done => CourierAllows(parcels[r.src].scan, r.op)
            /\ answer = "accepted" => done
            /\ answer = "rejected" => ~done
            /\ handlers' = [handlers EXCEPT ![h].answer = answer]
            /\ parcels' = IF done THEN [parcels EXCEPT ![r.src].scan = AfterAction(@, r.op)] ELSE parcels
        /\ UNCHANGED <<shipments, orders, replacements>>

\* Mutant: an accepted reattempt is recorded whatever the row says now.
RecordAcceptedAnyway(r) ==
    CASE r.op = "Cancellation" -> Write(r.src, "cancelled", OtherText)
      [] r.op = "Reattempt" -> Write(r.src, r.status, Requested("Reattempt"))
      [] r.op = "RTO" -> Write(r.src, "rto_initiated", Requested("RTO"))

\* An accepted cancellation and an unheard answer are written whatever the row says now.
RecordAccepted(r) ==
    CASE r.op = "Cancellation" -> Write(r.src, "cancelled", OtherText)
      [] r.op = "Reattempt" -> WriteIfUnknown(r.src, r.status, Requested("Reattempt"))
      [] r.op = "RTO" -> WriteIfUnknown(r.src, "rto_initiated", Requested("RTO"))

\* Mutant: no news is good news.
RecordAnswerOptimistic(h) ==
    LET r == handlers[h]
    IN  /\ r.op \in Actions
        /\ \/ r.answer \in {"accepted", "uncertain"} /\ RecordAccepted(r)
           \/ r.answer = "rejected" /\ WriteIfUnknown(r.src, r.status, r.provider_status)
        /\ Finish(h)
        /\ UNCHANGED <<orders, replacements, parcels>>

RecordAnswer(h) ==
    LET r == handlers[h]
    IN  /\ r.op \in Actions
        /\ \/ r.answer = "accepted" /\ RecordAccepted(r)
           \/ r.answer = "rejected" /\ WriteIfUnknown(r.src, r.status, r.provider_status)
           \/ r.answer = "uncertain" /\ Write(r.src, "provider_status_unknown", OtherText)
        /\ Finish(h)
        /\ UNCHANGED <<orders, replacements, parcels>>

-----------------------------------------------------------------------------
(* Tracking                                                                *)

\* Mutant: shipments in NDR are skipped too.
SyncExcludedOnHold == TERMINAL \cup {"provider_status_unknown", "ndr"}

\* The job's query; the row is not looked at again before iThink is called.
SyncExcluded == TERMINAL \cup {"provider_status_unknown"}
SelectDue(j, s) ==
    /\ handlers[j] = Idle
    /\ shipments[s].tracking_number /\ shipments[s].status \notin SyncExcluded
    /\ handlers' = [handlers EXCEPT ![j] = NewRequest("refresh", s)]
    /\ UNCHANGED <<shipments, orders, replacements, parcels>>

RequestRefresh(a, s) ==
    /\ AdminRefreshes /\ handlers[a] = Idle /\ shipments[s].tracking_number
    /\ handlers' = [handlers EXCEPT ![a] = NewRequest("refresh", s)]
    /\ UNCHANGED <<shipments, orders, replacements, parcels>>

Track(h) ==
    /\ handlers[h].op = "refresh" /\ handlers[h].answer = NoAnswer
    /\ handlers' = [handlers EXCEPT ![h].answer = parcels[handlers[h].src].scan]
    /\ UNCHANGED <<shipments, orders, replacements, parcels>>

\* A parcel without scans only moves last_synced_at.
Ingest(h) ==
    LET r == handlers[h]
    IN  /\ r.op = "refresh" /\ r.answer # NoAnswer
        /\ \/ r.answer = "unscanned" /\ UNCHANGED <<shipments, orders, replacements>>
           \/ /\ r.answer # "unscanned" /\ CanAdvance(shipments[r.src].status, r.answer)
              /\ Write(r.src, r.answer, OtherText)
              /\ ApplyFulfilment(r.src, r.answer)
           \/ /\ r.answer # "unscanned" /\ ~CanAdvance(shipments[r.src].status, r.answer)
              /\ shipments' = [shipments EXCEPT ![r.src].provider_status = OtherText]
              /\ UNCHANGED <<orders, replacements>>
        /\ Finish(h)
        /\ UNCHANGED parcels

-----------------------------------------------------------------------------
(* The world around                                                        *)

CourierMoves == {
    <<"unscanned", "pickup_pending">>, <<"unscanned", "picked_up">>,
    <<"pickup_pending", "picked_up">>, <<"pickup_pending", "delivery_exception">>,
    <<"pickup_pending", "cancelled">>,
    <<"picked_up", "in_transit">>, <<"in_transit", "out_for_delivery">>,
    <<"in_transit", "provider_status_unknown">>, <<"provider_status_unknown", "in_transit">>,
    <<"in_transit", "delivery_exception">>, <<"delivery_exception", "picked_up">>,
    <<"delivery_exception", "out_for_delivery">>, <<"delivery_exception", "rto_initiated">>,
    <<"out_for_delivery", "delivered">>, <<"out_for_delivery", "ndr">>,
    <<"ndr", "out_for_delivery">>, <<"ndr", "rto_initiated">>,
    <<"rto_initiated", "rto_in_transit">>, <<"rto_in_transit", "rto_delivered">>}

CourierScans(s) ==
    /\ parcels[s].booked > 0
    /\ \E scan \in Scans :
        /\ <<parcels[s].scan, scan>> \in CourierMoves
        /\ parcels' = [parcels EXCEPT ![s].scan = scan]
    /\ UNCHANGED <<shipments, orders, replacements, handlers>>

\* A plain error, or the end of the process, between the steps of a request.
RequestDies(h) ==
    /\ handlers[h] # Idle /\ Finish(h)
    /\ UNCHANGED <<shipments, orders, replacements, parcels>>

\* The transitions of isValidOrderStatusTransition from confirmed on.
OrderTransitions ==
    ({"confirmed"} \X {"processing", "shipped", "delivered", "cancelled"})
    \cup ({"processing"} \X {"shipped", "delivered", "cancelled"})
    \cup ({"shipped"} \X {"delivered", "cancelled"})
    \cup {<<"delivered", "return_requested">>}

\* AdminOrderService.updateStatus: fulfilment_status is left alone, and marking a cash
\* order delivered by hand collects its cash.
AdminUpdatesOrder(o, next) ==
    /\ <<orders[o].status, next>> \in OrderTransitions
    /\ orders' = [orders EXCEPT ![o].status = next,
                               ![o].payment_status = IF next = "delivered" THEN "paid" ELSE @]
    /\ UNCHANGED <<shipments, replacements, parcels, handlers>>

\* ReplacementService.updateStatus, once there is stock.
AllocateReplacement(r) ==
    /\ replacements[r].status = "stock_unavailable"
    /\ replacements' = [replacements EXCEPT ![r].status = "processing"]
    /\ UNCHANGED <<shipments, orders, parcels, handlers>>

Next ==
    \/ \E a \in Admins, s \in Sources :
        Prepare(a, s) \/ RequestRefresh(a, s) \/ \E action \in Actions : Claim(a, s, action)
    \/ \E j \in Jobs, s \in Sources : SelectDue(j, s)
    \/ \E h \in Handlers :
        AddOrder(h) \/ RecordBooking(h) \/ Dispatch(h) \/ RecordAnswer(h) \/ Track(h) \/ Ingest(h) \/ RequestDies(h)
    \/ \E s \in Sources : CourierScans(s)
    \/ \E o \in Orders, next \in {"processing", "shipped", "delivered", "cancelled", "return_requested"} :
            AdminUpdatesOrder(o, next)
    \/ \E r \in Replacements : AllocateReplacement(r)

Spec == Init /\ [][Next]_vars

\* The timer starts the job over and over, and not every run of it is lost on the way.
FairSpec ==
    /\ Spec
    /\ \A j \in Jobs, s \in Sources : WF_vars(SelectDue(j, s))
    /\ \A j \in Jobs : SF_vars(Track(j)) /\ SF_vars(Ingest(j))

-----------------------------------------------------------------------------
(* Properties                                                              *)

TypeOK ==
    /\ shipments \in [Sources -> ShipmentRow]
    /\ orders \in [Orders -> OrderRow]
    /\ replacements \in [Replacements -> ReplacementRow]
    /\ parcels \in [Sources -> Parcel]
    /\ handlers \in [Handlers -> Request]

\* However often Create and Retry are clicked, lost or answered late, iThink gets at
\* most one accepted Add Order per source: what may be retried was never booked.
NoDoubleBooking ==
    \A s \in Sources : parcels[s].booked <= IF shipments[s].status \in {"absent", "failed"} THEN 0 ELSE 1

\* No order of scans, claims, restored claims and late answers makes a row say that a
\* parcel was delivered, cancelled or sent back when the courier did not do so.
RowTruthful ==
    \A s \in Sources :
        LET said == shipments[s].status
            done == parcels[s].scan
        IN  /\ said \in TERMINAL => done = said
            /\ said = "rto_initiated" \/ shipments[s].provider_status = Requested("RTO") => done \in Rto
            /\ said = "rto_in_transit" => done \in {"rto_in_transit", "rto_delivered"}

\* A source counts as fulfilled, a replacement as completed and its return as resolved by
\* the delivery of their parcel and nothing else, and with the row that says so.  Cash is
\* collected only for orders that say delivered.
DeliverySettlesSource ==
    \A s \in Sources :
        /\ s \in Replacements =>
            /\ replacements[s].status = "completed" => parcels[s].scan = "delivered"
            /\ replacements[s].return_status = "resolved" <=> replacements[s].status = "completed"
            /\ shipments[s].status = "delivered" => replacements[s].status = "completed"
        /\ s \in Orders =>
            /\ orders[s].fulfilment_status = "delivered" => parcels[s].scan = "delivered"
            /\ s \in CodOrders /\ orders[s].payment_status = "paid" =>
                orders[s].status \in {"delivered", "return_requested"}
            /\ shipments[s].status = "delivered" =>
                orders[s].fulfilment_status = "delivered" /\ orders[s].payment_status = "paid"

\* A terminal status is final for scans, answers and new requests, however late; only
\* a provider call that is not heard of takes the row out of it again.
TerminalLostOnlyToSilence ==
    [][\A s \in Sources :
        shipments[s].status \in TERMINAL /\ shipments'[s].status # shipments[s].status =>
            /\ shipments'[s].status = "provider_status_unknown"
            /\ \E h \in Handlers : /\ handlers[h].op \in Actions /\ handlers[h].src = s
                                   /\ handlers[h].answer = "uncertain"]_vars

\* The job finds out how every journey ended, unless an action hides the row from it.
JourneyEndRecorded ==
    \A s \in Sources, end \in {"delivered", "rto_delivered"} :
        shipments[s].tracking_number /\ parcels[s].scan = end
            ~> shipments[s].status \in {end, "provider_status_unknown"}
=============================================================================
