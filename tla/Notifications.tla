---------------------------- MODULE Notifications ----------------------------
(***************************************************************************)
(* Mails about orders, payments, parcels, returns, refunds and             *)
(* replacements (services/notification).                                   *)
(*                                                                         *)
(* After a handler has committed, it calls the function of the milestone.  *)
(* The function reads the entity again and goes no further unless the      *)
(* milestone still stands; it then claims the mail by inserting its row in *)
(* notification_log, unique per event and entity, and sends it.  The mail  *)
(* to the administrators follows the customer's, with a claim of its own,  *)
(* and reads the entity once more after the claim.                         *)
(*                                                                         *)
(* A behaviour follows one entity.  Who calls is left open: several        *)
(* handlers may report the same milestone, at the same time or again, or   *)
(* one that was not reached.                                               *)
(***************************************************************************)
EXTENDS Naturals, FiniteSets

CONSTANTS Callers,  \* handlers that report at the same time
          MaxCalls, \* bound on the calls of a behaviour
          Kinds     \* the kinds of entity behaviours follow

VARIABLES kind, entity, log, callers,
          calls,  \* how many calls there have been
          been,   \* history: the states the entity has been in
          mails,  \* history: the mails that left, per event
          crashed \* history: whether a caller was lost half-way

vars == <<kind, entity, log, callers, calls, been, mails, crashed>>

Idle == [step |-> "idle"]
LogStatus == {"none", "pending", "sent", "failed", "skipped"}

-----------------------------------------------------------------------------
(* Entities: what the rest of the system does to them                      *)

OrderStates ==
    [status : {"pending", "confirmed", "processing", "shipped", "delivered", "return_requested", "cancelled"}, cod : BOOLEAN]
OrderIn(statuses) == {o \in OrderStates : o.status \in statuses}
Rows(statuses) == [status : statuses]

\* An order's status, and apart from it whether its money was captured: "exception" is a
\* capture that could not confirm the order, or a second one.
States == [order |-> OrderStates,
           capture |-> Rows({"unpaid", "paid", "exception"}),
           payment |-> Rows({"pending", "paid", "failed"}),
           parcel |-> Rows({"pending", "created", "picked_up", "out_for_delivery", "ndr", "delivery_exception",
                            "rto_initiated", "delivered"}),
           return |-> Rows({"requested", "approved", "rejected"}),
           refund |-> Rows({"pending", "succeeded", "failed"}),
           replacement |-> Rows({"stock_unavailable", "processing", "completed"}),
           pickup |-> Rows({"pending", "approved", "picked_up", "delivered"})]

First == [order |-> OrderIn({"pending"}), capture |-> Rows({"unpaid"}),
          payment |-> Rows({"pending"}), parcel |-> Rows({"pending"}), return |-> Rows({"requested"}),
          refund |-> Rows({"pending"}), replacement |-> Rows({"stock_unavailable", "processing"}),
          pickup |-> Rows({"pending"})]

Forward == [pending |-> 1, confirmed |-> 2, processing |-> 3, shipped |-> 4, delivered |-> 5]
OrderSteps ==
    {step \in (DOMAIN Forward) \X (DOMAIN Forward) : Forward[step[1]] < Forward[step[2]]}
    \cup {<<from, "cancelled">> : from \in (DOMAIN Forward) \ {"delivered"}}
    \cup {<<"delivered", "return_requested">>}

Steps == [
    order |-> OrderSteps,
    capture |-> {<<"unpaid", "paid">>, <<"unpaid", "exception">>, <<"paid", "exception">>},
    payment |-> {<<"pending", "paid">>, <<"pending", "failed">>},
    parcel |-> {<<"pending", "created">>, <<"created", "picked_up">>, <<"picked_up", "out_for_delivery">>,
                <<"out_for_delivery", "ndr">>, <<"ndr", "delivery_exception">>, <<"delivery_exception", "ndr">>,
                <<"ndr", "out_for_delivery">>, <<"ndr", "rto_initiated">>, <<"out_for_delivery", "delivered">>},
    return |-> {<<"requested", "approved">>, <<"requested", "rejected">>},
    refund |-> {<<"pending", "succeeded">>, <<"pending", "failed">>},
    replacement |-> {<<"stock_unavailable", "processing">>, <<"processing", "completed">>},
    pickup |-> {<<"pending", "approved">>, <<"approved", "picked_up">>, <<"picked_up", "delivered">>}]

Advance ==
    /\ \E step \in Steps[kind] :
           /\ step[1] = entity.status
           /\ entity' = [entity EXCEPT !.status = step[2]]
    /\ been' = been \cup {entity'}
    /\ UNCHANGED <<kind, log, callers, calls, mails, crashed>>

-----------------------------------------------------------------------------
(* Milestones: the mails, the states in which the function goes on, and    *)
(* those in which the administrators' mail is still sent                   *)

Milestone(event, due) == [event |-> event, admin |-> "none", due |-> due, fresh |-> {}]
ForBoth(event, admin, due, fresh) == [event |-> event, admin |-> admin, due |-> due, fresh |-> fresh]

OrderPlaced == ForBoth("ORDER_PLACED", "ADMIN_ORDER_PLACED", OrderStates, OrderIn({"pending"}))
PaymentSuccessful ==
    ForBoth("PAYMENT_SUCCESSFUL", "ADMIN_PAYMENT_RECEIVED",
            Rows({"paid"}), Rows({"paid", "exception"}))
PaymentSuccessfulException ==
    ForBoth("PAYMENT_SUCCESSFUL", "ADMIN_COMMERCE_EXCEPTION",
            Rows({"exception"}), Rows({"exception"}))
OrderProcessing ==
    ForBoth("ORDER_PROCESSING", "ADMIN_ORDER_PROCESSING", OrderIn({"processing"}), OrderIn({"processing"}))
OrderShipped == ForBoth("ORDER_SHIPPED", "ADMIN_ORDER_SHIPPED", OrderIn({"shipped"}), OrderIn({"shipped"}))
OrderDelivered ==
    ForBoth("ORDER_DELIVERED", "ADMIN_ORDER_DELIVERED",
            OrderIn({"delivered", "return_requested"}), OrderIn({"delivered", "return_requested"}))
CodOrderConfirmed ==
    ForBoth("none", "ADMIN_COD_CONFIRMED", OrderStates, {o \in OrderStates : o.cod /\ o.status \notin {"pending", "cancelled"}})
OrderCancelled == ForBoth("none", "ADMIN_ORDER_CANCELLED", OrderIn({"cancelled"}), OrderIn({"cancelled"}))

PaymentFailed == ForBoth("PAYMENT_FAILED", "ADMIN_PAYMENT_FAILED", Rows({"failed"}), Rows({"failed"}))

\* A parcel has a tracking number from its booking on.
Booked == States.parcel \ Rows({"pending"})
ShipmentCreated == ForBoth("SHIPMENT_CREATED", "ADMIN_SHIPMENT_CREATED", Booked, Booked)
OrderOutForDelivery == Milestone("ORDER_OUT_FOR_DELIVERY", Rows({"out_for_delivery"}))
OrderReturnedToOrigin == Milestone("SHIPMENT_RTO_INITIATED", Rows({"rto_initiated"}))
DeliveryAttemptFailed == Milestone("SHIPMENT_DELIVERY_FAILED", Rows({"ndr", "delivery_exception"}))
\* Reads no status: its caller has just recorded that the courier has the parcel.
ReplacementShipped == Milestone("REPLACEMENT_SHIPPED", Booked \ Rows({"created"}))

ReturnRequested == ForBoth("RETURN_REQUESTED", "ADMIN_RETURN_REQUESTED", States.return, States.return)
ReturnApproved == Milestone("RETURN_APPROVED", Rows({"approved"}))
ReturnRejected == Milestone("RETURN_REJECTED", Rows({"rejected"}))

RefundInitiated == Milestone("REFUND_INITIATED", States.refund)
RefundSucceeded == Milestone("REFUND_SUCCEEDED", Rows({"succeeded"}))
RefundFailed == Milestone("REFUND_FAILED", Rows({"failed"}))

ReplacementApproved == Milestone("REPLACEMENT_APPROVED", Rows({"processing"}))
ReplacementStockUnavailable == Milestone("REPLACEMENT_STOCK_UNAVAILABLE", Rows({"stock_unavailable"}))
ReplacementCompleted == Milestone("REPLACEMENT_COMPLETED", Rows({"completed"}))

ReturnPickupCreated == Milestone("RETURN_PICKUP_CREATED", States.pickup \ Rows({"pending"}))
ReturnPickedUp == Milestone("RETURN_PICKED_UP", Rows({"picked_up"}))
ReturnDelivered == Milestone("RETURN_DELIVERED", Rows({"delivered"}))

Milestones == [
    order |-> [orderPlaced |-> OrderPlaced, orderProcessing |-> OrderProcessing, orderShipped |-> OrderShipped,
               orderDelivered |-> OrderDelivered, codOrderConfirmed |-> CodOrderConfirmed,
               orderCancelled |-> OrderCancelled],
    capture |-> [paymentSuccessful |-> PaymentSuccessful, paymentException |-> PaymentSuccessfulException],
    payment |-> [paymentFailed |-> PaymentFailed],
    parcel |-> [shipmentCreated |-> ShipmentCreated, orderOutForDelivery |-> OrderOutForDelivery,
                orderReturnedToOrigin |-> OrderReturnedToOrigin, deliveryAttemptFailed |-> DeliveryAttemptFailed,
                replacementShipped |-> ReplacementShipped],
    return |-> [returnRequested |-> ReturnRequested, returnApproved |-> ReturnApproved, returnRejected |-> ReturnRejected],
    refund |-> [refundInitiated |-> RefundInitiated, refundSucceeded |-> RefundSucceeded, refundFailed |-> RefundFailed],
    replacement |-> [replacementApproved |-> ReplacementApproved,
                     replacementStockUnavailable |-> ReplacementStockUnavailable,
                     replacementCompleted |-> ReplacementCompleted],
    pickup |-> [returnPickupCreated |-> ReturnPickupCreated, returnPickedUp |-> ReturnPickedUp,
                returnDelivered |-> ReturnDelivered]]

Events(k) == (UNION {{Milestones[k][f].event, Milestones[k][f].admin} : f \in DOMAIN Milestones[k]}) \ {"none"}

-----------------------------------------------------------------------------
(* A call                                                                  *)

Working(step, f, event) == [step |-> step, function |-> f, event |-> event]
Doing(c) == Milestones[kind][callers[c].function]

Continue(c, state) == callers' = [callers EXCEPT ![c] = state]
Proceed(c, step) == Continue(c, [callers[c] EXCEPT !.step = step])

\* After the customer's mail, the administrators'; then the call returns.
Rest(c) ==
    Continue(c, IF callers[c].event = Doing(c).event /\ Doing(c).admin # "none"
                THEN Working("claim", callers[c].function, Doing(c).admin) ELSE Idle)

Call(c) ==
    /\ callers[c] = Idle
    /\ calls < MaxCalls
    /\ calls' = calls + 1
    /\ \E f \in DOMAIN Milestones[kind] :
           LET m == Milestones[kind][f]
           IN  /\ entity \in m.due
               /\ Continue(c, Working("claim", f, IF m.event = "none" THEN m.admin ELSE m.event))
    /\ UNCHANGED <<kind, entity, log, been, mails, crashed>>

ClaimedWhenSent(event) == log[event] = "sent" \* mutant: the log is searched for a mail that was sent
Claimed(event) == log[event] # "none"

\* The insert fails when the mail was claimed before, or with the database.
Claim(c) ==
    LET event == callers[c].event
    IN  /\ callers[c].step = "claim"
        /\ \/ /\ ~Claimed(event)
              /\ log' = [log EXCEPT ![event] = "pending"]
              /\ Proceed(c, IF event = Doing(c).admin THEN "build" ELSE "send")
           \/ UNCHANGED log /\ Rest(c)
        /\ UNCHANGED <<kind, entity, calls, been, mails, crashed>>

\* The administrators' mail is built from the entity as it is after the claim.
Build(c) ==
    /\ callers[c].step = "build"
    /\ IF entity \in Doing(c).fresh
       THEN UNCHANGED log /\ Proceed(c, "send")
       ELSE log' = [log EXCEPT ![callers[c].event] = "skipped"] /\ Rest(c)
    /\ UNCHANGED <<kind, entity, calls, been, mails, crashed>>

\* A mail whose sending failed may have left all the same.
Send(c) ==
    /\ callers[c].step = "send"
    /\ \/ mails' = [mails EXCEPT ![callers[c].event] = @ + 1] /\ (Proceed(c, "sent") \/ Proceed(c, "failed"))
       \/ UNCHANGED mails /\ Proceed(c, "failed")
    /\ UNCHANGED <<kind, entity, log, calls, been, crashed>>

Record(c) ==
    /\ callers[c].step \in {"sent", "failed"}
    /\ log' = [log EXCEPT ![callers[c].event] = callers[c].step]
    /\ Rest(c)
    /\ UNCHANGED <<kind, entity, calls, been, mails, crashed>>

Crash(c) ==
    /\ callers[c] # Idle /\ ~crashed \* bound: one crash
    /\ Continue(c, Idle)
    /\ crashed' = TRUE
    /\ UNCHANGED <<kind, entity, log, calls, been, mails>>

Init ==
    /\ kind \in Kinds
    /\ entity \in First[kind]
    /\ been = {entity}
    /\ log = [e \in Events(kind) |-> "none"]
    /\ mails = [e \in Events(kind) |-> 0]
    /\ callers = [c \in Callers |-> Idle]
    /\ calls = 0
    /\ crashed = FALSE

Next == Advance \/ \E c \in Callers : Call(c) \/ Claim(c) \/ Build(c) \/ Send(c) \/ Record(c) \/ Crash(c)

Spec == Init /\ [][Next]_vars

-----------------------------------------------------------------------------
(* Properties                                                              *)

\* The variables hold what their rows may hold.
TypeOK ==
    /\ kind \in Kinds /\ entity \in States[kind] /\ been \subseteq States[kind]
    /\ log \in [Events(kind) -> LogStatus]
    /\ mails \in [Events(kind) -> Nat]
    /\ calls \in 0..MaxCalls /\ crashed \in BOOLEAN

\* No mail leaves twice, however many handlers report a milestone and wherever one stops
\* (notification.service.ts).
MailedOnce == \A e \in Events(kind) : mails[e] <= 1

\* The log says sent of a mail that left, and of one not claimed or skipped that it did not.
LogTruthful ==
    \A e \in Events(kind) :
        /\ log[e] = "sent" => mails[e] = 1
        /\ log[e] \in {"none", "skipped"} => mails[e] = 0

\* A claim is left without an outcome only by a caller that stopped.
ClaimSettled ==
    \A e \in Events(kind) :
        log[e] = "pending" => crashed \/ \E c \in Callers : callers[c] # Idle /\ callers[c].event = e

\* Nobody is told of a milestone the entity never reached.
MailsTrue ==
    \A e \in Events(kind) :
        mails[e] > 0 =>
            \E f \in DOMAIN Milestones[kind] :
                LET m == Milestones[kind][f]
                IN  /\ e \in {m.event, m.admin} /\ been \cap m.due # {}
                    /\ e = m.admin => been \cap m.fresh # {}

MailsSound == MailedOnce /\ LogTruthful /\ ClaimSettled /\ MailsTrue

=============================================================================
