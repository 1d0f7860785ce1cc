------------------------------ MODULE AfterSales ------------------------------
(***************************************************************************)
(* Returns of a delivered, paid order: requests and their review, the      *)
(* reverse pickup booked with iThink, refunds at PayU, replacements from   *)
(* stock, and the cancellation that has to agree with all of them.         *)
(*                                                                         *)
(* Each action is one transaction, or one call to a provider; a booking    *)
(* and a cancellation are several, with anything in between.               *)
(***************************************************************************)
EXTENDS Naturals, FiniteSets, FiniteSetsExt

CONSTANTS
    Returns,      \* ids of return requests, numbered
    Awbs,         \* numbers iThink gives to reverse pickups, numbered
    Refunds,      \* ids of refunds, numbered
    Cases,        \* what a behaviour is about: the ids it uses, the line and its prices
    MaxStock

NoAwb == 0
Types == {"return", "replacement"}
Kinds == [returns: SUBSET Returns, awbs: SUBSET Awbs, refunds: SUBSET Refunds, types: SUBSET Types,
          quantity: Nat, unit_price: Nat, discount: Nat, online: Nat, stock: 0..MaxStock]

\* A line has units, and its discounts leave something that was paid for.
ASSUME CasesAssumption ==
    /\ Returns # {} /\ IsFiniteSet(Returns) /\ IsFiniteSet(Refunds)
    /\ NoAwb \notin Awbs /\ MaxStock \in Nat
    /\ Cases \subseteq Kinds
    /\ \A c \in Cases : c.quantity > 0 /\ c.discount + c.online < c.unit_price * c.quantity

VARIABLES
    line,       \* the order line and the ids in use, chosen once
    window,     \* the return window, counted from the delivery, is open
    returns,    \* return_requests
    pickups,    \* return_shipments, one row for a return
    courier,    \* where iThink has the reverse pickups
    booking,    \* requests that book a pickup, between two steps
    cancelling, \* cancellations between their two transactions: none, fresh, existing
    scan,       \* tracking answers read and not yet ingested
    sent,       \* history: the address each courier was sent to
    refunds,    \* refunds
    payment,    \* status of the order's payment
    replaced,   \* status of the replacement of a return
    stock,      \* units of the returned product on the shelf
    overtaken   \* history: returns cancelled while they had an active refund

vars == <<line, window, returns, pickups, courier, booking, cancelling, scan, sent, refunds, payment,
          replaced, stock, overtaken>>
courierVars == <<pickups, courier, booking, scan, sent>>
moneyVars == <<refunds, payment, replaced, stock>>

ReturnStatus == {"absent", "requested", "approved", "rejected", "resolved", "cancelled"}
ReturnRow == [status: ReturnStatus, type: Types, quantity: Nat, item_received: BOOLEAN, address: 0..1]

Marker == "Booking in progress"
Scans == {"booked", "missed", "picked", "delivered", "cancelled", "lost"}
ReturnShipmentStatus == {"absent", "pending", "approved", "pickup_scheduled", "picked_up", "delivered", "failed", "cancelled"}
PickupRow == [status: ReturnShipmentStatus, provider_status: Scans \cup {Marker, "accepted", "error"},
              awb: Awbs \cup {NoAwb}, intent: BOOLEAN, to: 0..1]
Terminal == {"delivered", "failed", "cancelled"}

RefundRow == [status: {"absent", "pending", "processing", "succeeded", "failed"}, of: Returns, amount: Nat]
ActiveRefund == {"pending", "processing", "succeeded"}
ReplacementStatus == {"none", "stock_unavailable", "processing", "completed"}

Steps == {"none", "asked", "fail", "book", "late", "mark"}

Init ==
    /\ line \in Cases
    /\ window = TRUE
    /\ returns = [r \in Returns |-> [status |-> "absent", type |-> "return", quantity |-> 0,
                                     item_received |-> FALSE, address |-> 0]]
    /\ pickups = [r \in Returns |-> [status |-> "absent", provider_status |-> Marker, awb |-> NoAwb,
                                     intent |-> FALSE, to |-> 0]]
    /\ courier = [a \in Awbs |-> "none"]
    /\ booking = [r \in Returns |-> [step |-> "none", awb |-> NoAwb]]
    /\ cancelling = [r \in Returns |-> "none"]
    /\ scan = [r \in Returns |-> "none"]
    /\ sent = [a \in Awbs |-> 0]
    /\ refunds = [f \in Refunds |-> [status |-> "absent", of |-> CHOOSE r \in Returns : TRUE, amount |-> 0]]
    /\ payment = "paid"
    /\ replaced = [r \in Returns |-> "none"]
    /\ stock = line.stock
    /\ overtaken = {}

-----------------------------------------------------------------------------
(* Requests and their review                                               *)

Quantity(r) == returns[r].quantity
QuantityHoldingOpen == {"requested", "approved"}  \* mutant: a resolved return gives its units back
QuantityHolding == {"requested", "approved", "resolved"}
Consumed == MapThenSumSet(Quantity, {r \in Returns : returns[r].status \in QuantityHolding})

\* resolveDeliveredAt falls back on the order's updated_at when no shipment says when it
\* was delivered: a save of the order opens the window again.  The window is of interest
\* only while a return may still be requested.
WindowCloses ==
    /\ window /\ \E r \in line.returns : returns[r].status = "absent"
    /\ window' = FALSE
    /\ UNCHANGED <<line, returns, cancelling, overtaken>> /\ UNCHANGED courierVars /\ UNCHANGED moneyVars

CreateReturn(r, type, quantity) ==
    /\ returns[r].status = "absent" /\ \A other \in line.returns : other < r => returns[other].status # "absent"
    /\ window
    /\ quantity + Consumed <= line.quantity
    /\ returns' = [returns EXCEPT ![r] = [@ EXCEPT !.status = "requested", !.type = type, !.quantity = quantity]]
    /\ UNCHANGED <<line, window, cancelling, overtaken>> /\ UNCHANGED courierVars /\ UNCHANGED moneyVars

\* consumeStock of ReplacementService, under the lock of the catalogue rows.
ConsumeStockUnchecked(r) ==  \* mutant: whatever is on the shelf
    /\ stock' = stock - returns[r].quantity
    /\ replaced' = [replaced EXCEPT ![r] = "processing"]
ConsumeStock(r) ==
    /\ returns[r].quantity <= stock
    /\ stock' = stock - returns[r].quantity
    /\ replaced' = [replaced EXCEPT ![r] = "processing"]

CreateForApprovedReturn(r) ==
    \/ ConsumeStock(r)
    \/ /\ returns[r].quantity > stock
       /\ replaced' = [replaced EXCEPT ![r] = "stock_unavailable"]
       /\ UNCHANGED stock

\* A replacement is approved once the item is back: the approval spends stock.
Approve(r) ==
    /\ returns[r].status = "requested"
    /\ returns' = [returns EXCEPT ![r].status = "approved"]
    /\ \/ returns[r].type = "return" /\ UNCHANGED <<replaced, stock>>
       \/ returns[r].type = "replacement" /\ returns[r].item_received /\ CreateForApprovedReturn(r)
    /\ UNCHANGED <<line, window, cancelling, refunds, payment, overtaken>> /\ UNCHANGED courierVars

Reject(r) ==
    /\ returns[r].status = "requested"
    /\ returns' = [returns EXCEPT ![r].status = "rejected"]
    /\ UNCHANGED <<line, window, cancelling, overtaken>> /\ UNCHANGED courierVars /\ UNCHANGED moneyVars

MarkItemReceived(r) ==
    /\ returns[r].status \in {"requested", "approved"} /\ ~returns[r].item_received
    /\ returns' = [returns EXCEPT ![r].item_received = TRUE]
    /\ UNCHANGED <<line, window, cancelling, overtaken>> /\ UNCHANGED courierVars /\ UNCHANGED moneyVars

AddressEditableAnyPickup(r) == returns[r].status = "approved"  \* mutant: whatever pickup is booked
AddressEditable(r) == returns[r].status = "approved" /\ pickups[r].status \in {"absent", "failed"}

UpdatePickupAddress(r) ==
    /\ AddressEditable(r)
    /\ returns' = [returns EXCEPT ![r].address = 1 - @]
    /\ UNCHANGED <<line, window, cancelling, overtaken>> /\ UNCHANGED courierVars /\ UNCHANGED moneyVars

-----------------------------------------------------------------------------
(* Booking a reverse pickup                                                *)

SavePickup(r, status, providerStatus) ==
    pickups' = [pickups EXCEPT ![r].status = status, ![r].provider_status = providerStatus]

MayBook(r) == returns[r].status = "approved" /\ pickups[r].status \in {"absent", "failed"}

\* The transaction that writes the marker; a failed row is used again, its AWB with it.
BookReverse(r) ==
    /\ booking[r].step = "none"
    /\ MayBook(r)
    /\ pickups' = [pickups EXCEPT ![r].status = "pending", ![r].provider_status = Marker, ![r].intent = FALSE,
                                  ![r].to = returns[r].address]
    /\ booking' = [booking EXCEPT ![r].step = "asked"]
    /\ UNCHANGED <<line, window, returns, courier, cancelling, scan, sent, overtaken>> /\ UNCHANGED moneyVars

\* iThink refuses, or accepts with or without an AWB, or its acceptance is never heard.
CreateReverseShipment(r) ==
    /\ booking[r].step = "asked"
    /\ \/ /\ booking' = [booking EXCEPT ![r].step = "fail"]
          /\ UNCHANGED <<courier, sent>>
       \/ /\ booking' = [booking EXCEPT ![r].step = "book"]
          /\ UNCHANGED <<courier, sent>>
       \/ \E a \in line.awbs :
             /\ courier[a] = "none" /\ \A other \in line.awbs : other < a => courier[other] # "none"
             /\ courier' = [courier EXCEPT ![a] = "booked"]
             /\ sent' = [sent EXCEPT ![a] = pickups[r].to]
             /\ booking' \in {[booking EXCEPT ![r].step = "fail"], [booking EXCEPT ![r] = [step |-> "book", awb |-> a]]}
    /\ UNCHANGED <<line, window, returns, pickups, cancelling, scan, overtaken>> /\ UNCHANGED moneyVars

Unbook(r) == [booking EXCEPT ![r] = [step |-> "none", awb |-> NoAwb]]

\* markFailure: an update by id, whatever the row has become meanwhile.
MarkFailure(r) ==
    /\ booking[r].step = "fail"
    /\ pickups' = [pickups EXCEPT ![r].status = "failed", ![r].provider_status = "error", ![r].intent = FALSE]
    /\ booking' = Unbook(r)
    /\ UNCHANGED <<line, window, returns, courier, cancelling, scan, sent, overtaken>> /\ UNCHANGED moneyVars

\* A return cancelled meanwhile: its AWB is quarantined, then cancelled at iThink.
BookedStatus(r) == IF returns[r].status = "cancelled" THEN "failed" ELSE "approved"

RecordBooking(r) ==
    LET a == booking[r].awb
        drop == pickups[r].awb # NoAwb
        late == ~drop /\ a # NoAwb /\ returns[r].status = "cancelled"
    IN /\ booking[r].step = "book"
       /\ pickups' = IF drop THEN pickups
                     ELSE [pickups EXCEPT ![r].awb = a,
                               ![r].status = IF a = NoAwb THEN "failed" ELSE BookedStatus(r),
                               ![r].provider_status = IF a = NoAwb \/ late THEN "error" ELSE "accepted"]
       /\ booking' = IF late THEN [booking EXCEPT ![r].step = "late"] ELSE Unbook(r)
       /\ UNCHANGED <<line, window, returns, courier, cancelling, scan, sent, overtaken>> /\ UNCHANGED moneyVars

\* iThink cancels what no courier has picked up; its answer may be lost either way.
Cancellable(a) == courier[a] \in {"booked", "missed"}
CancelledAt(a) == [courier EXCEPT ![a] = "cancelled"]

CancelLateBooking(r) ==
    LET a == booking[r].awb
    IN /\ booking[r].step = "late"
       /\ \/ /\ Cancellable(a)
             /\ courier' = CancelledAt(a)
             /\ booking' \in {[booking EXCEPT ![r].step = "mark"], [booking EXCEPT ![r].step = "fail"]}
          \/ /\ booking' = [booking EXCEPT ![r].step = "fail"]
             /\ UNCHANGED courier
       /\ UNCHANGED <<line, window, returns, pickups, cancelling, scan, sent, overtaken>> /\ UNCHANGED moneyVars

MarkLateCancelled(r) ==
    /\ booking[r].step = "mark"
    /\ SavePickup(r, "cancelled", "cancelled")
    /\ booking' = Unbook(r)
    /\ UNCHANGED <<line, window, returns, courier, cancelling, scan, sent, overtaken>> /\ UNCHANGED moneyVars

BookingDies(r) ==
    /\ booking[r].step # "none"
    /\ booking' = Unbook(r)
    /\ UNCHANGED <<line, window, returns, pickups, courier, cancelling, scan, sent, overtaken>> /\ UNCHANGED moneyVars

-----------------------------------------------------------------------------
(* Tracking                                                                *)

\* The courier misses the item or loses the parcel, and may still collect or deliver it.
Moves == [none |-> {}, booked |-> {"missed", "picked", "cancelled"}, missed |-> {"picked", "cancelled"},
          picked |-> {"lost", "delivered"}, lost |-> {"delivered"}, delivered |-> {}, cancelled |-> {}]

CourierMoves(a) ==
    /\ \E s \in Moves[courier[a]] : courier' = [courier EXCEPT ![a] = s]
    /\ UNCHANGED <<line, window, returns, pickups, booking, cancelling, scan, sent, overtaken>> /\ UNCHANGED moneyVars

\* The answer to a tracking call is as old as the call.
Track(r) ==
    /\ pickups[r].awb # NoAwb /\ scan[r] = "none"
    /\ scan' = [scan EXCEPT ![r] = courier[pickups[r].awb]]
    /\ UNCHANGED <<line, window, returns, pickups, courier, booking, cancelling, sent, overtaken>> /\ UNCHANGED moneyVars

\* The job tracks what is not terminal; staff refresh any row with an AWB.
SyncTracks(r) == pickups[r].status \notin Terminal /\ Track(r)
RefreshTracks(r) == Track(r)

Normalized == [booked |-> "pickup_scheduled", missed |-> "failed", picked |-> "picked_up", delivered |-> "delivered",
               cancelled |-> "cancelled", lost |-> "failed"]
Rank == [pending |-> 0, approved |-> 1, pickup_scheduled |-> 2, picked_up |-> 3, delivered |-> 5]

CanAdvanceTerminal(current, next) ==  \* mutant: a terminal row follows the courier
    current # next /\ (next \in {"failed", "cancelled"} \/ current \in Terminal \/ Rank[next] >= Rank[current])
CanAdvance(current, next) ==
    /\ current # next /\ current \notin Terminal
    /\ next \in {"failed", "cancelled"} \/ Rank[next] >= Rank[current]

Ingest(r) ==
    LET next == Normalized[scan[r]]
    IN /\ scan[r] # "none"
       /\ SavePickup(r, IF CanAdvance(pickups[r].status, next) THEN next ELSE pickups[r].status, scan[r])
       /\ scan' = [scan EXCEPT ![r] = "none"]
       /\ UNCHANGED <<line, window, returns, courier, booking, cancelling, sent, overtaken>> /\ UNCHANGED moneyVars

-----------------------------------------------------------------------------
(* Refunds and replacements                                                *)

Amount(f) == refunds[f].amount
ActiveRefunds(r) == {f \in Refunds : refunds[f].status \in ActiveRefund /\ refunds[f].of = r}
Succeeded == {f \in Refunds : refunds[f].status = "succeeded"}
Refunded == MapThenSumSet(Amount, Succeeded)
Captured == line.unit_price * line.quantity - line.discount - line.online

\* Each discount of the line is shared among its units, rounded down.
RefundAmount(r) ==
    LET share(discount) == (discount * returns[r].quantity) \div line.quantity
    IN line.unit_price * returns[r].quantity - share(line.discount) - share(line.online)

MayRefundAgain(r) == returns[r].status = "approved" /\ returns[r].item_received  \* mutant: while another refund is active
MayRefund(r) == returns[r].status = "approved" /\ returns[r].item_received /\ ActiveRefunds(r) = {}

InitiateRefund(r, f) ==
    /\ refunds[f].status = "absent" /\ \A other \in line.refunds : other < f => refunds[other].status # "absent"
    /\ returns[r].type = "return" /\ MayRefund(r)
    /\ payment \in {"paid", "partially_refunded"}
    /\ RefundAmount(r) + Refunded <= Captured
    /\ refunds' = [refunds EXCEPT ![f] = [status |-> "pending", of |-> r, amount |-> RefundAmount(r)]]
    /\ UNCHANGED <<line, window, returns, cancelling, payment, replaced, stock, overtaken>>
    /\ UNCHANGED courierVars

RefundQueued(f) ==
    /\ refunds[f].status = "pending"
    /\ refunds' = [refunds EXCEPT ![f].status = "processing"]
    /\ UNCHANGED <<line, window, returns, cancelling, payment, replaced, stock, overtaken>>
    /\ UNCHANGED courierVars

RefundFails(f) ==
    /\ refunds[f].status \in {"pending", "processing"}
    /\ refunds' = [refunds EXCEPT ![f].status = "failed"]
    /\ UNCHANGED <<line, window, returns, cancelling, payment, replaced, stock, overtaken>>
    /\ UNCHANGED courierVars

\* The refund, the payment's roll-up, the order and the return in one transaction; the
\* save of the order opens the return window where no shipment dates the delivery.
FullyRefundedByOne(f) == refunds[f].amount >= Captured  \* mutant: earlier refunds are not added up
FullyRefunded(f) == Refunded + refunds[f].amount >= Captured

RefundSucceeds(f) ==
    LET r == refunds[f].of
    IN /\ refunds[f].status \in {"pending", "processing"}
       /\ refunds' = [refunds EXCEPT ![f].status = "succeeded"]
       /\ payment' = IF FullyRefunded(f) THEN "refunded" ELSE "partially_refunded"
       /\ window' \in {window, TRUE}
       /\ returns' = [returns EXCEPT ![r].status = IF @ = "approved" THEN "resolved" ELSE @]
       /\ UNCHANGED <<line, cancelling, replaced, stock, overtaken>> /\ UNCHANGED courierVars

\* An administrator finds stock for a replacement that had none.
UpdateReplacement(r) ==
    /\ replaced[r] = "stock_unavailable"
    /\ ConsumeStock(r)
    /\ UNCHANGED <<line, window, returns, cancelling, refunds, payment, overtaken>> /\ UNCHANGED courierVars

ReplacementDelivered(r) ==
    /\ replaced[r] = "processing"
    /\ replaced' = [replaced EXCEPT ![r] = "completed"]
    /\ returns' = [returns EXCEPT ![r].status = IF @ = "approved" THEN "resolved" ELSE @]
    /\ UNCHANGED <<line, window, cancelling, refunds, payment, stock, overtaken>> /\ UNCHANGED courierVars

Restock ==
    /\ stock < MaxStock
    /\ stock' = stock + 1
    /\ UNCHANGED <<line, window, returns, cancelling, refunds, payment, replaced, overtaken>> /\ UNCHANGED courierVars

-----------------------------------------------------------------------------
(* Cancelling a return                                                     *)

\* getReturnCancellationBlockReason; a marker blocks until it is stale, and then does not.
NotBlocked(r) ==
    /\ returns[r].status \in {"requested", "approved"} /\ ActiveRefunds(r) = {} /\ replaced[r] = "none"
    /\ \/ pickups[r].status \in {"absent", "cancelled"} \/ pickups[r].awb = NoAwb
       \/ pickups[r].provider_status \in {"accepted", "booked", "cancelled"}

SetCancelled(r) == returns' = [returns EXCEPT ![r].status = "cancelled"]

\* No row, no AWB, or a pickup the courier has cancelled: the return is cancelled here.
\* A stranded marker becomes a failed row.
CancelLocally(r) ==
    LET p == pickups[r]
    IN /\ NotBlocked(r)
       /\ \/ p.status = "absent" /\ UNCHANGED pickups
          \/ p.status = "pending" /\ p.awb = NoAwb /\ SavePickup(r, "failed", "error")
          \/ p.status = "cancelled" /\ UNCHANGED pickups
          \/ p.provider_status = "cancelled" /\ SavePickup(r, "cancelled", "cancelled")
          \/ p.status = "failed" /\ p.awb = NoAwb /\ UNCHANGED pickups
       /\ SetCancelled(r)
       /\ UNCHANGED <<line, window, courier, booking, cancelling, scan, sent, overtaken>> /\ UNCHANGED moneyVars

\* An AWB iThink has to cancel: the intent is committed before iThink is asked.
RecordIntent(r) ==
    LET p == pickups[r]
    IN /\ cancelling[r] = "none"
       /\ NotBlocked(r)
       /\ p.status \notin {"absent", "cancelled"} /\ p.awb # NoAwb /\ p.provider_status # "cancelled"
       /\ cancelling' = [cancelling EXCEPT ![r] = IF p.intent THEN "existing" ELSE "fresh"]
       /\ pickups' = [pickups EXCEPT ![r].intent = TRUE]
       /\ UNCHANGED <<line, window, returns, courier, booking, scan, sent, overtaken>> /\ UNCHANGED moneyVars

EndCancelling(r) == cancelling' = [cancelling EXCEPT ![r] = "none"]

\* The second transaction holds the return and the pickup, and asks iThink meanwhile.
\* It looks at nothing else again.
Confirmed(r) ==
    /\ SavePickup(r, "cancelled", "cancelled")
    /\ SetCancelled(r)
    /\ overtaken' = overtaken \cup (IF ActiveRefunds(r) = {} THEN {} ELSE {r})

CancelAtProvider(r) ==
    LET a == pickups[r].awb
    IN /\ cancelling[r] = "fresh" /\ returns[r].status # "cancelled"
       /\ Cancellable(a) /\ courier' = CancelledAt(a)
       /\ Confirmed(r)
       /\ EndCancelling(r)
       /\ UNCHANGED <<line, window, booking, scan, sent>> /\ UNCHANGED moneyVars

\* With an intent from an earlier attempt iThink is asked first where the parcel is, and
\* a parcel it says is cancelled, or that it cancels now, is taken as cancelled.
ReconcileUntracked(r) == TRUE  \* mutant: an intent is taken for its confirmation
Reconciled(r) == courier[pickups[r].awb] \in {"booked", "cancelled"}

ReconcileCancellation(r) ==
    LET a == pickups[r].awb
    IN /\ cancelling[r] = "existing" /\ returns[r].status # "cancelled"
       /\ Reconciled(r)
       /\ courier' = IF Cancellable(a) THEN CancelledAt(a) ELSE courier
       /\ Confirmed(r)
       /\ EndCancelling(r)
       /\ UNCHANGED <<line, window, booking, scan, sent>> /\ UNCHANGED moneyVars

\* Nothing to do any more, a refusal, an uncertain answer, or a crash after the answer:
\* the parcel may be cancelled, the rows do not say so.
CancellationEnds(r) ==
    /\ cancelling[r] # "none"
    /\ courier' \in {courier} \cup (IF Cancellable(pickups[r].awb) THEN {CancelledAt(pickups[r].awb)} ELSE {})
    /\ EndCancelling(r)
    /\ UNCHANGED <<line, window, returns, pickups, booking, scan, sent, overtaken>> /\ UNCHANGED moneyVars

-----------------------------------------------------------------------------
RequestSteps(r) ==
    \/ \E type \in line.types, quantity \in 1..line.quantity : CreateReturn(r, type, quantity)
    \/ Approve(r) \/ Reject(r) \/ MarkItemReceived(r) \/ UpdatePickupAddress(r)
    \/ UpdateReplacement(r) \/ ReplacementDelivered(r)
    \/ \E f \in line.refunds : InitiateRefund(r, f)

CourierSteps(r) ==
    \/ line.awbs # {} /\ BookReverse(r)
    \/ CreateReverseShipment(r) \/ MarkFailure(r) \/ RecordBooking(r)
    \/ CancelLateBooking(r) \/ MarkLateCancelled(r) \/ BookingDies(r)
    \/ SyncTracks(r) \/ RefreshTracks(r) \/ Ingest(r)

CancelSteps(r) ==
    \/ CancelLocally(r) \/ RecordIntent(r) \/ CancelAtProvider(r) \/ ReconcileCancellation(r) \/ CancellationEnds(r)

Next ==
    \/ WindowCloses \/ Restock
    \/ \E r \in line.returns : RequestSteps(r) \/ CourierSteps(r) \/ CancelSteps(r)
    \/ \E a \in line.awbs : CourierMoves(a)
    \/ \E f \in line.refunds : RefundQueued(f) \/ RefundFails(f) \/ RefundSucceeds(f)

Spec == Init /\ [][Next]_vars

-----------------------------------------------------------------------------
(* Properties                                                              *)

TypeOK ==
    /\ line \in Cases /\ window \in BOOLEAN
    /\ returns \in [Returns -> ReturnRow]
    /\ pickups \in [Returns -> PickupRow]
    /\ courier \in [Awbs -> Scans \cup {"none"}]
    /\ booking \in [Returns -> [step: Steps, awb: Awbs \cup {NoAwb}]]
    /\ cancelling \in [Returns -> {"none", "fresh", "existing"}]
    /\ scan \in [Returns -> Scans \cup {"none"}]
    /\ sent \in [Awbs -> 0..1]
    /\ refunds \in [Refunds -> RefundRow]
    /\ payment \in {"paid", "partially_refunded", "refunded"}
    /\ replaced \in [Returns -> ReplacementStatus]
    /\ stock \in 0..MaxStock
    /\ overtaken \subseteq Returns

\* A unit is refunded or replaced once, over all the returns that were ever made of it,
\* unless a cancellation overtook a refund (see CancelledNotRefunded).
UnitsSettledOnce ==
    /\ TypeOK
    /\ overtaken = {} =>
         MapThenSumSet(Quantity, {r \in Returns : ActiveRefunds(r) # {} \/ replaced[r] \in {"processing", "completed"}})
             <= line.quantity

\* What is refunded stays within what was captured, up to one paisa that each of the two
\* shares of a discount loses to rounding in each refund, and the payment says so: it is
\* refunded exactly when the refunds that succeeded add up to it.
RefundsWithinCapture ==
    /\ overtaken = {} => Refunded <= Captured + 2 * Cardinality(Succeeded)
    /\ payment = (CASE Refunded >= Captured -> "refunded"
                    [] Refunded = 0 -> "paid"
                    [] OTHER -> "partially_refunded")

\* A pickup that the shop calls cancelled is cancelled at iThink.
CancellationConfirmed ==
    \A r \in Returns : pickups[r].status = "cancelled" /\ pickups[r].awb # NoAwb => courier[pickups[r].awb] = "cancelled"

\* A cancelled return has no pickup that the shop takes for live: one booked too late is
\* quarantined as failed, with its AWB, until iThink confirms that it is cancelled.
CancelledReturnHasNoPickup ==
    \A r \in Returns :
        returns[r].status = "cancelled" => pickups[r].status \in {"absent", "failed", "cancelled"}

\* While a pickup is being booked, is booked or is scheduled, it has the address of its
\* return as it is now, and a courier who is still to collect the item and whose number
\* the shop holds for that pickup was sent there.  No more than that: the address may be
\* edited once the row is failed, and a courier may be on the way all the same, to the old
\* address - one whose acceptance was never heard (return-shipment.service.ts:451-463),
\* whose number was dropped because the row has an older one (:399), or who missed the
\* item and tries again (:93-100).
Awaited(r, a) ==
    \/ pickups[r].status = "pending" /\ booking[r].awb = a
    \/ pickups[r].status \in {"approved", "pickup_scheduled"} /\ pickups[r].awb = a

PickupAtCurrentAddress ==
    \A r \in Returns :
        /\ pickups[r].status \in {"pending", "approved", "pickup_scheduled"} => pickups[r].to = returns[r].address
        /\ \A a \in Awbs : Awaited(r, a) /\ courier[a] \in {"booked", "missed"} => sent[a] = returns[r].address

\* A return with a refund pending, processing or completed is not cancelled (the code
\* does not keep this: the second transaction of a cancellation does not look again).
CancelledNotRefunded == \A r \in Returns : returns[r].status = "cancelled" => ActiveRefunds(r) = {}
=============================================================================
