----------------------------- MODULE StockBalance -----------------------------
(***************************************************************************)
(* What was in stock when the shop opened against what is on the shelf and *)
(* what the orders of OrderPayment hold.                                   *)
(***************************************************************************)
EXTENDS OrderPayment, FiniteSetsExt

\* id_sequences.next_value is an INT UNSIGNED column: there are only so many ids.
ASSUME FiniteAssumption == IsFiniteSet(OrderIds)

Lines(k) == [o \in OrderIds |-> orders[o].lines[k]]
Units(k, S) == MapThenSumSet(LAMBDA o : Lines(k)[o], S)

Held == {o \in OrderIds : held[o]}

\* Cancelled with goods of which no parcel was collected: the units lie in the shop, but
\* no stock counts them.  updateStatus puts back the lines of paid orders only, and what a
\* confirmation for cash took stays taken, although the code says of a cancellation before
\* payment that no stock ever moved for the order (order.service.ts:1416).
Stranded ==
    {o \in Held : orders[o].status = "cancelled" /\ shipments[o] \in {"none", "booked"}}

\* The orders that have their goods: they are still to be sent, or the courier has them.
Holders == Held \ Stranded

\* Orders whose money was captured without goods and given back: cancelling one puts
\* units on the shelf that it never took.
Excepted ==
    {o \in OrderIds :
        /\ orders[o].commerce_exception # "none"
        /\ \E r \in RefundIds : refunds[r].status # "absent" /\ payments[refunds[r].payment].order = o}

Missing(k) == InitialStock[k] - (stock[k] + Units(k, Holders))

\* Of what there was, the shelf and the orders that have their goods account for all but the
\* units of stranded orders, and stranded is nothing but a cash order with its cash still
\* due that was cancelled before its parcel was collected: these units the code loses.  No
\* other cancellation loses one, nor do concurrent confirmations.  What is on the shelf too
\* much is at most what orders with an exception ordered and were refunded (updateStatus
\* puts back the lines of a paid order whether or not it took them).  The accounts are the
\* shop's: a paid order's units are back on its shelf once it is cancelled, even if the
\* courier has the parcel.
StockAccounted ==
    /\ \A k \in Skus :
            /\ Missing(k) <= Units(k, Stranded)
            /\ Units(k, Stranded) <= Missing(k) + Units(k, Excepted)
    /\ \A o \in Stranded : orders[o].payment_status = "pending" /\ HasCodPayment(o)
=============================================================================
