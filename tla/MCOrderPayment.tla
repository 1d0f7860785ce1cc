--------------------------- MODULE MCOrderPayment ---------------------------
(***************************************************************************)
(* Instances of OrderPayment for TLC, and the statement of a comment in    *)
(* the code that the code does not keep.                                   *)
(***************************************************************************)
EXTENDS StockBalance

CONSTANTS c1, c2

OneEach == [k \in Skus |-> 1]
OneBasket == {OneEach}
NoLegacy == [o \in {} |-> {}]
LegacyFirst == [o \in {1} |-> [shopper |-> c1, lines |-> OneEach]]

-----------------------------------------------------------------------------
(* A statement the code does not keep                                      *)

\* A refund whose call to PayU failed stays pending for later reconciliation.
PendingRefundReconciled ==
    \A r \in RefundIds : refunds[r].status = "pending" ~> refunds[r].status \in {"succeeded", "failed"}
=============================================================================
