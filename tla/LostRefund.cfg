\* The call to PayU's refund API fails.
CONSTANTS
    c1 = c1
    c2 = c2
    OrderIds = {1}
    PaymentIds = {1}
    RefundIds = {1}
    Shoppers = {c1}
    Guests = {}
    Skus = {food}
    Baskets <- OneBasket
    InitialStock <- OneEach
    LegacyOrders <- NoLegacy
    BreezeConfigured = FALSE
SPECIFICATION FairSpec
PROPERTIES
    PendingRefundReconciled
CHECK_DEADLOCK FALSE
