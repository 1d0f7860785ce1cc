\* Liveness of captures and refunds.
CONSTANTS
    c1 = c1
    c2 = c2
    OrderIds = {1}
    PaymentIds = {1, 2}
    RefundIds = {1}
    Shoppers = {c1}
    Guests = {}
    Skus = {food}
    Baskets <- OneBasket
    InitialStock <- OneEach
    LegacyOrders <- LegacyFirst
    BreezeConfigured = TRUE
SPECIFICATION FairSpec
PROPERTIES
    CaptureRecorded
    QueuedRefundSettles
CHECK_DEADLOCK FALSE
