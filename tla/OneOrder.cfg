\* One order that holds a coupon, three payment attempts over both providers and cash.
CONSTANTS
    c1 = c1
    c2 = c2
    OrderIds = {1}
    PaymentIds = {1, 2, 3}
    RefundIds = {1}
    Shoppers = {c1}
    Guests = {}
    Skus = {food}
    Baskets <- OneBasket
    InitialStock <- OneEach
    LegacyOrders <- LegacyFirst
    BreezeConfigured = TRUE
SPECIFICATION Spec
INVARIANTS
    CodExcludesOnline
    NoDoubleChargePerProvider
    RefundLedger
    CouponSettled
    CapturedMoneyAccounted
    CancellationSticks
PROPERTIES
    KeepsPromise
CHECK_DEADLOCK FALSE
