\* A customer and a guest order, cancel, order again and compete for the last unit.
CONSTANTS
    c1 = c1
    c2 = c2
    OrderIds = {1, 2}
    PaymentIds = {1, 2}
    RefundIds = {1}
    Shoppers = {c1, c2}
    Guests = {c2}
    Skus = {food}
    Baskets <- OneBasket
    InitialStock <- OneEach
    LegacyOrders <- NoLegacy
    BreezeConfigured = FALSE
SPECIFICATION Spec
INVARIANTS
    TypeOK
    FulfilmentBacked
    StockAccounted
    CartSpent
CHECK_DEADLOCK FALSE
