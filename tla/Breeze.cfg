CONSTANTS
    b1 = b1  c1 = c1  r1 = r1  r2 = r2
    Sessions = {1, 2}
    Buyers = {b1}
    Carts = {c1}
    Events = {1, 2}
    Workers = {1, 2}
    Refs = {r1, r2}
    CartOf <- OneCart
    BuyerOf <- OneBuyer
    Payloads <- Scenarios
    MaxAttempts = 2
SPECIFICATION FairSpec
INVARIANTS
    OneOrderPerSession
    CaptureNotDropped
    CrossProviderExclusion
    OneSessionPerCart
PROPERTIES
    EventConcluded
CHECK_DEADLOCK FALSE
