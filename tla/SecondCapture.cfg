\* Two captures of one session under different references.
CONSTANTS
    b1 = b1  c1 = c1  r1 = r1  r2 = r2
    Sessions = {1}
    Buyers = {b1}
    Carts = {c1}
    Events = {1, 2}
    Workers = {1, 2}
    Refs = {r1, r2}
    CartOf <- OneCart
    BuyerOf <- OneBuyer
    Payloads <- TwoCaptures
    MaxAttempts = 1
SPECIFICATION Spec
INVARIANTS
    SecondCaptureSurfaced
CHECK_DEADLOCK FALSE
