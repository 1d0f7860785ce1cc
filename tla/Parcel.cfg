\* The parcel of a replacement, two concurrent admin requests, one run of the job.
CONSTANTS
    Orders = {}
    CodOrders = {}
    Replacements = {r1}
    Admins = {a1, a2}
    Jobs = {j1}
    Actions = {"Cancellation", "Reattempt", "RTO"}
    AdminRefreshes = TRUE
SPECIFICATION Spec
INVARIANTS
    TypeOK
    NoDoubleBooking
    RowTruthful
PROPERTIES
    TerminalLostOnlyToSilence
SYMMETRY AdminSymmetry
CHECK_DEADLOCK FALSE
