\* A cash-on-delivery order, one admin request, one run of the job, with fairness.
CONSTANTS
    Orders = {o1}
    CodOrders = {o1}
    Replacements = {}
    Admins = {a1}
    Jobs = {j1}
    Actions = {"Cancellation", "Reattempt", "RTO"}
    AdminRefreshes = TRUE
SPECIFICATION FairSpec
INVARIANTS
    DeliverySettlesSource
PROPERTIES
    JourneyEndRecorded
CHECK_DEADLOCK FALSE
