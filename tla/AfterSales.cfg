CONSTANTS
    Returns = {1, 2, 3}
    Awbs = {1, 2}
    Refunds = {1, 2, 3}
    Cases <- Situations
    MaxStock = 1
SPECIFICATION Spec
INVARIANTS
    UnitsSettledOnce
    RefundsWithinCapture
    CancellationConfirmed
    CancelledReturnHasNoPickup
    
CHECK_DEADLOCK FALSE
