SPECIFICATION OrdersSpec
CONSTANTS
    LineIds = {l1}
    Requests = {r1, r2}
INVARIANTS BookedOnce
CHECK_DEADLOCK FALSE
