SPECIFICATION Spec
CONSTANTS
    Items = {i1}
    Stores = {s1}
    Receipts = {rc1}
    Issues = {is1}
    Returns = {rt1}
    Transfers = {}
    Adjustments = {}
    Counts = {}
    Requests = {}
    Reservations = {}
    ApprovalItems = {}
    Purposes = {"OTHER"}
    Archivable = {}
    Toggled = {}
    MaxQty = 2
    MaxOverlap = 0
    NULL = NULL
SYMMETRY Alike
CHECK_DEADLOCK FALSE
INVARIANTS ComesBackOnce
