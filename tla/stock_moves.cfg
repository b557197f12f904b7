SPECIFICATION Spec
CONSTANTS
    Items = {i1}
    Stores = {s1, s2}
    Receipts = {rc1}
    Issues = {is1, is2}
    Returns = {}
    Transfers = {t1}
    Adjustments = {ad1}
    Counts = {}
    Requests = {rq1}
    Reservations = {rv1}
    ApprovalItems = {}
    Purposes = {"QUARANTINE", "RELEASE_FROM_QUARANTINE"}
    Archivable = {i1, s2}
    Toggled = {}
    MaxQty = 3
    MaxOverlap = 1
    NULL = NULL
SYMMETRY Alike
CONSTRAINT MovesScene
CHECK_DEADLOCK FALSE
INVARIANTS MovesBalance 
