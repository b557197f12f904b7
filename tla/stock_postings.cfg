SPECIFICATION Spec
CONSTANTS
    Items = {i1}
    Stores = {s1}
    Receipts = {rc1}
    Issues = {is1, is2}
    Returns = {rt1, rt2}
    Transfers = {}
    Adjustments = {ad1}
    Counts = {ct1, ct2}
    Requests = {}
    Reservations = {}
    ApprovalItems = {i1}
    Purposes = {"OTHER", "POSITIVE_ADJUSTMENT"}
    Archivable = {}
    Toggled = {i1}
    MaxQty = 2
    MaxOverlap = 0
    NULL = NULL
SYMMETRY Alike
CONSTRAINT OneScene
CHECK_DEADLOCK FALSE
INVARIANTS TypeOK  PostsOnce
PROPERTIES KeepsTheBook  PostedIsFinal
