SPECIFICATION RecordsSpec
CONSTANTS
    AssignmentIds = {a1, a2}
    Statuses = {"AVAILABLE", "DISPOSED"}
    MeterTypes = {"ENGINE_HOURS"}
    Instants = {1, 2}
    Readings = {0, 1}
    MaxRows = 4
    MaxWait = 0
    MayEdit = TRUE
    JobIds = {j1, j2, j3}
    NoJob = NoJob
    LineIds = {l1, l2}
    Requests = {r1, r2, r3}
SYMMETRY Rows
INVARIANTS RecordsTypeOK OneActive ArchivedIsIdle 
    JobsAreSound CostsAddUp
PROPERTIES HistoryIsFinal
CHECK_DEADLOCK FALSE
