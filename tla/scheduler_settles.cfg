SPECIFICATION SchedulerSpec
CONSTANTS
    Users = {u1}
    Leavers = {u1}
    Workers = {w1, w2}
    Admins = {a1}
    Errors = {"short"}
    MaxAttempts = 2
    MaxMails = 2
    MaxFailures = 1
    NULL = NULL
    Schedulers = {s1, s2}
    Editors = {e1}
    NoOne = NoOne
    Recipients = {u1}
    Alerts = {d1}
    Frequencies = {2}
    MaxTime = 3
    MaxEdits = 1
    MaxCrashes = 1
    Docs = {d2, d3}
    Requests = {r1, r2}
    Indexers = {x1}
    MaxFiles = 3
    MaxReindex = 1
    MaxDeaths = 1
CHECK_DEADLOCK FALSE
INVARIANTS AlertsTypeOK IntervalsApart LibraryTypeOK NamedFilesExist
PROPERTIES EverySettles RunsWhenDue EveryIndexed
