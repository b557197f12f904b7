SPECIFICATION Spec
CONSTANTS
    Users = {u1}
    Leavers = {u1}
    Workers = {w1, w2}
    Admins = {a1}
    Errors = {"short", "long"}
    MaxAttempts = 2
    MaxMails = 3
    MaxFailures = 1
    NULL = NULL
SYMMETRY AlikeWorkers
CHECK_DEADLOCK FALSE
INVARIANTS TypeOK SentUnlessLost OneLiveLink 
PROPERTIES SettledForGood
