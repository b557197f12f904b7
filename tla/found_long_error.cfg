SPECIFICATION FairSpec
CONSTANTS
    Users = {u1}
    Leavers = {u1}
    Workers = {w1}
    Admins = {a1}
    Errors = {"short", "long"}
    MaxAttempts = 2
    MaxMails = 2
    MaxFailures = 0
    NULL = NULL
CHECK_DEADLOCK FALSE
PROPERTIES EverySettles
