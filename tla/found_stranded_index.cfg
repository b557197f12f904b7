SPECIFICATION LibrarySpec
CONSTANTS
    Docs = {d1}
    Requests = {r1}
    Indexers = {x1}
    MaxFiles = 3
    MaxReindex = 1
    MaxDeaths = 1
INVARIANTS CrashRollsBack
CHECK_DEADLOCK FALSE
