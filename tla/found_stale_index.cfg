SPECIFICATION LibrarySpec
CONSTANTS
    Docs = {d1}
    Requests = {r1}
    Indexers = {x1}
    MaxFiles = 3
    MaxReindex = 0
    MaxDeaths = 0
INVARIANTS IndexMatchesFile
CHECK_DEADLOCK FALSE
