SPECIFICATION Spec
CONSTANTS
    doumid = doumid
    second = second
    watcher = watcher
    watcher2 = watcher2
    scan = scan
    client = client
    Free = free
    Daemons = {doumid, second}
    Watchers = {watcher, watcher2}
    Scanners = {}
    Clients = {}
    Home <- TwoHomes
    max_entries = 1
    Limit = 2
    MaxActs = 2
    MaxBatch = 2
    MaxResults = 3
    MaxTime = 1
    MaySlip = TRUE
    MayFail = TRUE
    MayCrash = TRUE
CHECK_DEADLOCK FALSE
INVARIANTS
    ActionsHaveEvents
    PrefixOfResult
    Bounded
