SPECIFICATION FairSpec
CONSTANTS
    doumid = doumid
    second = second
    watcher = watcher
    watcher2 = watcher2
    scan = scan
    client = client
    Free = free
    Daemons = {doumid}
    Watchers = {watcher}
    Scanners = {scan}
    Clients = {client}
    Home <- OneHome
    max_entries = 1
    Limit = 2
    MaxActs = 1
    MaxBatch = 2
    MaxResults = 3
    MaxTime = 1
    MaySlip = FALSE
    MayFail = TRUE
    MayCrash = TRUE
CHECK_DEADLOCK FALSE
INVARIANTS
    TypeOK
    ReadsWhole
PROPERTIES
    IsAtomicLog
    ResultsGetLogged
