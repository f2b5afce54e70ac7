SPECIFICATION FairSpec
CONSTANTS
    d1 = d1
    d2 = d2
    d3 = d3
    d4 = d4
    watcher = watcher
    scanner = scanner
    cli = cli
    Absent = {gap}
    Data = {d1, d2, d3, d4}
    Names <- EngineNames
    Dirs <- EngineDirs
    Device <- MCDevice
    Suffixed <- MCSuffixed
    Rules <- EngineRules
    Workers = {watcher, cli}
    Watcher = watcher
    DryWorkers = {cli}
    Scans <- EngineScans
    MaxScans = 1
    Inbox <- EngineInbox
    MovedIn <- InB
    Taken <- InC
    MayFail = {"move","compress"}
    InitFs <- EngineInitFs
    InitDirs <- EngineInitDirs
CHECK_DEADLOCK FALSE
INVARIANTS
    TypeOK
    AppliedInOrder
    NoLoss
PROPERTIES
    DryRunTouchesNothing
    OnlyFoldersCarryProjects
    ScansEnd
    ComesToRest
    FeedsItself
    ArrivalsHandled
