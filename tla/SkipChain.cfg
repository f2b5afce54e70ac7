SPECIFICATION Spec
CONSTANTS
    d1 = d1
    d2 = d2
    d3 = d3
    d4 = d4
    watcher = watcher
    scanner = scanner
    cli = cli
    Absent = {gap}
    Data = {d1, d2, d3, d4}
    Names <- FewNames
    Dirs <- FlatDirs
    Device <- MCDevice
    Suffixed <- MCSuffixed
    Rules <- SkipRules
    Workers = {watcher}
    Watcher = watcher
    DryWorkers = {}
    Scans = {}
    MaxScans = 0
    Inbox <- InA
    MovedIn = {}
    Taken = {}
    MayFail = {}
    InitFs <- SkipInitFs
    InitDirs <- SkipInitDirs
CHECK_DEADLOCK FALSE
INVARIANTS
    ChainKeepsToItsFile
