SPECIFICATION Spec
CONSTANTS
    d1 = d1
    d2 = d2
    d3 = d3
    d4 = d4
    watcher = watcher
    scanner = scanner
    cli = cli
    Absent = {gap}
    Data = {d1, d2, d3, d4}
    Names <- SweepNames
    Dirs <- SweepDirs
    Device <- MCDevice
    Suffixed <- MCSuffixed
    Rules <- SweepRules
    Workers = {watcher}
    Watcher = watcher
    DryWorkers = {}
    Scans = {}
    MaxScans = 0
    Inbox <- SweepInbox
    MovedIn = {}
    Taken = {}
    MayFail = {}
    InitFs <- SweepInitFs
    InitDirs <- SweepInitDirs
CHECK_DEADLOCK FALSE
PROPERTIES
    ProjectsUntouched
