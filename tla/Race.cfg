SPECIFICATION Spec
CONSTANTS
    d1 = d1
    d2 = d2
    d3 = d3
    d4 = d4
    watcher = watcher
    scanner = scanner
    cli = cli
    Absent = {gap}
    Data = {d1, d4}
    Names <- FewNames
    Dirs <- FlatDirs
    Device <- MCDevice
    Suffixed <- MCSuffixed
    Rules <- RaceRules
    Workers = {watcher, scanner}
    Watcher = watcher
    DryWorkers = {}
    Scans <- RaceScans
    MaxScans = 1
    Inbox <- InA
    MovedIn = {}
    Taken = {}
    MayFail = {}
    InitFs <- RaceInitFs
    InitDirs <- RaceInitDirs
CHECK_DEADLOCK FALSE
PROPERTIES
    OnlyOverwriteReplaces
