SPECIFICATION Spec
CONSTANTS
    watcher = watcher
    scan = scan
    job = job
    status = status
    logs = logs
    reload = reload
    reload2 = reload2
    downloads = downloads
    desktop = desktop
    Watcher = watcher
    Scans = {scan, job}
    Statuses = {status}
    Loggers = {logs}
    Reloaders = {reload, reload2}
    Threads = 2
    Capacity = 1
    Folders = {downloads}
    FoldersOf <- SameFolders
    MaxVersion = 2
    MaxWaiting = 1
SYMMETRY Alike
INVARIANTS
    TypeOK
    OneScan
    NoDeadlock
    SettledRulesForNewFiles
PROPERTY RulesStable
