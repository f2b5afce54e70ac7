SPECIFICATION Spec
CONSTANTS
    archive = archive
    archive_old = archive_old
    archive_json = archive_json
    archive_old_json = archive_old_json
    copied_json = copied_json
    cli = cli
    t1 = t1
    t2 = t2
    Gui = gui
    Daemon = daemon
    NoId = none
    Files = {archive_json, archive_old_json, copied_json}
    Ids = {archive, archive_old}
    NameOf <- Named
    StartsWith <- Starts
    Prio <- Equal
    Copies = {copied_json}
    Clis = {cli}
    Threads = {t1, t2}
    InitFiles <- OneRule
    MayBreak = TRUE
    MaxOps = 3
SYMMETRY Alike
CHECK_DEADLOCK FALSE
INVARIANTS
    TypeOK
    ListsAreFresh
    NothingLost
