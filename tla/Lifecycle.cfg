SPECIFICATION FairSpec
CONSTANTS
    d1 = d1
    d2 = d2
    c1 = c1
    c2 = c2
    here = here
    there = there
    Daemons = {d1, d2}
    Clients = {c1, c2}
    Paths = {here, there}
    DefaultPath = here
    NoFile = nofile
    Unlucky = {d2}
    Unreadable = unreadable
    MaxOps = 3
CHECK_DEADLOCK FALSE
INVARIANTS
    TypeOK
    SettledIsReachable
PROPERTIES
    DryRunIsHeeded
    StopStops
    StaleFilesDoNotBlock
