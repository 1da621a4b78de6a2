SPECIFICATION Spec
CONSTANTS
    Replicas = {r1, r2}
    Dirs = {TRUE}
    Versions = {1, 2}
    Snapshot <- MCSnapshot
    TextBatches <- MCTextBatches
    Icons = {i1}
    Queries <- MCQueries
    MaxStarts = 3
    DefaultSize = 2
    MaxSize = 2
    MaxPage = 4
INVARIANTS
    InstallWhole
    WalkWhole
    SidebarCounts
SYMMETRY MCSymmetry
CHECK_DEADLOCK FALSE
