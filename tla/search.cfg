SPECIFICATION SearchSpec
CONSTANTS
    k1 = k1
    k2 = k2
    k3 = k3
    old = old
    new = new
    Process = {sync}
    Indexer = {reindex}
    Keys = {k1, k2}
    Versions = {old, new}
    Part <- Halves
    Parts = 2
    BufLen = 1
    Outage = FALSE
    Initialize = TRUE
    MaxEdits = 1
    MaxRuns = 2
    MaxIndexRuns = 2
    None = None
    Absent = Absent
PROPERTIES Complete PrunesGone NoGap Synced
CHECK_DEADLOCK FALSE
