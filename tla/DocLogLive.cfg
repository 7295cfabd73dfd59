\* A crash and a deleted room: the snapshot, and what reaches the log.
SPECIFICATION FairSpec
CONSTANTS
    Instances = {i1, i2}
    Edits = {e1}
    NoOne = NoOne
    StoreLockHolds = FALSE
    Deletes = TRUE
    LateLoads = FALSE
    MaxSeq = 3
    MaxCrashes = 1
    MaxFailures = 0
INVARIANTS
    TypeOK
    SnapshotFaithful
PROPERTY EditReachesLog
CHECK_DEADLOCK FALSE
