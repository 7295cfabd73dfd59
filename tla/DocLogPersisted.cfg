SPECIFICATION Spec
CONSTANTS
    Instances = {i1, i2}
    Edits = {e1, e2}
    NoOne = NoOne
    StoreLockHolds = TRUE
    Deletes = FALSE
    LateLoads = FALSE
    MaxSeq = 3
    MaxCrashes = 1
    MaxFailures = 0
INVARIANT PersistedIsKept
SYMMETRY Symmetry
CHECK_DEADLOCK FALSE
