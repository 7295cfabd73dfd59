\* Two collab instances whose stores overlap, two edits and a refused insert.
SPECIFICATION Spec
CONSTANTS
    Instances = {i1, i2}
    Edits = {e1, e2}
    NoOne = NoOne
    StoreLockHolds = FALSE
    Deletes = FALSE
    LateLoads = FALSE
    MaxSeq = 3
    MaxCrashes = 0
    MaxFailures = 1
SYMMETRY Symmetry
INVARIANTS
    SeededOnce
    NothingSlipsAway
PROPERTIES
    SnapshotNeverGoesBack
    ImplementsDurableDoc
CHECK_DEADLOCK FALSE
