\* One file between the room and the sandbox.
SPECIFICATION FairSpec
CONSTANTS
    RoomTexts = {t1}
    RoomBlobs = {b1}
    ProgramTexts = {t2}
    ProgramBlobs = {b1}
    Absent = Absent
    MaxEdits = 2
    MaxWrites = 1
    MaxFailures = 1
INVARIANTS TypeOK QuietIsEqual
PROPERTY Settles
CHECK_DEADLOCK FALSE
