\* Two replicas of a room's files, where people write a name with a capital.
SPECIFICATION Spec
CONSTANTS
    Replicas = {1, 2}
    Seeds <- MCSeeds
    NewNodes = {1, 4}
    Names <- MCNames
    Small <- MCSmall
    Blank = Blank
    a = a
    A = A
    Absent = Absent
    Bytes = {"bytes"}
    MaxChanges = 3
INVARIANTS TypeOK PathsAreDistinct OnlyRacingMovesHide EditsSurvive CreatedWhereAsked
CHECK_DEADLOCK FALSE
