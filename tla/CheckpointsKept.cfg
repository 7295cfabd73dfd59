\* Two instances take turns; a browser asks; the API names and deletes.
SPECIFICATION Spec
CONSTANTS
    Instances = {i1, i2}
    Asks = {a1}
    Inserts = {e1}
    Deletions = {}
    Keep = 1
    Ids = {1, 2, 3, 4, 5, 6, 7}
    NoRow = NoRow
    MaxLoads = 2
    MaxMishaps = 1
SYMMETRY Symmetry
INVARIANTS TypeOK UnseenIsDirty
PROPERTIES NamedIsKept AutomaticOnesAreSpaced AnswerHoldsInserts
CHECK_DEADLOCK FALSE
