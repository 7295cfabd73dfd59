\* Runs, terminals, restarts, the sweep and the databases of one room.
SPECIFICATION Spec
CONSTANTS
    Requests = {q1, q2}
    NoRun = NoRun
    Databases = "asleep"
    MaxSessions = 2
    MaxResets = 1
    MaxRestarts = 1
SYMMETRY Symmetry
INVARIANTS TypeOK OneRun SweptIsUnused 
CHECK_DEADLOCK FALSE
