\* What must happen in the end; a room without databases, which decide nothing.
SPECIFICATION FairSpec
CONSTANTS
    Requests = {q1, q2}
    NoRun = NoRun
    Databases = "none"
    MaxSessions = 2
    MaxResets = 1
    MaxRestarts = 1
CHECK_DEADLOCK FALSE
PROPERTIES Answered IdleIsClosed
