\* Two people have the link; handlers race, die, and messages are lost.
SPECIFICATION FairSpec
CONSTANTS
    People = {p1, p2}
    Nobody = Nobody
    Slots = {h1, h2}
    MaxExtends = 1
    MaxMishaps = 1
INVARIANTS TypeOK NobodyLeftWaiting RightsEnd SocketsEnd
PROPERTIES ImplementsInterviewLife OverdueEnds
CHECK_DEADLOCK FALSE
