\* Nobody dies and nothing is lost.
SPECIFICATION Spec
CONSTANTS
    People = {p1, p2}
    Nobody = Nobody
    Slots = {h1, h2}
    MaxExtends = 0
    MaxMishaps = 0
INVARIANT EndingTakesRights
CHECK_DEADLOCK FALSE
