SPECIFICATION UsualFairSpec
CONSTANTS
    Requests = {r1}
    Slots = {s1}
PROPERTIES
    TerminationEnds
CHECK_DEADLOCK FALSE
