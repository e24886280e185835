SPECIFICATION FairSpec
CONSTANTS
    Requests = {r1}
    Slots = {s1, s2}
INVARIANTS
    NobodyMeetsNil
    NilOnlyWithoutStart
    TargetsOutliveAttempts
    ReposOutliveHandlers
    NothingLeftOpen
PROPERTIES
    InterruptEnds
CHECK_DEADLOCK FALSE
