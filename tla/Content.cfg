SPECIFICATION Spec
CONSTANTS
    Priorities <- MCPriorities
    Given = {"", "marked"}
    MaxTries = 2
INVARIANTS
    SealedOnce
    FailsClosed
    TextsSurvive
CHECK_DEADLOCK FALSE
