SPECIFICATION Spec
CONSTANTS
    Priorities <- MCPriorities
    Given = {"", "plain"}
    MaxTries = 2
INVARIANTS
    FlagsHold
CHECK_DEADLOCK FALSE
