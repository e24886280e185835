SPECIFICATION Spec
CONSTANTS
    Priorities <- MCPriorities
    Given = {"", "plain"}
    MaxTries = 2
INVARIANTS
    TagsHold
CHECK_DEADLOCK FALSE
