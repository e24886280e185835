SPECIFICATION Spec
CONSTANTS
    Priorities <- MCPriorities
    Given = {"", "marked"}
    MaxTries = 2
INVARIANTS
    TemplatesAreText
CHECK_DEADLOCK FALSE
