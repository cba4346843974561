SPECIFICATION Spec
CONSTANTS
    CallIds = {"a", "b"}
    ToolNames = {"x", "y"}
    MaxMessages = 5
INVARIANT ResultsReachTheirCalls
CHECK_DEADLOCK FALSE
