SPECIFICATION MCSpec
CONSTANTS
    MaxTurns = 2
    MaxMade = 2
    MaxPieces = 2
    MaxBlocks = 2
    MaxWire = 7
    MaxEvent = 4
    MaxTotal = 6
    CallIds = {"a", "b"}
    ToolNames = {"x", "y"}
    MaxMessages = 5
INVARIANTS
    StreamAsInvoked
    OnlyNew
    StreamAsGenerated
    NoUnfinishedResult
    DecodedAsSent
    RequestsWhole
CHECK_DEADLOCK FALSE
