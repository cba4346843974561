SPECIFICATION MCSpec
CONSTANTS
    CallIds = {"a", "b"}
    Threaded = {"b"}
    MaxCalls = 2
    MaxIterations = 3
    MaxDeltas = 2
INVARIANTS
    ExchangesWhole
    EffectsAccounted
    StreamAgrees
PROPERTIES
    RunsTheNativeLoop
CHECK_DEADLOCK FALSE
