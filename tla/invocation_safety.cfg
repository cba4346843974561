SPECIFICATION Spec
CONSTANTS
    i1 = i1  i2 = i2  i3 = i3  t1 = t1  t2 = t2  k1 = k1  h1 = h1  h2 = h2
    NoKey = NoKey
    Runs = {i1, i2}
    Threads = {t1, t2}
    Keys = {k1}
    Hashes = {h1, h2}
    HostBatches = {}
    Requests <- KeyedRequests
    Timeout = 1
    CleanupTimeout = 1
    LeaseSlack = 1
    LeaseTimes = {3}
    LoopLag = 2
    MaxClock = 4
ACTION_CONSTRAINT Serving
VIEW View
SYMMETRY Symmetry
INVARIANTS
    DurableAnswer
    OneExecution
    NoFalseFailure
    OrphansExplained
    TurnsExclusive
CHECK_DEADLOCK FALSE
