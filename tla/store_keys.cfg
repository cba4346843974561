SPECIFICATION LiveSpec
CONSTANTS
    r1 = r1  r2 = r2  r3 = r3  t1 = t1  t2 = t2  k1 = k1  h1 = h1  h2 = h2
    s1 = s1  s2 = s2  b1 = b1
    NoKey = NoKey  None = None
    Runs = {r1, r2, r3}
    Threads = {t1, t2}
    Keys = {k1}
    Hashes = {h1, h2}
    Requests <- KeyedRequests
    Sessions = {s1, s2}
    HostBatches = {}
    BatchLen = 1
    LeaseTimes = {1}
    SweepLimit = 2
    MaxClock = 1
ACTION_CONSTRAINT ClaimTraffic
INVARIANTS
    OneActivePerThread
    OneRunPerKey
    TurnsSerialized
    NoWaitCycle
PROPERTIES
    TransactionsEnd
