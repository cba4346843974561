SPECIFICATION LiveSpec
CONSTANTS
    i1 = i1  i2 = i2  i3 = i3  t1 = t1  t2 = t2  k1 = k1  h1 = h1  h2 = h2
    NoKey = NoKey
    Runs = {i1, i2}
    Threads = {t1}
    Keys = {k1}
    Hashes = {h1}
    HostBatches = {}
    Requests <- OneRequest
    Timeout = 1
    CleanupTimeout = 1
    LeaseSlack = 1
    LeaseTimes = {3}
    LoopLag = 1
    MaxClock = 3
PROPERTIES
    ShutdownIsClean
    Answered
    Quiesces
CHECK_DEADLOCK FALSE
