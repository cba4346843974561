SPECIFICATION Spec
CONSTANTS
    r1 = r1  r2 = r2  r3 = r3  t1 = t1  t2 = t2  k1 = k1  h1 = h1  h2 = h2
    s1 = s1  s2 = s2  b1 = b1
    NoKey = NoKey  None = None
    Runs = {r1, r2}
    Threads = {t1}
    Keys = {k1}
    Hashes = {h1}
    Requests <- PlainRequests
    Sessions = {s1, s2}
    HostBatches = {b1}
    BatchLen = 2
    LeaseTimes = {1}
    SweepLimit = 1
    MaxClock = 2
SYMMETRY Symmetry
INVARIANTS
    SettledAgainstLease
    AtomicFinalization
    HistoryIsOrdered
PROPERTIES
    TerminalIsFinal
    ImplementsLedger
