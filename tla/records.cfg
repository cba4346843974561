SPECIFICATION MCSpec
CONSTANTS
    s1 = s1  s2 = s2  k1 = k1  run1 = run1  run2 = run2
    f1 = f1  f2 = f2  f3 = f3  None = None  NoKey = NoKey  Never = Never
    Sessions = {s1, s2}
    Callers = {s1, s2}
    Runs = {run1, run2}
    Submissions <- Feedbacks
    MaxTime = 1
    ThreadKeys = {k1}
    Names <- Space
    PageSize = 1
    FetchSize = 2
    MaxClock = 1
    MaxWrites = 3
    MaxTurns = 3
CONSTRAINT OnePart
SYMMETRY Symmetry
INVARIANTS
    OneThreadPerKey
    ReadsHoldTogether
    FeedbackConsistent
PROPERTIES
    RenewedStays
CHECK_DEADLOCK FALSE
