SPECIFICATION MCSpec
CONSTANTS
    s1 = s1  s2 = s2  k1 = k1  run1 = run1  run2 = run2
    f1 = f1  f2 = f2  f3 = f3  None = None  NoKey = NoKey  Never = Never
    Sessions = {s1, s2}
    Callers = {s1, s2}
    Runs = {run1, run2}
    Submissions <- Feedbacks
    MaxTime = 1
    ThreadKeys = {}
    Names = {}
    PageSize = 1
    FetchSize = 1
    MaxClock = 1
    MaxWrites = 0
    MaxTurns = 0
PROPERTIES
    RepeatableExport
CHECK_DEADLOCK FALSE
