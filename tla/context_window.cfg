SPECIFICATION MCSpec
CONSTANTS
    Messages <- Kinds
    MaxBytes = 10
    MaxMessages = 5
    Keys = {"k1", "k2"}
    ContextBytes = 17
    InputLimits = {15, 20, 25}
    RequestBytes = {2, 16}
    CallBytes = 2
    AnswerBytes = 2
    ReportBytes = {2, 4}
    MaxStarts = 4
INVARIANTS
    SelectAsPromised
    StreamsTheSame
    RetentionBounded
    ReviewedOnce
CHECK_DEADLOCK FALSE
