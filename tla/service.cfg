SPECIFICATION ServiceSpec
CONSTANTS
    QueueSize = 2
    Deltas = 3
INVARIANTS
    WholeOrPartial
    ServiceAnswers
PROPERTIES
    StreamServed
    DisconnectCleansUp
CHECK_DEADLOCK FALSE
