SPECIFICATION LiveSpec
CONSTANTS
    QueueSize = 2
    Deltas = 3
PROPERTIES
    ReaderAlwaysServed
CHECK_DEADLOCK FALSE
