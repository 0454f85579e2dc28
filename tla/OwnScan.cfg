SPECIFICATION Safe
CONSTANTS
    MaxScan = 2
    MaxRequest = 2
    QueueSize = 1
INVARIANT OwnScan
CHECK_DEADLOCK FALSE
