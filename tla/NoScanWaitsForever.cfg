SPECIFICATION Spec
CONSTANTS
    MaxScan = 2
    MaxRequest = 2
    QueueSize = 1
PROPERTY NoScanWaitsForever
CHECK_DEADLOCK FALSE
