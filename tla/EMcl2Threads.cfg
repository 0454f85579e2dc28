SPECIFICATION Spec
CONSTANTS
    MaxScan = 2
    MaxRequest = 2
    QueueSize = 1
INVARIANTS TypeOK AliveWhileUsed NothingLeft HarmOnlyByOverlap
PROPERTY CallbacksEnd
CHECK_DEADLOCK FALSE
