SPECIFICATION Spec
CONSTANTS
    Pi = 3
    Res = 2
    MergeRadius = 4
    EstimateLargestCluster = FALSE
    NumParticles = 3
    FreeCells = 3
    InitPoses <- MCInitPoses
    FreePoses <- MCFreePoses
    Scans <- MCScans
    Noises <- MCNoises
    Drags <- MCDrags
    Spread <- MCSpread
    Skip = 2
    Word = 5
    Threshold <- MCThreshold
    Grain = 2
    Negligible = 6
    SensorReset = TRUE
    EnableExpansionResetting = TRUE
    MaxTurns = 2
PROPERTY DensityFollowsBayes
CHECK_DEADLOCK FALSE
