SPECIFICATION Spec
CONSTANTS
    Maps <- MCMaps
    Resolution = 4
    NumBeams = 4
    Ranges = {NaN, 10, 14}
    NaN = NaN
    RangeMin = 1
    RangeMax = 16
    Increments = {1, 2}
    Thresholds = {0, 1, 2}
    SensorReset = TRUE
    Poses <- MCPoses
    LidarX = 4
    LidarYaw = 1
    Unread = Unread
INVARIANTS TypeOK FieldIsOfNearestWall ScatterIsFree PenetrationIsCrossing
PROPERTIES ConflictIsARun PerfectFitIsKept DragImproves
CHECK_DEADLOCK FALSE
