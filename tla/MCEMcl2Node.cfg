SPECIFICATION Spec
CONSTANTS
    room = room
    NumParticles = 2
    Eps = 2
    Readings <- MCReadings
    NoOdom = NoOdom
    NoMap = NoMap
    NoPf = NoPf
    hall = hall
    Maps <- MCMaps
    FreeCells <- MCFreeCells
    AskedAt = {0}
    MaxRequest = 3
INVARIANTS TypeOK NoNullUse FlagsAgree QuietUnlessActive MotionIsTracked
PROPERTIES SurvivorsOnlyIfCramped KeepsRequests
CHECK_DEADLOCK FALSE
