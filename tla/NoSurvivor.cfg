SPECIFICATION Safe
CONSTANTS
    room = room
    NumParticles = 2
    Eps = 2
    Readings <- MCReadings
    NoOdom = NoOdom
    NoMap = NoMap
    NoPf = NoPf
    hall = hall
    Maps <- MCMaps
    FreeCells <- MCFreeCells
    AskedAt <- MCReadings
    MaxRequest = 3
INVARIANT NoSurvivor
CHECK_DEADLOCK FALSE
