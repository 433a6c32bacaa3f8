SPECIFICATION TkSpec
CONSTANTS
    Lanes = {l1, l2}
    NoLane = NoLane
    FORCED_REFRESH_FLOOR = 1
    MaxAge = 2
    REFRESH_MARGIN = 1
    Ttl = 3
    MaxVersion = 3
    MaxEpoch = 2
    MaxFailures = 1
    LastTick = 3
SYMMETRY Symmetry
CHECK_DEADLOCK FALSE
INVARIANTS RefusedForAReason ForcedSpaced RefusedTwiceForAReason HandedOutAlive
