SPECIFICATION Spec
CONSTANTS
    Worker = {w1, w2}
    Bounds <- MCBounds
    Values = {1, 2}
    MaxChecks = 3
    BeatInterval = 2
    CallTimeout = 2
    WatchInterval = 1
    TTL = 8
    ExitDelay = 1
    Jumps <- MCJumps
    MaxJumps = 1
    MaxStale = 1
    Horizon = 14
INVARIANTS TypeOK QuietIsWedged WedgeEndsProcess FarewellIsLast ScrapeInOrder NothingIsLost
SYMMETRY Symmetry
CHECK_DEADLOCK FALSE
