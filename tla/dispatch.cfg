SPECIFICATION TransportSpec
SYMMETRY Symmetry
CONSTANTS
    Monitor = {m1, m2, m3}
    Intervals = {0, 4}
    DefaultInterval = 3
    PollInterval = 8
    FetchTime = 1
    MaxConcurrency = 1
    MaxAge = 12
    Poller = {p1, p2}
    NoPoller = NoPoller
    Malformed = {2}
    MaxOffset = 4
    MaxStops = 1
    MaxFaults = 1
INVARIANTS TypeOK Punctual LossIsBounded DuplicatesAreBounded
PROPERTIES NeverTooOften
