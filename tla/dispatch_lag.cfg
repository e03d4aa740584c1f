SPECIFICATION Spec
SYMMETRY Symmetry
CONSTANTS
    Monitor = {m1, m2}
    Intervals = {0, 4}
    DefaultInterval = 3
    PollInterval = 7
    FetchTime = 1
    MaxConcurrency = 1
    MaxAge = 12
INVARIANTS LagIsOwn
