SPECIFICATION Spec
SYMMETRY Symmetry
CONSTANTS
    Poller = {p1, p2}
    None = None
    LeaseTTL = 6
    RenewInterval = 2
    AcquireInterval = 1
    Timeout = 6
    MaxTerm = 3
    MaxDisruptions = 1
INVARIANTS StaleLeaderBound OverlapIsBounded FencingTerms
PROPERTIES ConflictIsExplained
