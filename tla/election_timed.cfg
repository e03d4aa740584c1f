SPECIFICATION FairFSpec
CONSTANTS
    Poller = {p1, p2}
    None = None
    LeaseTTL = 6
    RenewInterval = 2
    AcquireInterval = 1
    Timeout = 1
    MaxTerm = 9
    MaxDisruptions = 2
INVARIANTS TypeOK FailoverInTime
PROPERTIES SomeoneLeads
