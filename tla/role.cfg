SPECIFICATION FairSpec
CONSTANTS
    Capacity = 2
    MaxFlaps = 4
INVARIANTS TypeOK WorkFollowsRole OpenWhileUsed OneGeneration CloseIsRaced
PROPERTIES StepDownStops SignalEnds
