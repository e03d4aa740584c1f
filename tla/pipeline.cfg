SPECIFICATION FairSpec
CONSTANTS
    Worker = {w1}
    Idle = Idle
    MaxChecks = 3
    MaxTerms = 2
    MaxFailures = 1
INVARIANTS TypeOK Conservation DuplicatesAreAmbiguous
PROPERTIES ImplementsDelivery ResultsGetOut SignalEnds
