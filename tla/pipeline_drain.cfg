SPECIFICATION Spec
CONSTANTS
    Worker = {w1}
    Idle = Idle
    MaxChecks = 2
    MaxTerms = 1
    MaxFailures = 0
INVARIANTS DrainLosesNothing
