SPECIFICATION Spec
CONSTANTS
    Capacity = 4
    MaxFlaps = 5
INVARIANTS StoppedBeforeClose
