SPECIFICATION FairSpec
CONSTANTS
    Capacity = 4
    MaxFlaps = 5
PROPERTIES LeaderWorks
