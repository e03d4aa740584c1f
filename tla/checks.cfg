SPECIFICATION Spec
CONSTANTS
    tool1 = tool1
    tool2 = tool2
    tool3 = tool3
    Tool = {tool1, tool2, tool3}
    Referred = tool2
    Definitions <- MCDefinitions
    Configs <- MCConfigs
    MaxPages = 2
    MaxTools = 2
    Documents <- MCDocuments
    Name = {"d", "x", "y"}
    Domain = "d"
    Records <- MCRecords
    Query = {"ip@list"}
    Demands = {"", "quarantine"}
    LookupLimit = 2
    MaxBranch = 3
    MaxDepth = 2
    Conn = {c1, c2}
    MaxRacers = 2
    MaxRedirects = 2
    Timeout = 2
    MaxLag = 1
    Hours <- MCHours
    AlertDays <- MCAlertDays
    DefaultDays = 1
    Responses <- MCResponses
    Unset = Unset
INVARIANTS TypeOK PassMeansApproved NoFalseAlarm PassMeansSound CountIsExact VerdictIsDeserved TimingsFit ExpiryIsAhead RegistrarIsFirst
SYMMETRY Symmetry
CHECK_DEADLOCK FALSE
