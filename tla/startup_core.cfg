SPECIFICATION FairSpec
CONSTANTS
    GATEWAY_MAX = 3
    Line <- MCLine
    MAX_LINES = 3
    Text <- MCText
    cut_name <- MCCutName
    cut_host <- MCCutHost
    ONE = 2
    default_name <- MCDefaultName
    NaN = NaN
    Options <- MCOptions
    None = None
INVARIANTS
    TypeOK
    LoadFollowsFile
    ConfigUsable
    ErrorsReported
    RunsWhereAsked
PROPERTIES
    StartupEnds
