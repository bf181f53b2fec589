SPECIFICATION FairSpec
CONSTANTS
    GATEWAY_COUNT = 2
    reconnect_initial_sec = 1
    reconnect_max_sec = 3
INVARIANTS
    TypeOK
    ResourcesOutliveThreads
    ThreadsEndOnlyOnStop
    SuccessMeansAllRan
PROPERTIES
    StopEndsProcess
    LostGatewayRetried
