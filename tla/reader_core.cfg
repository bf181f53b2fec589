SPECIFICATION LinkSpec
CONSTANTS
    START_BYTE = 104
    MIN_LEN = 4
    MAX_LEN = 253
    Messages <- MCMessages
    NaN = NaN
    None = None
    Hosts <- MCHosts
    MAX_ATTEMPTS = 2
    CONTROL = 4
    U_FRAME = 6
    abs_threshold <- MCAbsThreshold
    rate_threshold <- MCRateThreshold
    PRECISION = 32
    sent <- MCSent
INVARIANTS
    TypeOK
    FramesIntactUnlessLost
    OneSocket
    ReadsInside
    StoredAsSent
    LogFollows
    JumpsAreWarned
    ReachableConnected
PROPERTIES
    ArrivedIsHandled
    ConnectEnds
