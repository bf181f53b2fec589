SPECIFICATION FairSpec
CONSTANTS
    Gateway = {g1, g2}
    Reading <- MCReading
    Bucket = {1}
    point_hash <- MCHash
    EPS = 1
    HEAP_MAX = 2
    log_unchanged = FALSE
    None = None
INVARIANTS
    TypeOK
    OneEntryPerPoint
    LogTellsStore
PROPERTIES
    ImplementsTable
    StoreIsReleased
