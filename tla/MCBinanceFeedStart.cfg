CONSTANTS
    btc = btc
    eth = eth
    SubscribedSymbols <- OneSymbol
    MaxSnapshotRetries = 2
    BufferCap = 2
    MaxBatch = 2
    RestLag = 1
    MaxId = 4
    MaxLosses = 1
    MaxMalformed = 1
    MaxReconnects = 1
    MaxHttpErrors = 3
    MaxStarts = 2
SPECIFICATION FairSpec
CHECK_DEADLOCK FALSE
INVARIANTS
    TypeOK
    NothingHeldBack
    InSync
    NeverOrphaned
PROPERTIES
    NoLiveUpdateDuringCleanReplay
    StartEnds
