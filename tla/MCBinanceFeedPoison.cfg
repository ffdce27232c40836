CONSTANTS
    btc = btc
    eth = eth
    SubscribedSymbols <- OneSymbol
    MaxSnapshotRetries = 2
    BufferCap = 2
    MaxBatch = 1
    RestLag = 1
    MaxId = 4
    MaxLosses = 0
    MaxMalformed = 1
    MaxReconnects = 0
    MaxHttpErrors = 0
    MaxStarts = 1
SPECIFICATION Spec
CHECK_DEADLOCK FALSE
PROPERTIES
    NoLiveUpdateDuringReplay
