CONSTANTS
    btc = btc
    eth = eth
    SubscribedSymbols <- TwoSymbols
    MaxSnapshotRetries = 2
    BufferCap = 2
    MaxBatch = 1
    RestLag = 1
    MaxId = 3
    MaxLosses = 1
    MaxMalformed = 1
    MaxReconnects = 1
    MaxHttpErrors = 2
    MaxStarts = 1
SPECIFICATION RunningSpec
CHECK_DEADLOCK FALSE
PROPERTIES
    BookComesBack
    KeepsPromise
