CONSTANTS
    btc = btc
    eth = eth
    SubscribedSymbols <- TwoSymbols
    MaxSnapshotRetries = 2
    BufferCap = 1
    MaxBatch = 1
    RestLag = 0
    MaxId = 3
    MaxLosses = 1
    MaxMalformed = 0
    MaxReconnects = 0
    MaxHttpErrors = 1
    MaxStarts = 1
SPECIFICATION FairSpec
CHECK_DEADLOCK FALSE
PROPERTIES
    BookComesBack
