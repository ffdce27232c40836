CONSTANTS
    btc = btc
    eth = eth
    Symbols = {btc, eth}
    MaxStalls = 1
    MaxFailedOpens = 1
    MaxEvents = 2
    MaxMalformed = 1
    MaxRejects = 1
    Configurations <- EitherOrder
    MaxStartAttempts = 2
SPECIFICATION FairSpec
CHECK_DEADLOCK FALSE
INVARIANTS
    TypeOK
    InSync
    CaughtUp
    NothingRunsAfterMain
PROPERTIES
    StartHasBooks
    KeepsPromise
    StallForcesReconnect
    BookComesBack
