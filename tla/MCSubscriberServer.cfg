CONSTANTS
    c1 = c1
    s1 = s1
    nobook = nobook
    e1 = e1
    NoStream = NoStream
    Clients = {c1}
    Streams = {s1, nobook}
    Books = {s1}
    Exchanges = {e1}
    ExchangeOf <- OneBook
    Workers = {}
    Prices <- MCPrices
    Changes <- MCChanges
    Contents <- MCContents
    Drops <- MCDrops
    MaxUpdates = 3
    MaxSnapshots = 1
    MaxRequests = 3
SPECIFICATION Spec
INVARIANTS
    TypeOK
    NothingMissed
    CopyHasEveryLevel
    StaleLevelsHeal
    GoneIsForgotten
CHECK_DEADLOCK FALSE
