CONSTANTS
    btc = btc
    eth = eth
    Symbols = {btc}
    MaxStalls = 0
    MaxFailedOpens = 0
    MaxEvents = 1
    MaxMalformed = 0
    MaxRejects = 0
    Configurations <- KrakenOnly
    MaxStartAttempts = 1
SPECIFICATION FairSpec
CHECK_DEADLOCK FALSE
PROPERTIES
    StartEnds
