CONSTANTS
    btc = btc
    eth = eth
    Symbols = {btc}
    MaxStalls = 1
    MaxFailedOpens = 1
    MaxEvents = 1
    MaxMalformed = 0
    MaxRejects = 0
    Configurations <- KrakenOnly
    MaxStartAttempts = 1
SPECIFICATION FairSpec
CHECK_DEADLOCK FALSE
PROPERTIES
    FeedComesBack
