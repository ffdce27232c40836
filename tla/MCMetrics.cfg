CONSTANTS
    WordMax = 15
    BucketBounds <- Bounds
    Timings = {1, 3}
    Messages <- MixedMessages
    MaxUpdates = 3
    MaxClears = 1
    MaxScrapes = 1
SPECIFICATION Spec
CHECK_DEADLOCK FALSE
INVARIANTS
    TypeOK
    BucketsCountObservations
    ScrapeIsConsistent
    AccumulatorIsSent
    AgeOnlyWithBook
