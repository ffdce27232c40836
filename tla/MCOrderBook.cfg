CONSTANTS
    TickSize = 1
    HalfRange = 1
    OfiDepth = 2
    Snapshots <- MCSnapshots
    Updates <- MCUpdates
    MaxId = 3
SPECIFICATION Spec
INVARIANTS
    TypeOK
    ViewIsTopOfBook
    ClearedBookIsEmpty
PROPERTIES
    OfiDeltasAccountForView
    DeltasReproduceBook
    FlagsFollowView
