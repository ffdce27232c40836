CONSTANTS
    TickSize = 2
    HalfRange = 2
    Prices <- MCPrices
    Quantities <- MCQuantities
SPECIFICATION LadderSpec
INVARIANTS
    LadderTypeOK
    IndicesDescribeArray
    QueriesAgreeWithSearch
PROPERTIES
    ImplementsWindow
