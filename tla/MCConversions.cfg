CONSTANTS
    WordMax = 15
    Base = 2
    Places = 2
    MaxLength = 6
SPECIFICATION Spec
CHECK_DEADLOCK FALSE
INVARIANTS
    SaturatesAtBothEnds
    ThrowsExactlyOnOverflow
    ParseIsExact
    FormatReadsBack
