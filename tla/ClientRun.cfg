SPECIFICATION Spec
CONSTANTS
    d1 = d1
    None = None
    MaxRequests = 2
    Devices <- OneDevice
    ExposeUnexported = FALSE
INVARIANT TypeOK
INVARIANT OwnAnswer
INVARIANT NothingLeft
INVARIANT ReleasedAtEnd
PROPERTY ClientEnds
CHECK_DEADLOCK FALSE
