SPECIFICATION Spec
CONSTANTS
    d1 = d1
    None = None
    MaxRequests = 1
    Devices <- OneDevice
    ExposeUnexported = FALSE
INVARIANT CtrlCDetaches
CHECK_DEADLOCK FALSE
