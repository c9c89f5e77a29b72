SPECIFICATION FairSpec
CONSTANTS
    r1 = r1
    r2 = r2
    l1 = l1
    c1 = c1
    c2 = c2
    a = a
    b = b
    None = None
    Requests <- OneRequest
    Loops <- OneLoop
    Clients <- TwoClients
    Profiles <- TwoProfiles
    MaxAttempts = 2
INVARIANT TypeOK
INVARIANT OneTunnel
INVARIANT StaysDisconnected
INVARIANT ShownConnected
INVARIANT PortsKnown
PROPERTY Recovers
CHECK_DEADLOCK FALSE
