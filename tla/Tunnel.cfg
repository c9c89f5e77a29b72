SPECIFICATION Spec
CONSTANTS
    k1 = k1
    k2 = k2
    p1 = p1
    p2 = p2
    Session = Session
    Lan = 1
    NoPump = NoPump
    NoId = NoId
    NoSession = NoSession
    NoConn = NoConn
    Locals <- TwoLocals
    Pumps <- TwoPumps
    Base = 100
    LastId = 101
    MaxChannels = 1
    MaxData = 1
    MaxInFlight = 2
    LossConns = 1
INVARIANT TypeOK
INVARIANT HangUpsArrive
PROPERTY Forwards
PROPERTY OpensOnce
PROPERTY ChannelsKept
CHECK_DEADLOCK FALSE
