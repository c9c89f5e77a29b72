SPECIFICATION FairSpec
CONSTANTS
    s1 = s1
    p1 = p1
    p2 = p2
    u1 = u1
    u2 = u2
    l1 = l1
    NoPump = NoPump
    NoId = NoId
    NoSession = NoSession
    Sessions <- OneSession
    Pumps <- TwoPumps
    UsbIds <- TwoUsbIds
    LanIds <- OneLanId
    MaxChannels = 1
    KickAge = 0
    MaxUnread = 1
    ReuseIds = TRUE
    AwaitsConns = TRUE
INVARIANT TypeOK
INVARIANT NothingOrphaned
INVARIANT ChannelsLive
INVARIANT ChannelCap
INVARIANT TornDownWhileRunning
INVARIANT LanMembersOpen
PROPERTY DeadReaped
PROPERTY PumpsEnd
CHECK_DEADLOCK FALSE
