\* A server's LAN over restarts: one pump, two writes at a time, three tokens on two
\* or three addresses.
SPECIFICATION FairSpec
CONSTANTS
    Pump = Pump
    Readers = {Pump}
    Writers = {w1, w2}
    MaxQueue = 2
    Keys = {k1, k2, k3}
    Addrs <- MCAddrs
    NoAddr = NoAddr
    Configs <- MCConfigs
INVARIANT TypeOK
INVARIANT DescriptorOwned
INVARIANT StableLeases
INVARIANT ActiveIsServed
PROPERTY ClosedCallsEnd
PROPERTY PumpWakes
