CONSTANTS
    p1 = p1
    NoPort = NoPort
    LegacyTunnelOps = TRUE
    UdpPorts <- MCUdpPorts
    Families <- MCFamilies
SPECIFICATION Spec
INVARIANT NoDuplicateEntry
INVARIANT NoStaleEntry
INVARIANT OffloadedPortLive
