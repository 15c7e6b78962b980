CONSTANTS
    p1 = p1
    NoPort = NoPort
    LegacyTunnelOps = FALSE
    UdpPorts <- MCUdpPorts
    Families <- MCFamilies
SPECIFICATION Spec
PROPERTY CloseFreesPorts
