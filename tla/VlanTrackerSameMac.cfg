CONSTANTS
    u1 = u1
    m1 = m1
    h1 = h1
    h2 = h2
    VlanNVid = 4
    UcAddrs <- MCUcAddrs
    McAddrs <- MCMcAddrs
    Macs <- MCMacs
    VlanOverride = FALSE
    SameMacAllowed = TRUE
    MaxAllocFails = 0
SPECIFICATION Spec
INVARIANTS
    MacFiltersMatch
