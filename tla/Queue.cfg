\* Two concurrent callers, the port's glort g0 and a station glort g1,
\* two requests and one reset.
CONSTANTS
    c1 = c1
    c2 = c2
    g0 = g0
    g1 = g1
    NoGlort = NoGlort
    Callers <- MCCallers
    Glorts <- MCGlorts
    PortGlort <- g0
    MaxRequests = 2
    MaxResets = 1
SPECIFICATION Spec
INVARIANT TypeOK
INVARIANT QueueConserved
INVARIANT CancelOnlyOwnPort
PROPERTY RequestSettles
CHECK_DEADLOCK FALSE
