\* Same bounds as Queue.cfg; checks the spec contract of cancel(port, FALSE).
CONSTANTS
    c1 = c1
    c2 = c2
    g0 = g0
    g1 = g1
    NoGlort = NoGlort
    Callers <- MCCallers
    Glorts <- MCGlorts
    PortGlort <- g0
    MaxRequests = 3
    MaxResets = 1
SPECIFICATION Spec
PROPERTY CancelRemovesPortMacs
CHECK_DEADLOCK FALSE
