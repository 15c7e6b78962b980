\* Same bounds as Queue.cfg; checks the wait-then-cancel protocol of reset.
CONSTANTS
    c1 = c1
    c2 = c2
    g0 = g0
    g1 = g1
    NoGlort = NoGlort
    Callers <- MCCallers
    Glorts <- MCGlorts
    PortGlort <- g0
    MaxRequests = 3
    MaxResets = 1
SPECIFICATION Spec
INVARIANT NoStaleForwardAfterTeardown
CHECK_DEADLOCK FALSE
