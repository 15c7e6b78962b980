\* Two queues per direction, one slot per ring, no ZC user, one setup_tc call.
CONSTANTS
    NumQueues = 2
    Slots = {1}
    MaxZcUsers = 0
    MaxTcChanges = 1
    XmitFailures = {"shareFail", "cowFail", "padFail"}
    HzValues = {1000}
    StatsRing <- MCStatsRing
    MaxStatsWrites = 1
    Build64 = FALSE
    StatsReaders = 1
SPECIFICATION Spec
INVARIANT TypeOK
INVARIANT MemoryAccounted
INVARIANT NoFault
INVARIANT RingPaired
INVARIANT DownReleased
INVARIANT UpHasRings
INVARIANT StatsReadConsistent
