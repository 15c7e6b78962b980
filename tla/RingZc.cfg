\* Two queues per direction, two slots per ring, one ZC user, no setup_tc.
CONSTANTS
    NumQueues = 2
    Slots = {1, 2}
    MaxZcUsers = 1
    MaxTcChanges = 0
    XmitFailures = {"shareFail", "cowFail", "padFail"}
    HzValues = {100}
    StatsRing <- MCStatsRing
    MaxStatsWrites = 0
    Build64 = FALSE
    StatsReaders = 0
SPECIFICATION Spec
INVARIANT TypeOK
INVARIANT MemoryAccounted
INVARIANT NoFault
INVARIANT RingPaired
INVARIANT DownReleased
INVARIANT UpHasRings
