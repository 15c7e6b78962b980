\* One queue per direction, one slot, one ZC user, one setup_tc call:
\* setup_tc closes and reopens while ZC holds the interface.
CONSTANTS
    NumQueues = 1
    Slots = {1}
    MaxZcUsers = 1
    MaxTcChanges = 1
    XmitFailures = {}
    HzValues = {100}
    StatsRing <- MCStatsRing
    MaxStatsWrites = 0
    Build64 = FALSE
    StatsReaders = 0
SPECIFICATION Spec
INVARIANT UpHasRings
