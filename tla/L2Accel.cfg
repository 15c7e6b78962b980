\* First tables of 2 slots (7 in the code), so that a third station makes
\* the table grow (2 -> 5): dglort_map 0xFFF80100 is a mask of 7 with 4 VFs,
\* the split configuration, which gives the PF 4 GLORTs and so a limit of
\* 3 stations; the fourth device meets the limit.  FM10K_DGLORTMAP_NONE
\* (no GLORTs yet) is the other map: every add is refused.
CONSTANTS
    s1 = s1
    s2 = s2
    s3 = s3
    s4 = s4
    r1 = r1
    r2 = r2
    NoDev = NoDev
    Sdevs <- MCSdevs
    Readers <- MCReaders
    L2InitSize = 2
    MaxStations = 63
    MaxTables = 3
    DglortMaps <- MCDglortMaps
    TotalVfs = 4
    NumRxQueues = 2
SPECIFICATION FairSpec
INVARIANT ReadersSeeAllocated
INVARIANT SwitchRulesMatchTable
INVARIANT StationGlortsInRange
INVARIANT RingsPublished
PROPERTY ImplementsStations
PROPERTY TablesReclaimed
