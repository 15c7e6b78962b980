------------------------- MODULE MC_RingResources --------------------------
EXTENDS RingResources

\* The ring whose statistics reader is checked: Tx queue 0.
MCStatsRing == <<"tx", 0>>
=============================================================================
