--------------------------- MODULE MC_VlanTracker ---------------------------
EXTENDS VlanTracker

CONSTANTS u1, m1, h1, h2

MCUcAddrs == {u1}
MCMcAddrs == {m1}
MCMacs    == {h1, h2}
=============================================================================
