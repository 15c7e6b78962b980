------------------------- MODULE MC_MacVlanQueue ---------------------------
EXTENDS MacVlanQueue

CONSTANTS c1, c2, g0, g1

MCCallers == {c1, c2}
MCGlorts  == {g0, g1}
=============================================================================
