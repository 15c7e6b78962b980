----------------------------- MODULE MC_L2Accel -----------------------------
EXTENDS L2Accel

CONSTANTS s1, s2, s3, s4, r1, r2

MCSdevs   == {s1, s2, s3, s4}
MCReaders == {r1}

\* 0xFFF80100 (mask 7, base 0x100) and FM10K_DGLORTMAP_NONE.
MCDglortMaps == {[hi |-> 65528, lo |-> 256], [hi |-> 0, lo |-> 65535]}
=============================================================================
