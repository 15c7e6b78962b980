--------------------------- MODULE MC_TunnelPorts ---------------------------
EXTENDS TunnelPorts

CONSTANTS p1

\* One UDP port opened over two address families: two distinct entries per
\* tunnel type that share a port number.
MCUdpPorts == {p1}
MCFamilies == {"v4", "v6"}
=============================================================================
