------------------------- MODULE MCRealtimeRetirement -------------------------
EXTENDS RealtimeRetirement
=============================================================================
