------------------------- MODULE MCRealTimeProcessor -------------------------
EXTENDS RealTimeProcessor
=============================================================================
