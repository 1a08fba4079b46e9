------------------------- MODULE MCLatestScheduler -------------------------
EXTENDS LatestScheduler
=============================================================================
