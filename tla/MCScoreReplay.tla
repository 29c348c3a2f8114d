---------------------------- MODULE MCScoreReplay ----------------------------
EXTENDS ScoreReplay
=============================================================================
