---------------------------- MODULE MCStatsCache ----------------------------
EXTENDS StatsCache, TLC

CONSTANTS u1, u2, i1, i2

MCUsers == {u1, u2}
MCItems == {i1, i2}
MCSymmetry == Permutations(MCUsers) \cup Permutations(MCItems)
=============================================================================
