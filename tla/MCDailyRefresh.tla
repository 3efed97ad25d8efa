--------------------------- MODULE MCDailyRefresh ---------------------------
EXTENDS DailyRefresh, TLC

CONSTANTS i1, i2, i3

Sym == Permutations(Inodes)
=============================================================================
