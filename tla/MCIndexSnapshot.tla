-------------------------- MODULE MCIndexSnapshot --------------------------
EXTENDS IndexSnapshot, TLC

CONSTANTS f1, f2, d1, d2, d3, p1, p2

Sym == Permutations(Files) \cup Permutations(Dirs) \cup Permutations(Importers)
=============================================================================
