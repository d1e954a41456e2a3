--------------------------- MODULE MCFutureSystem ---------------------------
EXTENDS FutureSystem, TLC
Symmetry == Permutations(Clients)
=============================================================================
