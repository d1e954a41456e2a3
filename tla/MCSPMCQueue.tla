---------------------------- MODULE MCSPMCQueue ----------------------------
EXTENDS SPMCQueue, TLC
Symmetry == Permutations(Consumers)
=============================================================================
