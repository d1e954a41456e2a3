-------------------------- MODULE MCCircularBuffer --------------------------
EXTENDS CircularBuffer, TLC
Symmetry == Permutations(Threads)
=============================================================================
