------------------------ MODULE MCCoroutineScheduler ------------------------
EXTENDS CoroutineScheduler, TLC
Symmetry == Permutations(Coroutines)
=============================================================================
