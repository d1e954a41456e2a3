-------------------------- MODULE MCLockFreeStack --------------------------
EXTENDS LockFreeStack, TLC
Symmetry == {f @@ g : f \in Permutations(Threads), g \in Permutations(Nodes)}
=============================================================================
