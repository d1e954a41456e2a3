---------------------------- MODULE MCThreadPool ----------------------------
EXTENDS ThreadPoolExecutor, TLC
Symmetry == Permutations(Clients) \cup Permutations(Workers)
=============================================================================
