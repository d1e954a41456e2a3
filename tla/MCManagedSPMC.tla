--------------------------- MODULE MCManagedSPMC ---------------------------
(***************************************************************************)
(* ManagedSPMC for two consumer threads.  MaxItems is Capacity: every slot *)
(* is used once, so that a slot which is never given back is no part of    *)
(* this instance; the laps are those of MCSPMCQueue, and of the proofs.    *)
(***************************************************************************)
EXTENDS ManagedSPMC, TLC
Symmetry == Permutations(Consumers)
=============================================================================
