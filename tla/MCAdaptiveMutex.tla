-------------------------- MODULE MCAdaptiveMutex --------------------------
(***************************************************************************)
(* AdaptiveMutex for two threads.  They are interchangeable, but the run   *)
(* checks a liveness property, for which TLC's symmetry is not sound.      *)
(***************************************************************************)
EXTENDS AdaptiveMutex
=============================================================================
