------------------------- MODULE MCWorkerLifecycle -------------------------
(* Instances of WorkerLifecycle for TLC.                                   *)
EXTENDS WorkerLifecycle, TLC

Symmetry == Permutations(Calls) \cup Permutations(Gens)
=============================================================================
