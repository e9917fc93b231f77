-------------------------- MODULE MCInferPayment --------------------------
(* Instances of InferPayment for TLC.                                      *)
EXTENDS InferPayment, TLC

AllFaults == FaultKinds
ServiceFaults == {"worker", "refused"}

Symmetry == Permutations(Requests) \cup Permutations(Vouchers)
=============================================================================
