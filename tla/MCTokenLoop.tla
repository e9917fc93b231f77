---------------------------- MODULE MCTokenLoop ----------------------------
(* Instances of TokenLoop for TLC: the sets of faults the runs allow.      *)
EXTENDS TokenLoop, FiniteSets, TLC

CONSTANTS r1, r2

LossyFaults     == {"loss", "error", "forward", "slow", "cancel"}
OutOfStepFaults == {"duplicate", "restart"}

\* Bounds of the out-of-step run.  What an ended generation leaves behind in
\* the network cannot change what it yielded; and at most two frames are
\* under way in each direction, so that copies of two chunks can meet.
SomeGenerationRuns == \E r \in Requests : pc[r] \notin Ended
FewFrames == Cardinality(toEntry) <= 2 /\ Cardinality(toExit) <= 2

Symmetry == Permutations(Requests)
=============================================================================
