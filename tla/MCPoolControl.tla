--------------------------- MODULE MCPoolControl ---------------------------
(* Instances of PoolControl for TLC.                                       *)
EXTENDS PoolControl, TLC

CONSTANTS n1, n2, d1, d2, pa, pb, h1, h2

CallFaults == {"http", "late", "mint", "crash", "restart"}

\* Bound: behaviours are followed until a second kind of disturbance has
\* happened.  Each property is excused by some kinds and withstands others.
OneKind == Cardinality(disturbed) <= 1

\* Bound: one call at a time is late, and nothing else disturbs meanwhile.
OneLate == Cardinality(late) <= 1 /\ (late # {} => disturbed \subseteq {"late"})

Symmetry == Permutations(Nodes) \cup Permutations(Docs) \cup Permutations(Names)
              \cup Permutations(Handlers)
=============================================================================
