\* Two pools, one request at a time; crashes, restarts, workers that fail or answer late.
CONSTANTS
  n1 = n1
  n2 = n2
  pa = pa
  pb = pb
  d1 = d1
  d2 = d2
  h1 = h1
  h2 = h2
  None = None
  Nodes = {n1, n2}
  Docs = {d1, d2}
  Names = {pa, pb}
  Models = {m1}
  Handlers = {h1}
  MaxMints = 0
  Faults <- CallFaults
SYMMETRY Symmetry
SPECIFICATION Spec
INVARIANTS MembershipAgrees AssignedAreMembers LoadedAsAssigned
CONSTRAINTS OneKind OneLate
CHECK_DEADLOCK FALSE
