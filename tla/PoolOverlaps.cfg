\* One pool, two requests in progress at a time.
CONSTANTS
  n1 = n1
  n2 = n2
  pa = pa
  pb = pb
  d1 = d1
  d2 = d2
  h1 = h1
  h2 = h2
  None = None
  Nodes = {n1, n2}
  Docs = {d1}
  Names = {pa}
  Models = {m1}
  Handlers = {h1, h2}
  MaxMints = 2
  Faults = {}
SYMMETRY Symmetry
SPECIFICATION Spec
INVARIANTS MembershipAgrees AssignedAreMembers MintedOnce
CONSTRAINT OneKind
CHECK_DEADLOCK FALSE
