\* Two initializations of one pool, one after the other or overlapping.
CONSTANTS
  Sessions = {s1, s2}
  OpA = OpA
  OpB = OpB
  Settings = {TRUE, FALSE}
  Stake = 1
  Faults = {"revert", "worker", "timeout", "webhook", "crash"}
  None = None
SPECIFICATION FairSpec
INVARIANTS SignaturesLanded RecordedPoolHasUnits LastPoolFannedOut
PROPERTIES CalmCoalitionsConnect
CONSTRAINTS OneKind LateOverlap FewCalls OneWebhook
CHECK_DEADLOCK FALSE
