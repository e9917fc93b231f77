\* Generations fail and settlements are refused, updates are not late; one
\* payment pool.
CONSTANTS
  Requests = {r1, r2}
  Vouchers = {v1, v2}
  Kinds = {"plain", "stream"}
  MaxPools = 1
  Faults <- ServiceFaults
  None = None
SPECIFICATION FairSpec
INVARIANTS MeterHalts RecordsMatchChain
PROPERTIES EveryFlowStops
CHECK_DEADLOCK FALSE
