\* infer_stream: a stream that did not complete is not settled.
CONSTANTS
  Requests = {r1}
  Vouchers = {v1}
  Kinds = {"stream"}
  MaxPools = 1
  Faults <- ServiceFaults
  None = None
SPECIFICATION Spec
INVARIANTS PaidMeansServed
CHECK_DEADLOCK FALSE
