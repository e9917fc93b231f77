\* Both routes, everything may fail.
CONSTANTS
  Requests = {r1, r2}
  Vouchers = {v1, v2}
  Kinds = {"plain", "stream"}
  MaxPools = 2
  Faults <- AllFaults
  None = None
SYMMETRY Symmetry
SPECIFICATION Spec
INVARIANTS VoucherPaysOnce SettledMeansPaid PlainPaidMeansServed
CHECK_DEADLOCK FALSE
