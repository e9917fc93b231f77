\* Two claims of two wallets, and two vouchers of one of them.
CONSTANTS
  w1 = w1
  w2 = w2
  Wallets = {w1, w2}
  Claims = {c1, c2}
  Requests = {r1, r2}
  Vouchers <- MCVouchers
  Price = 1
  Topup = 1
  Window = 1
  Skew = 1
  MaxTime = 2
  Faults = {"rpc", "timeout", "shared", "restart"}
  None = None
SPECIFICATION Spec
INVARIANTS MintAnswersTrue OneMintAWindow
PROPERTIES RefusalsExplained
CONSTRAINTS OneFault OneOrTheOther
SYMMETRY Interchangeable
CHECK_DEADLOCK FALSE
