\* Two concurrent requests, everything but duplicates and reloads goes wrong.
CONSTANTS
  r1 = r1
  r2 = r2
  None = None
  Requests = {r1, r2}
  MaxTokens = 2
  MaxAttempts = 2
  Faults <- LossyFaults
SYMMETRY Symmetry
SPECIFICATION Spec
INVARIANTS TypeOK ContextExact StopsExactly
PROPERTIES ForgottenForGood ImplementsTokenStream
CHECK_DEADLOCK FALSE
