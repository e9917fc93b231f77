\* One request; failed sends may have been accepted, and workers may reload.
CONSTANTS
  r1 = r1
  r2 = r2
  None = None
  Requests = {r1}
  MaxTokens = 2
  MaxAttempts = 2
  Faults <- OutOfStepFaults
SPECIFICATION Spec
INVARIANT NeverAhead
CONSTRAINTS SomeGenerationRuns FewFrames
CHECK_DEADLOCK FALSE
