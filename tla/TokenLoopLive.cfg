\* Liveness, with and without faults.
CONSTANTS
  r1 = r1
  r2 = r2
  None = None
  Requests = {r1, r2}
  MaxTokens = 2
  MaxAttempts = 2
  Faults <- FailFaults
SPECIFICATION LiveSpec
PROPERTIES EveryGenerationEnds CalmGenerationsSucceed CalmCachesAreDropped
CHECK_DEADLOCK FALSE
