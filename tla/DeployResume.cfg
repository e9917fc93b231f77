\* Any scripts in any order, one of them interrupted.
CONSTANTS
  SizeLimits = {TRUE, FALSE}
  MaxRuns = 4
  MaxInterrupts = 1
SPECIFICATION Spec
INVARIANTS RecordedOnChain RecordsAgree SavedFrameworkReady FlowsClosed ResumeDeploysOnce
CHECK_DEADLOCK FALSE
