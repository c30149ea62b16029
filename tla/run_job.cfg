SPECIFICATION FairSpec
CONSTANTS
  TaskCount = 3
  Concurrency = {1, 2}
  Retries = 1
  TraceEnabled = TRUE
  RequireGo = TRUE
INVARIANTS CallsAccounted QuietAfterEnd CompletedIsWhole OutcomesTold
PROPERTIES ImplementsChildRun RunEnds
CHECK_DEADLOCK FALSE
