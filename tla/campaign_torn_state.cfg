SPECIFICATION Spec
CONSTANTS
  Repeat = 1
  MaxAttempt = 3
  MaxStarts = 2
  ForeignRuns = {}
INVARIANTS
  IncompleteRoundsRerun
CHECK_DEADLOCK FALSE
