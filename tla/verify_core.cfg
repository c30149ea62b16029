SPECIFICATION Spec
CONSTANTS
  Samples = 5
  Items = 12
  BasePassed = 12
  BaseAnswered = 12
  Repeats = 12
  MinRepeats = 8
  FailFast = 4
  IdAttempts = 3
  Requests <- AllRequests
  Shapes <- Departures
INVARIANTS OfficialNeverConvicted TellsConvict CrashedProbesShow
CHECK_DEADLOCK FALSE
