SPECIFICATION FairSpec
CONSTANTS
  a = a
  b = b
  Unset = Unset
  Shell = Shell
  Calls <- MCCalls
  Requests = 1
INVARIANTS EnvRestored OwnKeyOnly OneAnswer
PROPERTY CallsEnd
CHECK_DEADLOCK FALSE
