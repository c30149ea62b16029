SPECIFICATION Spec
CONSTANTS
  a = a
  b = b
  Unset = Unset
  Shell = Shell
  Calls <- MCCalls
  Requests = 1
INVARIANT EnvAlwaysRestored
CHECK_DEADLOCK FALSE
