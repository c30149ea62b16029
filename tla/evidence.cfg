SPECIFICATION Spec
CONSTANTS
  r1 = r1
  r2 = r2
  t1 = t1
  g1 = g1
  x1 = x1
  c1 = c1
  c2 = c2
  Compat = Compat
  None = None
  Rescores = {r1, r2}
  TraceEvals = {t1}
  Gates = {g1}
  Exports = {x1}
  Clerks = {c1, c2}
  Runs <- MCRuns
  GateRequests <- MCGateRequests
  ExportRequests <- MCExportRequests
  Archivable = {r1}
  MaxStarted = 3
  MaxRunning = 2
  MaxTroubles = 2
INVARIANTS GateReadsFinal GoRests ExportFollowsGate SealedExports
PROPERTIES PutAwayHeld
CHECK_DEADLOCK FALSE
SYMMETRY ClerksAlike
