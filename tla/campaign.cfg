SPECIFICATION FairSpec
CONSTANTS
  Repeat = 2
  MaxAttempt = 4
  MaxStarts = 3
  ForeignRuns <- MCForeignRuns
INVARIANTS
  ListsSound
  FinishedOnce
  PublishedTrue
PROPERTIES
  RunsNotOverwritten
  HistoryKept
  ImplementsLedger
  Settles
CHECK_DEADLOCK FALSE
