SPECIFICATION FairSuite
CONSTANTS
  Total = 3
  Requested = "m"
  Marker <- MCMarker
  Json <- MCJson
  OtherJson <- MCOtherJson
  Suites <- MCSuites
  Answers <- MCAnswers
INVARIANTS StopTakesEffect ParkedIsReleasable ReportsTrue EventsAsSent ListedTellsTruth
PROPERTIES EndIsFinal JobEnds ShownPauseHeals CaseJudgedRight
CHECK_DEADLOCK FALSE
