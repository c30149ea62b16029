SPECIFICATION Spec
CONSTANTS
  b1 = b1
  b2 = b2
  c1 = c1
  c2 = c2
  c3 = c3
  Builders <- MCTwoBuilders
  Contents <- MCContents
  MaxBuilds = 4
INVARIANTS LineageSound BuildsCounted ListedOnce
PROPERTIES VersionsImmutable
CHECK_DEADLOCK FALSE
