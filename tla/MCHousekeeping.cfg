SPECIFICATION Spec
CONSTANTS
  Monitors = {m1}
  Passes = {p1, p2}
  Hour = 2
  Day = 4
  Retentions = {1, 2}
  RangeLengths = {3, 4, 8}
  RangeBuckets = {2, 4}
  MaxPass = 1
  MaxTime = 9
  MaxLag = 1
  MaxChecks = 2
SYMMETRY Symmetry
INVARIANTS
  TypeOK
  RowsAreExact
  PrunedLivesOn
  AnalyticsComplete
  ChartedWhenAligned
