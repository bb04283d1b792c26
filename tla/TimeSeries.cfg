SPECIFICATION BothSpec
CONSTANTS
  Collectors = 2
  Second = 2
  GroupSize = 2
  Froms <- MinusOneToOne
  Tos = {0, 2, 3, 4}
  Intervals = {1, 2}
  MaxRange = 4
  WindowBuckets = 2
  MaxESBuckets = 9
  MaxWindows = 3
  Budgets = {2, 9}
  Documents <- SomeDocuments
  Value <- NegativeValue
INVARIANTS
  BucketsOnce
  NothingLost
  StatsAreGlobal
  WithinESLimit
  EstimateNearlyBounds
  SameAnswer
  StatsSurviveFallback
