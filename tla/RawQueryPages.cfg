SPECIFICATION Spec
CONSTANTS
  c1 = c1
  c2 = c2
  None = None
  Blank = Blank
  Wildcard = Wildcard
  Clusters <- TwoClusters
  Params <- Lists
  Ranges <- SomeRanges
  Stores <- SomeStores
  Size = 2
  Day = 4
  MaxRange = 5
  FirstNow = 6
  MaxPages = 3
  MaxArrivals = 1
  MaxTicks = 1
INVARIANTS
  PageIsNewest
  NoRepeat
  WalkIsComplete
  MoreIsHonest
