SPECIFICATION Spec
CONSTANTS
  c1 = c1
  c2 = c2
  None = None
  Clusters <- TwoClusters
  Views <- SmallViews
  PageSize = 2
  MaxRecords = 5
INVARIANTS
  ExactlyOnce
  HonestEnd
PROPERTIES
  RefinesFeed
  Progress
