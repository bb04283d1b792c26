SPECIFICATION FairSpec
CONSTANTS
  c1 = c1
  c2 = c2
  None = None
  Clusters <- OneCluster
  Views <- LongViews
  PageSize = 2
  MaxRecords = 3
INVARIANTS
  CursorAtLastRecord
  SnapshotsAccounted
PROPERTY
  Terminates
