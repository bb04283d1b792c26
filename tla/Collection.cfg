SPECIFICATION FairSpec
CONSTANTS
  n1 = n1
  n2 = n2
  Requests = {1}
  Nodes <- TwoNodes
  NodeLists <- Lists
  Collectors = {0, 1, 2}
  MaxAttempts = 3
INVARIANTS
  StatusMeansWhatItSays
  AttemptsSpent
PROPERTIES
  EveryRequestAnswered
