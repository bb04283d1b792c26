SPECIFICATION Spec
CONSTANTS
  n1 = n1
  n2 = n2
  Requests = {1}
  Nodes <- TwoNodes
  NodeLists <- Lists
  Collectors = {1, 2}
  MaxAttempts = 1
INVARIANT
  AllAnsweredIsSuccess
