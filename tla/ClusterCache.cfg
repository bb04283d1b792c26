SPECIFICATION FairSpec
CONSTANTS
  t1 = t1
  t2 = t2
  bg = bg
  n1 = n1
  n2 = n2
  al = al
  u1 = u1
  u2 = u2
  None = None
  Dropped = Dropped
  Callers <- TwoCallers
  Twice <- OneCaller
  Fetchers <- OneFetcher
  Names <- TwoNames
  Aliases <- OneAlias
  Keys <- NameAndAlias
  Urls <- TwoUrls
  Scheme <- MovingScheme
  TTL = 0
  MinGap = 0
  AgeCap = 1
INVARIANTS
  OneLazyFetch
  AnswerFromCache
  NobodyWaitsInVain
  RangeOfSearchedCluster
PROPERTIES
  ClientOfOwnUrl
  EveryGetReturns
  EventuallyFresh
