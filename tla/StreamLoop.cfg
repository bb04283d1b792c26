SPECIFICATION FairSpec
CONSTANTS
  r1 = r1
  r2 = r2
  Requests <- TwoRequests
  Kinds <- TwoKinds
  MaxStreams = 1
  MaxBytes = 2
  Sizes = {1}
  MaxBatches = 2
INVARIANTS
  WireGrammar
  DoneMatchesWire
  SlotsCoverProducers
  NoCircularWait
PROPERTY
  EveryRequestEnds
  RefinesDelivery
