SPECIFICATION Spec
CONSTANTS
  MaxConns = 3
  Totals = {1, 3}
  PageSize = 2
  MaxRecords = 2
  KeepAlive = 1
  MaxTime = 1
  MaxStarts = 2
INVARIANTS
  ReceivedInOrder
  DeliveredCursorUsable
PROPERTIES
  RefinesRead
