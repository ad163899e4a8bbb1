SPECIFICATION EngineSpec
CONSTANTS
  Requests <- MCRequests
  StopPrices <- MCStopPrices
  Deltas <- MCDeltas
  NoDelta = NoDelta
  One = 1
  MaxOrders = 5
INVARIANTS
  EngineTypeOK
  StopsAccountedFor
  LastPriceEvaluated
PROPERTIES
  DoneIsFinal
  CallReportsEveryFill
  SubmitReturns
CHECK_DEADLOCK FALSE
