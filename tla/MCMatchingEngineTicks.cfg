SPECIFICATION EngineSpec
CONSTANTS
  Requests <- MCRequests
  StopPrices <- MCStopPrices
  Deltas <- MCDeltas
  NoDelta = NoDelta
  One = 1
  MaxOrders = 5
INVARIANTS
  EveryTradeEvaluated
CHECK_DEADLOCK FALSE
