SPECIFICATION Spec
CONSTANTS
  Requests <- MCRequests
  One = 1
  MaxOrders = 4
INVARIANTS
  TypeOK
  LevelsSorted
  QueuesInArrivalOrder
  IndexAgrees
  DepthAgrees
  FillOrKillIsAllOrNothing
  OnlyIcebergsCross
PROPERTIES
  PriceTimePriority
  EveryFillIsATrade
  MatchingConservesQuantity
  ImplementsPriceTime
CHECK_DEADLOCK FALSE
