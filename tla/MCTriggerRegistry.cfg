SPECIFICATION Spec
CONSTANTS
  Symbols <- MCSymbols
  StopPrices <- MCStopPrices
  Deltas <- MCDeltas
  NoDelta = NoDelta
  TickPrices <- MCTickPrices
  MaxStops = 2
INVARIANTS
  TypeOK
  RegisteredOnce
  MarksEnclose
PROPERTIES
  StopsRatchet
  TickLeavesNothingDue
  TickLosesNoOrder
CHECK_DEADLOCK FALSE
