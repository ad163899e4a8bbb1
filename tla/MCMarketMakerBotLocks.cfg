SPECIFICATION Spec
CONSTANTS
  MaxExact = 7
  MaxFaults = 0
  Prices <- MCPrices
  Quotes <- MCQuotes
  CrossQuantity = 1
  SeedSize = 2
  MaxTicks = 1
  Plans <- MCOnePlan
  UserRequests <- MCUserRequests
  MaxUserOrders = 1
INVARIANTS
  NoOrphanedLocks
CHECK_DEADLOCK FALSE
