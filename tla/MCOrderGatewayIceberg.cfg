SPECIFICATION GatewaySpec
CONSTANTS
  alice = alice
  bob = bob
  Users <- MCUsers
  Initial <- MCInitial
  Requests <- IcebergRequests
  StopPrices <- MCStopPrices
  Deltas <- MCDeltas
  NoDelta = NoDelta
  Displays <- MCDisplays
  NoDisplay = NoDisplay
  Acceptances = {TRUE}
  Deletes <- NoDeletes
  One = 1
  MaxOrders = 4
  MaxPosts = 3
INVARIANTS
  EveryMatchSettles
CHECK_DEADLOCK FALSE
