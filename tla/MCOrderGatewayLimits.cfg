SPECIFICATION GatewaySpec
CONSTANTS
  alice = alice
  bob = bob
  Users <- MCUsers
  Initial <- MCInitial
  Requests <- SettledRequests
  StopPrices <- MCStopPrices
  Deltas <- MCDeltas
  NoDelta = NoDelta
  Displays <- MCDisplays
  NoDisplay = NoDisplay
  Acceptances = {TRUE}
  Deletes <- NoDeletes
  One = 1
  MaxOrders = 4
  MaxPosts = 3

  
PROPERTIES
  EveryPostIsAnswered
CHECK_DEADLOCK FALSE
