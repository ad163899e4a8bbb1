SPECIFICATION GatewaySpec
CONSTANTS
  alice = alice
  bob = bob
  Users <- MCUsers
  Initial <- MCInitial
  Requests <- LimitRequests
  StopPrices <- MCStopPrices
  Deltas <- MCDeltas
  NoDelta = NoDelta
  Displays <- MCDisplays
  NoDisplay = NoDisplay
  Acceptances = {TRUE}
  Deletes <- NoDeletes
  One = 1
  MaxOrders = 3
  MaxPosts = 3
INVARIANTS
  LocksMatchCommitments
CHECK_DEADLOCK FALSE
