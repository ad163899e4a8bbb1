SPECIFICATION GatewaySpec
CONSTANTS
  alice = alice
  bob = bob
  Users <- MCUsers
  Initial <- MCInitial
  Requests <- CancelRequests
  StopPrices <- MCStopPrices
  Deltas <- MCDeltas
  NoDelta = NoDelta
  Displays <- MCDisplays
  NoDisplay = NoDisplay
  Acceptances = {TRUE}
  Deletes = {d1}
  One = 1
  MaxOrders = 3
  MaxPosts = 3
INVARIANTS
  CommitmentsCovered
CHECK_DEADLOCK FALSE
