SPECIFICATION GatewaySpec
CONSTANTS
  alice = alice
  bob = bob
  Users <- MCUsers
  Initial <- MCInitial
  Requests <- MixedRequests
  StopPrices <- MCStopPrices
  Deltas <- MCDeltas
  NoDelta = NoDelta
  Displays <- MCDisplays
  NoDisplay = NoDisplay
  Acceptances = {TRUE, FALSE}
  Deletes = {d1}
  One = 1
  MaxOrders = 3
  MaxPosts = 3
SYMMETRY ClientSymmetry
INVARIANTS
  GatewayTypeOK
  BalancesFollowLedger
  EveryFillAccountedFor
CHECK_DEADLOCK FALSE
