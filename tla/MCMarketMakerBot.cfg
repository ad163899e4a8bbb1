SPECIFICATION FairSpec
CONSTANTS
  MaxExact = 7
  MaxFaults = 1
  Prices <- MCPrices
  Quotes <- MCQuotes
  CrossQuantity = 1
  SeedSize = 1
  MaxTicks = 2
  Plans <- MCPlans
  UserRequests <- MCUserRequests
  MaxUserOrders = 1
INVARIANTS
  ClusterTypeOK
  AnswersAreTrue
  CacheFollowsBook
  RestingIsRecorded
  ReleasedIsOffBook
PROPERTIES
  EveryTickEnds
CHECK_DEADLOCK FALSE
