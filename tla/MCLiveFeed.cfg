SPECIFICATION FairSpec
CONSTANTS
  Symbols <- MCSymbols
  Users <- MCUsers
  Speeds <- MCSpeeds
  Limits <- MCLimits
  MinRows = 2
  DefaultSymbol = "BTC-INR"
  TapeLength = 2
  Budgets <- MCBudgets
INVARIANTS
  FeedTypeOK
  ReplayedInOrder
  ReplayedOnce
  TicksOnce
PROPERTIES
  FeedRecovers
  ReplayFinishes
CHECK_DEADLOCK FALSE
