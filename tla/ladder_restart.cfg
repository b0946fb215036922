CONSTANTS
  Equities <- SomeEquities
  Scale = 40
  Half = 4
  Flat = 6
  Cooldown = 2
  TradingCosts <- Costs
  MaxRows = 4
  MaxMarks = 4
  MaxSyncs = 1
SPECIFICATION LadderSpec
CHECK_DEADLOCK FALSE
INVARIANTS TierFitsDrawdown NoFlapping FullGrossIsEarned ExactOnMarks
