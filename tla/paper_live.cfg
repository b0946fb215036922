CONSTANTS
  btc = btc
  Instruments <- OneInstrument
  Horizon = 1
  BarMs = 1
  NoOrder = NoOrder
  Once = TRUE
  Grace = 0
  Targets <- LongOnly
  MaxCrashes = 1
  MaxErrors = 1
SPECIFICATION FairSpec
PROPERTIES CycleIsStamped IntentIsResolved RecoveryCompletes
CHECK_DEADLOCK FALSE
