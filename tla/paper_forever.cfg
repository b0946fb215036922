CONSTANTS
  btc = btc
  Instruments <- OneInstrument
  Horizon = 3
  BarMs = 1
  NoOrder = NoOrder
  Once = FALSE
  Grace = 0
  Targets <- LongOnly
  MaxCrashes = 1
  MaxErrors = 1
SPECIFICATION Spec
INVARIANTS OkCycleIsDurable
PROPERTIES NeverBackfilled RecoveredBookIsStoreBook
