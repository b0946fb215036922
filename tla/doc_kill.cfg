CONSTANTS
  btc = btc
  Instruments <- OneInstrument
  Horizon = 0
  BarMs = 1
  NoOrder = NoOrder
  Once = TRUE
  Grace = 0
  Targets <- LongOnly
  MaxCrashes = 0
  MaxErrors = 0
SPECIFICATION Spec
PROPERTY NoSubmitWhileKilled
