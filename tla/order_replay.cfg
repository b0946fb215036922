CONSTANTS
  btc = btc
  Instruments <- OneInstrument
  Horizon = 0
  BarMs = 1
  NoOrder = NoOrder
  Requests <- Flip
  MaxAttempts = 2
  MaxCalls = 3
  MaxRaises = 3
SPECIFICATION ReplaySpec
CHECK_DEADLOCK FALSE
INVARIANTS AtMostOneFill ReturnedMeansRecorded RejectIsDefinitive
PROPERTY TerminalOrderSticks
