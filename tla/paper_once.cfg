CONSTANTS
  btc = btc
  Instruments <- OneInstrument
  Horizon = 3
  BarMs = 2
  NoOrder = NoOrder
  Once = TRUE
  Grace = 0
  Targets <- BothSides
  MaxCrashes = 1
  MaxErrors = 1
SPECIFICATION Spec
INVARIANTS TypeOK PersistBeforeSubmit ExecutedOnce LogsAgree NeverRejectAFill
PROPERTIES TerminalCycleSticks KeepsItsPromises
