CONSTANTS
  bars = bars
  dead = dead
  feed = feed
  j1 = j1
  j2 = j2
  Jobs = {j1, j2}
  NoJob = NoJob
  CryptoRun <- Bars
  EquityRun <- Files
  Archived = {dead}
  Data <- Keys
  Width <- Widths
  Listed <- Listings
  Delisted <- Ends
  BatchSpan = 4
  MonthSpan = 2
  LeafSpan = 2
  Floors <- SomeFloors
  Ceilings <- SomeCeilings
  Horizon = 4
  MaxManual = 1
  MaxFaults = 2
SPECIFICATION FairIngest
INVARIANTS IngestTypeOK OnlyFinalRows
PROPERTIES KeepsTheLake CatchesUp
