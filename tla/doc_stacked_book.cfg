CONSTANTS
  Tick = 1
  Share = 2
  Dust = 1
  FlattenEps = 0
  Names = {n1}
  Raws <- SomeRaws
  Fractionable = {}
  Shortable = {n1}
  GrossCap = 4
  NetCap = 4
  HaltAfter = 2
  FillSteps <- Steps
  MaxLingering = 1
  MaxCycles = 3
SPECIFICATION CycleSpec
CHECK_DEADLOCK FALSE
INVARIANTS NeverTwoBooks
