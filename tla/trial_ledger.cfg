CONSTANTS
  s1 = s1
  s2 = s2
  m1 = m1
  m2 = m2
  Alone = {s1, s2}
  Batches <- OneBatch
  Historical = 1
  Budget = 3
  Ceilings <- Raised
  Resealed = {s1}
SPECIFICATION TrialSpec
INVARIANTS TrialTypeOK OrdinalIsPosition BatchesAreAtomic
PROPERTIES DecidedBeforeNext
