SPECIFICATION FairSpec
CONSTANTS
  t1 = t1
  t2 = t2
  f = f
  u = u
  Threads <- MCOneThread
  Keys <- MCKeys
  Unresolved <- MCUnresolved
  Intervals <- MCIntervals
  SemChoices <- MCSemChoices
  Coalesce = FALSE
  WaitMayFail = FALSE
  StartMayFail = TRUE
  MayBeKilled = TRUE
  MaxCalls = 2
  MaxSignals = 2
PROPERTIES
  StopReturns
  ManualFlushServed
  EventuallyDurable
