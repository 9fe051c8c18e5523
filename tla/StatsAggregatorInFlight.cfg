SPECIFICATION Spec
CONSTANTS
  t1 = t1
  t2 = t2
  f = f
  u = u
  Threads <- MCThreads
  Keys <- MCKeys
  Unresolved <- MCUnresolved
  Intervals <- MCIntervals
  SemChoices <- MCSemChoices
  Coalesce = TRUE
  WaitMayFail = FALSE
  StartMayFail = FALSE
  MayBeKilled = FALSE
  MaxCalls = 2
  MaxSignals = 1
INVARIANT ContextOutlivesCallbacks
