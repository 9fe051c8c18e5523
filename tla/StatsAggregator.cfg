SPECIFICATION Spec
CONSTANTS
  t1 = t1
  t2 = t2
  f = f
  u = u
  Threads <- MCThreads
  Keys <- MCKeys
  Unresolved <- MCUnresolved
  Intervals <- MCIntervals
  SemChoices <- MCSemChoices
  Coalesce = TRUE
  WaitMayFail = TRUE
  StartMayFail = TRUE
  MayBeKilled = TRUE
  MaxCalls = 3
  MaxSignals = 2
INVARIANTS
  TypeOK
  NoCallLost
  NoCallTwice
  FlushIsDurable
  ShutdownIsComplete
  CollectorsExclude
SYMMETRY ThreadSymmetry
