SPECIFICATION Spec
CONSTANTS
  t1 = t1
  t2 = t2
  f1 = f1
  f2 = f2
  NoFunction = NoFunction
  NoInfo = NoInfo
  Threads <- MCThreads
  Functions <- MCFunctions
  Identities <- MCAllIdentities
  Filters <- MCDocumentedFilters
  Failures <- MCNoFailures
  MaxDepth = 1
  MaxUnloads = 0
INVARIANT WildcardsDocumented
CHECK_DEADLOCK FALSE
