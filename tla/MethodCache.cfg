SPECIFICATION Spec
CONSTANTS
  t1 = t1
  t2 = t2
  f1 = f1
  f2 = f2
  NoFunction = NoFunction
  NoInfo = NoInfo
  Threads <- MCThreads
  Functions <- MCFunctions
  Identities <- MCIdentities
  Filters <- MCFilters
  Failures <- MCFailures
  MaxDepth = 2
  MaxUnloads = 1
INVARIANTS
  TypeOK
  ShadowAligned
  DecisionExact
  NamesExact
PROPERTY
  ImplementsDecisions
SYMMETRY Symmetry
CHECK_DEADLOCK FALSE
