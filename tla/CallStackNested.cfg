SPECIFICATION HotSpec
CONSTANTS
  a = a
  b = b
  x = x
  NoMethod = NoMethod
  Methods <- MCMethods
  Included <- MCIncluded
  AsyncMethods <- MCAsync
  Events <- MCEvents
  Ticks <- MCTicks
  HandlerCalls = TRUE
  NestedThrows = TRUE
  MaxDepth = 4
  MaxTime = 7
INVARIANT ShadowMirrorsRuntime
CHECK_DEADLOCK FALSE
