SPECIFICATION HotSpec
CONSTANTS
  a = a
  b = b
  x = x
  NoMethod = NoMethod
  Methods <- MCMethods
  Included <- MCIncluded
  AsyncMethods <- MCAsync
  Events <- MCEventsOfReadme
  Ticks <- MCTicks
  HandlerCalls = FALSE
  NestedThrows = FALSE
  MaxDepth = 4
  MaxTime = 7
PROPERTY DeltaTimeExact
CHECK_DEADLOCK FALSE
