SPECIFICATION HotSpec
CONSTANTS
  a = a
  b = b
  x = x
  NoMethod = NoMethod
  Methods <- MCMethods
  Included <- MCIncluded
  AsyncMethods <- MCAsync
  Events <- MCEvents
  Ticks <- MCTicks
  HandlerCalls = TRUE
  NestedThrows = FALSE
  MaxDepth = 4
  MaxTime = 7
INVARIANTS
  TypeOK
  ShadowMirrorsRuntime
  CallsConserved
  InclusiveTimeExact
  RegularSelfTimeExact
  AsyncNestingBounded
  ReplayDepth
  HotspotsCountExact
  HotspotsExact
PROPERTY
  DeltaTimeExact
CHECK_DEADLOCK FALSE
