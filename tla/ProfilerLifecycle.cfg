SPECIFICATION Spec
CONSTANTS
  Unset = Unset
  TooLong = TooLong
  Pid = Pid
  Environments <- MCEnvironments
  MaxTime = 5
INVARIANTS
  TypeOK
  EventsServed
  FailedStartQuiet
  GcDurationExact
  StoppedComplete
CHECK_DEADLOCK FALSE
