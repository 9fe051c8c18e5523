SPECIFICATION Spec
CONSTANTS
  t1 = t1
  t2 = t2
  t3 = t3
  NoLine = NoLine
  Threads <- MCThreads
  Lens <- MCLens
  LineMax = 8
  BufferSize = 10
  MaxEvents = 1
  Opens <- MCOpens
  IoMayFail = TRUE
  MaxLines = 4
INVARIANTS
  TypeOK
  BufferBounded
  OvershootBounded
  CountExact
  NothingLost
  FileInOrder
PROPERTY
  ImplementsEventLog
CHECK_DEADLOCK FALSE
