SPECIFICATION Spec
CONSTANTS
  Unset = Unset
  TooLong = TooLong
  Session = "a1b2c3"
  Pids = {p1, p2, p3}
  Platforms = {"posix", "windows"}
  MaxRuns = 2
  MaxProcesses = 2
  MaxLines = 1
  Templates <- MCTemplates
INVARIANTS
  TypeOK
  TracesSafe
  MergedComplete
  MergedOnce
SYMMETRY Symmetry
CHECK_DEADLOCK FALSE
