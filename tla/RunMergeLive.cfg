SPECIFICATION Spec
CONSTANTS
  Unset = Unset
  TooLong = TooLong
  Session = "a1b2c3"
  Pids = {p1, p2}
  Platforms = {"posix", "windows"}
  MaxRuns = 1
  MaxProcesses = 2
  MaxLines = 2
  Templates <- MCTemplate
INVARIANTS
  NoLineDropped
SYMMETRY Symmetry
CHECK_DEADLOCK FALSE
