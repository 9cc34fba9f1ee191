SPECIFICATION Spec
CONSTANTS
  l1 = l1
  s1 = s1
  s2 = s2
  s3 = s3
  Session = {s1, s2}
  Launch = {l1, l2}
  NoLaunch = NoLaunch
  NoEntry = NoEntry
  MaxClock = 4
  Tolerance = 1
  MinRun = 2
  FaultSets = {{"concurrent", "idle"}}
SYMMETRY Symmetry
INVARIANT JudgedGoneIsGone
CHECK_DEADLOCK FALSE
