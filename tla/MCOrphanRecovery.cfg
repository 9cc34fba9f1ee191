SPECIFICATION MCSpec
CONSTANTS
  l1 = l1
  s1 = s1
  s2 = s2
  s3 = s3
  Session = {s1, s2, s3}
  Launch = {l1, l2}
  NoLaunch = NoLaunch
  NoEntry = NoEntry
  MaxClock = 3
  Tolerance = 1
  MinRun = 2
  FaultSets = {{"lost", "noindex", "late", "brisk"}, {"concurrent"}}
PROPERTIES RecoveredIsGone OrphanRecovered
CHECK_DEADLOCK FALSE
