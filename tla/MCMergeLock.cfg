SPECIFICATION Spec
CONSTANTS
  r1 = r1
  r2 = r2
  r3 = r3
  f1 = f1
  f2 = f2
  Run = {r1, r2}
  Feature = {f1, f2}
  Pid = {1, 2}
  FeatureOf <- MCFeatureOf
  MaxStart = 5
  NoPid = NoPid
  NoRecord = NoRecord
  Other = Other
  Faults = {"die", "reuse"}
INVARIANTS ProvedHolder Serialized MergesOnce EndedLeavesNoHolder
CHECK_DEADLOCK FALSE
