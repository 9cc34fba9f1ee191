CONSTANTS
  MaxId = 3
  MaxPass = 3
  MaxCrashes = 1
  MaxSpecChanges = 1
SPECIFICATION FairSpec
INVARIANTS
  StartedIsKept
  UnverifiedIsNotCommitted
PROPERTIES
  ScenariosSurvive
  CompletedIsApplied
  PassEnds
CHECK_DEADLOCK FALSE
