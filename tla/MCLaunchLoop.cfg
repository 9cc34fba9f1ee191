SPECIFICATION FairSpec
CONSTANTS
  Task = {1, 2, 3}
  Slots = 2
  MaxBlocks = 1
  MaxLines = 6
  FaultSets = {{"commit", "die"}, {"quiet", "sidecar"}}
INVARIANTS BooksMatchJournal WorkLeftIsCapped
PROPERTIES NoAutomaticRetry TurnEnds FailureIsAsked
CHECK_DEADLOCK FALSE
