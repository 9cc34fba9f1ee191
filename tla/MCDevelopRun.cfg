SPECIFICATION FairSpec
CHECK_DEADLOCK FALSE
CONSTANTS
    Feature = {self, other}
    Self = self
    Dynamic = dynamic
    Elsewhere = elsewhere
    Unreadable = unreadable
    MaxItem = 3
    Flags = {{}, {"batch"}, {"batch", "once", "pr"}}
    MaxLaunches = 2
    MaxCrashes = 1
    MaxMends = 1
    MaxCommands = 1
    MaxIncidents = 1
    MaxAnswers = 1
    MaxChanges = 1
INVARIANT CountedIsBounded
PROPERTIES FailedRunIsKept OnlyVerifiedLands BatchTurnEnds CapIsCleanedUp AbortIsKept
