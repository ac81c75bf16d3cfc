SPECIFICATION Spec
CONSTANTS
    Securities = {"a", "b"}
    MaxDay = 6
    MaxSpells = 3
    MaxActions = 2
    MaxGap = 2
    WindowLength = 4
    Skip = 1
    MaxStaleness = 1
    MinCoverage <- MCMinCoverage
    Sessions <- MCSessions
    Closes <- MCCloses
    Founders = {"b"}
    Suspendable = {"a"}
    Announcements <- MCAnnouncements
    Lookback = 4
    MarkStaleness = 1
INVARIANT DecisionsStand
INVARIANT SlicingIsExact
INVARIANT ChangesCarryMembers
CHECK_DEADLOCK FALSE
