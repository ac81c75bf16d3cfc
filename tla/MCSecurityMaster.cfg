SPECIFICATION Spec
CONSTANTS
    Securities = {"a", "b"}
    Mics = {"XLON", "XNYS"}
    Values = {"A", "B"}
    Terminal = {"ACQUIRED"}
    MaxDay = 3
    MaxTime = 2
    MaxEvents = 3
    Foundings <- MCFoundings
INVARIANT ViewsSound
PROPERTY PastDaysKept
PROPERTY HistoryKept
CHECK_DEADLOCK FALSE
