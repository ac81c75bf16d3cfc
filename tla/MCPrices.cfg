\* A clock, a tape or a number of runs at its bound ends the behaviour.
SPECIFICATION MCSpec
CONSTANTS
    Keys = {1, 2, 3}
    Years = {1, 2}
    YearOf <- MCYearOf
    Closes = {1, 2}
    MaxClock = 4
    Calendar <- MCCalendar
    NoDay = 0
    Listings <- MCListings
    Offered <- MCOffered
    Actions <- MCActions
    ActionWindow = 1
    StaleRunDays = 2
    MedianWindow = 2
    MinSamples = 1
    OutlierMultiple = 10
    MaxArrivals = 5
INVARIANT NoDuplicates
PROPERTY NeverRewritten
INVARIANT QuietReadsReproduce
INVARIANT StoredIsTrue
INVARIANT ReportsStand
INVARIANT GapsExact
CHECK_DEADLOCK FALSE
