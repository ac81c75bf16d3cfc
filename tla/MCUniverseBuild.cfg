\* A replayed history, a bound on revisions and the horizon end the behaviour.
SPECIFICATION MCSpec
CONSTANTS
    Companies = {1, 2}
    Entries <- MCEntries
    Malformed = {"A."}
    BadIsins = {"bad"}
    SeedCode = "F"
    MaxEdits = 3
    MaxCrashes = 1
    MaxReseeds = 2
    Absent = "none"
    Codes = {1, 2, 3}
    SecurityOf <- MCSecurityOf
    Windows <- MCWindows
    Days = {1, 2, 3}
    MaxKills = 1
    Securities = {1, 2, 3}
    TickersOf <- MCTickersOf
    Adjudicated <- MCAdjudicated
    SeriesEndGap = 1
    MatchWindow = 2
    Horizon = 8
INVARIANT KnownHistoryIsExact
INVARIANT CleanMeansNothingForced
INVARIANT AlwaysLoads
INVARIANT OneSecurityACompany
INVARIANT RightCode
INVARIANT ReasonsAreEvidence
CHECK_DEADLOCK FALSE
