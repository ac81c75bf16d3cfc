SPECIFICATION FactsSpec
CONSTANTS
    Facts = {"revenue", "equity"}
    Years = {2020, 2021}
    MaxSequence = 3
    MaxTime = 3
    MaxBatch = 2
    MaxDeliveries = 2
    FactYear <- MCFactYear
    Keys <- MCKeys
    YearOf <- MCYearOf
    Observations <- MCObservations
INVARIANT SeriesSound
PROPERTY AnswersStand
CHECK_DEADLOCK FALSE
