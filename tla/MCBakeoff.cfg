\* A finished run, answers that were checked and a bound on pages or cells end the behaviour.
SPECIFICATION MCSpec
CONSTANTS
    Order <- MCOrder
    Pages <- MCPages
    MaxAttempts = 2
    MaxRetries = 2
    MaxCrashes = 2
    Entries <- MCEntries
    Answer <- AnswerOf
    MaxPages <- MCMaxPages
    ExWindow = 1
    EndTolerance = 1
    Depth = 2
    JoinGap = 1
    JoinWindow = 3
    MaxGap = 5
    Offered <- StatementPages
    MaxStatementPages = 4
    Restatement <- MCRestatement
    AssumedLag <- MCAssumedLag
    Today = 60
    Epoch = 10
    Month = 10
    Share <- MCShare
    MinSample = 3
    Providers = {1, 2}
    CellRecords <- ScoredCells
    MaxCells = 4
    Weight <- MCWeight
    DeclaredCriteria = {"cost"}
    Declared <- MCDeclared
    Veto <- MCVeto
    Needs <- MCNeeds
    Margin = 5
    Null = Null
    Unreadable = Unreadable
    NotAnObject = NotAnObject
    NotAList = NotAList
    Nothing = Nothing
INVARIANT EvidenceReadable
INVARIANT OneRecordACell
INVARIANT NeverRefetched
PROPERTY RunCompletes
INVARIANT PassMeansStated
INVARIANT FaithfulPasses
INVARIANT MeasuredRight
INVARIANT RecommendedIsBest
CHECK_DEADLOCK FALSE
