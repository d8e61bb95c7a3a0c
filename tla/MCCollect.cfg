SPECIFICATION CollectSpec
CONSTANTS
    NoPayload = NoPayload
    PageLimit = 2
    MaxPages = 3
    MaxRetries = 1
    MaxPostings = 7
    MaxChanges = 2
    Jobs <- WorkableAndLever
    Threshold = 2
    tok1 = tok1  tok2 = tok2
    Candidates <- TwoTokens
    Probed = "workable"
    MaxRuns = 2
    u1 = u1  u2 = u2  f1 = f1  f2 = f2
    Urls <- TwoUrls
    Files <- TwoFiles
    Labels = {"early uk", "other"}
    MaxSamples = 2
    MaxPool = 2
    MaxTotal = 7
INVARIANTS
    FetchTypeOK
    StillBoardIsFetchedWhole
    TornFetchLosesLittle
    BreakerIsExact
    ResultsFileIsFaithful
    LabelsAreKept
    SampleIsEven
PROPERTIES
    EveryBoardHasItsRow
CHECK_DEADLOCK FALSE
