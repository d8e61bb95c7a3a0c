SPECIFICATION WebSpec
CONSTANTS
    t1 = t1  t2 = t2  b1 = b1  b2 = b2  i1 = i1  i2 = i2
    NoSnapshot = NoSnapshot
    NoThread = NoThread
    NotAsked = NotAsked
    Unavailable = Unavailable
    Failed = Failed
    Threads <- TwoThreads
    Ttl = 2
    Backoff = 1
    MaxClock = 3
    MaxCommits = 1
    MaxRequests = 2
    Boards <- TwoBoards
    Ids <- TwoIds
    UkEarly <- OneId
    FloorWindow = 1
    NewWindow = 2
    MonthDays = 3
    Retention = 2
    MaxTime = 5
    MaxRows = 3
    MaxEntries = 2
    MaxFragments = 2
INVARIANTS
    NewIsNeverAGuess
CHECK_DEADLOCK FALSE
