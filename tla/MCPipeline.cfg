SPECIFICATION FairSpec
CONSTANTS
    w1 = w1  w2 = w2  i1 = i1  i2 = i2  i3 = i3
    NoPayload = NoPayload
    Companies <- OneCompany
    Configurable <- OneCompany
    Ids <- ThreeIds
    EarlyCareers <- TwoIds
    Limit = 1
    MaxFetches = 3
    MaxFailures = 1
INVARIANTS
    TypeOK
    DetailsJoined
    LocationIsCurrent
    SeniorityLagsOnlyOnTie
PROPERTIES
    SuccessCertifiesCycle
    DetailsFetchedOnce
    BacklogIsWorkedOff
