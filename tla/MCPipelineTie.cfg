SPECIFICATION Spec
CONSTANTS
    w1 = w1  w2 = w2  i1 = i1  i2 = i2  i3 = i3
    NoPayload = NoPayload
    Companies <- OneCompany
    Configurable <- None
    Ids <- OneId
    EarlyCareers <- OneId
    Limit = 1
    MaxFetches = 2
    MaxFailures = 0
INVARIANTS
    ClassificationSeesDetail
