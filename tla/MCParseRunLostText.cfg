SPECIFICATION Spec
CONSTANTS
    b1 = b1  b2 = b2  i1 = i1  i2 = i2  i3 = i3  c1 = c1  c2 = c2  d1 = d1  d2 = d2
    NoContent = NoContent
    NoDetail = NoDetail
    NoPayload = NoPayload
    Boards <- OneBoard
    TwoStage <- None
    Configurable <- None
    Ids <- TwoIds
    Contents <- TwoContents
    Details <- None
    MinPrevious = 2
    RetentionDays = 1
    ChunkSize = 1
    MaxFetches = 3
    MaxDay = 1
    MaxDuplicates = 0
    MaxCrashes = 1
SYMMETRY Interchangeable
INVARIANTS
    StrippedTextIsKept
