SPECIFICATION Spec
CONSTANTS
    b1 = b1  b2 = b2  i1 = i1  i2 = i2  i3 = i3  c1 = c1  c2 = c2  d1 = d1  d2 = d2
    NoContent = NoContent
    NoDetail = NoDetail
    NoPayload = NoPayload
    Boards <- OneBoard
    TwoStage <- OneBoard
    Configurable <- OneBoard
    Ids <- TwoIds
    Contents <- OneContent
    Details <- OneDetail
    MinPrevious = 3
    RetentionDays = 0
    ChunkSize = 2
    MaxFetches = 4
    MaxDay = 0
    MaxDuplicates = 0
    MaxCrashes = 0
SYMMETRY Interchangeable
INVARIANTS
    DroppedBoardsAreClosed
    OpenPostingsMatchFeed
PROPERTIES
    KeepsLifecycle
