SPECIFICATION FairSpec
CONSTANTS
    Window = 2
    SegmentDuration = 1
    MemoryCeiling = 3
    ResidentBudget = 1
    SpillQueue = 1
    Kinds = {TRUE, FALSE}
    DiskFails = TRUE
    Saves = {s1}
    Lengths <- MCLengths
    MaxTime <- MCTime
    MaxPackets <- MCPackets
    MaxAudio <- MCAudio
    NoSegment = NoSegment
    None = None
INVARIANTS WindowIsWhole CompleteIsCurrent FilesAreKept
PROPERTY EndingRecordingEnds
CHECK_DEADLOCK FALSE
