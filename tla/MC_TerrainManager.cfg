SPECIFICATION FairSpec
CONSTANTS
    VisibleRadius = 1
    Directions <- EastOrCorner
    MaxMoves = 1
    MaxEdits = 1
    Main = Main
    NoThread = NoThread
    NoTask = NoTask
    NoChunk = NoChunk
INVARIANT TypeOK
INVARIANT DrawnMeshesInPlace
INVARIANT GeneratedForItsPlace
INVARIANT NoChunkForgotten
INVARIANT QueuedWorkHasThread
INVARIANT DrawnMeshesWhole
INVARIANT GeneratedIsFinished
PROPERTY EditsUndoneOnlyAgain
PROPERTY FramesGoOn
PROPERTY EventuallyAllShown
