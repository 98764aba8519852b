SPECIFICATION ExitSpec
CONSTANTS
    VisibleRadius = 1
    Directions <- East
    MaxMoves = 1
    MaxEdits = 1
    Main = Main
    NoThread = NoThread
    NoTask = NoTask
    NoChunk = NoChunk
INVARIANT SavedIsWhole
