SPECIFICATION MCSpec
CONSTANTS
    Keys = {w}
    Buttons = {0, 2}
    Sizes = {s1, s2}
    InitialSize = s1
    MaxX = 1
    MaxAngle = 1
    MaxQueue = 3
    mAvgRange = 2
    Stamps = 4
    Axes = {x}
    Size = 4
    Steps <- MCSteps
    MaxTravel = 10
    ArgSizes = {s2, NoSize}
    NoSize = NoSize
INVARIANT TypeOK
INVARIANT NoStuckKey
INVARIANT GrabEndsWithButtons
INVARIANT DragFollowsHand
INVARIANT ClickOwesRay
INVARIANT AverageOfLastRuns
INVARIANT TravelKept
INVARIANT ViewportFollowsUser
PROPERTY SettlesInMiddle
CHECK_DEADLOCK FALSE
