SPECIFICATION MCSpec
CONSTANTS
    Keys = {w}
    Buttons = {2}
    Sizes = {s1, s2}
    InitialSize = s1
    MaxX = 0
    MaxAngle = 0
    MaxQueue = 1
    mAvgRange = 1
    Stamps = 3
    Axes = {x}
    Size = 4
    Steps <- MCSteps
    MaxTravel = 10
    ArgSizes = {s2, NoSize}
    NoSize = NoSize
INVARIANT ViewportFits
CHECK_DEADLOCK FALSE
