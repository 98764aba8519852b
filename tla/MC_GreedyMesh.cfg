SPECIFICATION Spec
CONSTANTS
    SizeX = 3
    SizeY = 5
    SizeZ = 3
    BedrockY = 1
    StoneY = 1
    MeshedY = 4
    HeightMaps <- SomeHeightMaps
    MaxEdits = 1
CHECK_DEADLOCK FALSE
INVARIANT SameFacesAsNaive
INVARIANT SurfaceClosed
INVARIANT FacesLit
