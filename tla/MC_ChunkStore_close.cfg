SPECIFICATION Spec
CONSTANTS
    Size = 7
    Terrain <- SmallTerrain
    Base = 2
INVARIANT SaveTellsTruth
