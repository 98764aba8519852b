SPECIFICATION Spec
CONSTANTS Outer = 1
          Middle = 2
          Inner = 4
CHECK_DEADLOCK FALSE
INVARIANT TypeOK
INVARIANT QuadsShowVoxels
INVARIANT SolidCellsOnce
INVARIANT QuadsMaximal
