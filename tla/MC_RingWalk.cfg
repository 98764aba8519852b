SPECIFICATION Spec
CONSTANT VisibleRadius = 7
CHECK_DEADLOCK FALSE
INVARIANT SlotsFit
INVARIANT SlotsDistinct
INVARIANT DiamondFilled
INVARIANT MiddlePickedButOne
