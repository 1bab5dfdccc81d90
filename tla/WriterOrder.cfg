CONSTANTS
    IsDialer = TRUE
    MaxStreamId = 3
    Remote = {}
    MaxFrags = 2
    MaxFrames = 4
    Refusing = FALSE
    None = None
SPECIFICATION Spec
CHECK_DEADLOCK FALSE
INVARIANTS
    WireInOrder
    RotationIsFair
    NoWorkForgotten
