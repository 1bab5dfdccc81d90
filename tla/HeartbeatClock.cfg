CONSTANTS
    Interval = 3
    HeartTimeout = 2
    PingTimeout = 3
    MaxPings = 3
    MaxTime = 10
SPECIFICATION Spec
CHECK_DEADLOCK FALSE
INVARIANTS
    DetectedInTime
    PingsAccounted
PROPERTIES
    OwnPong
