CONSTANTS
    Symbols = {"s", "u"}
    Intervals = {50, 250}
    Default = 250
    Setups <- MCSetups
SPECIFICATION Spec
CHECK_DEADLOCK FALSE
INVARIANTS
    TicksAreShownOrCounted
    PageIsConsistent
PROPERTIES
    IntervalConverges
