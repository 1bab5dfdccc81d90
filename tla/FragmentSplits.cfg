CONSTANTS
    Setups <- AllSetups
    Reserve = 3
    MaxUnits = 4
SPECIFICATION Spec
CHECK_DEADLOCK FALSE
INVARIANTS
    FragmentsFit
    ReceiverIsFair
