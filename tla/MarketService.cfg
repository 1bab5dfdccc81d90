CONSTANTS
    Peers = {1, 2}
    Keys = {"app", "tab"}
    Values = {"a", "t"}
    Object = "object"
    Absent = "absent"
    Symbols = {"s", "u"}
    Servers <- MCServers
    Dials <- MCDials
    Greetings <- MCGreetings
    Lookups <- MCLookups
    MaxHellos = 2
    Killers = {1, 2}
SPECIFICATION Spec
CHECK_DEADLOCK FALSE
INVARIANTS
    HandshakeSound
    LookupIsExact
    DeadIsGone
    KillIsExact
