CONSTANTS
    DialerOpens = 1
    AcceptorOpens = 1
    Limit = 1
    Serving = {"acceptor"}
    MaxFrags = 1
    MaxData = 2
    Setups <- StreamsSetups
    None = None
SPECIFICATION FairSpec
CHECK_DEADLOCK FALSE
INVARIANTS
    NoProtocolError
    DeliveredAll
    Graceful
PROPERTIES
    Answered
