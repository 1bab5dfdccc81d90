CONSTANTS
    DialerOpens = 2
    AcceptorOpens = 0
    Limit = 1
    Serving = {"dialer", "acceptor"}
    MaxFrags = 2
    MaxData = 0
    Setups <- ClosingSetups
    None = None
SPECIFICATION Spec
CHECK_DEADLOCK FALSE
INVARIANT NoProtocolError
