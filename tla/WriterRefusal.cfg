CONSTANTS
    IsDialer = TRUE
    MaxStreamId = 2
    Remote = {2}
    MaxFrags = 2
    MaxFrames = 3
    Refusing = TRUE
    None = None
SPECIFICATION FairSpec
CHECK_DEADLOCK FALSE
INVARIANTS
    OpenFirst
    ResetIsLast
PROPERTIES
    DrainReturns
    FailureIsReported
    ImplementsSendPath
