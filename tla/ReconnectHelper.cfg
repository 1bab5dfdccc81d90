CONSTANTS
    Setups <- HelperSetups
    Unlimited = Unlimited
    MaxLosses = 2
    MaxFailures = 2
SPECIFICATION FairSpec
CHECK_DEADLOCK FALSE
INVARIANTS
    OncePerLoss
    NothingOutlives
PROPERTIES
    FinalIsFinal
    
    ResetOnlyWhenEstablished
    ReadLoopGone
    NeverStuckBetweenSockets
    CloseEnds
