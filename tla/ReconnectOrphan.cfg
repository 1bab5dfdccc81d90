CONSTANTS
    Setups <- OrphanSetups
    Unlimited = Unlimited
    MaxLosses = 2
    MaxFailures = 2
SPECIFICATION Spec
CHECK_DEADLOCK FALSE
PROPERTY NoStreamSurvives
