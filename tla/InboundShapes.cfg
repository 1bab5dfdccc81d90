CONSTANTS
    MaxPayloads = 3
    MaxWire = 2
SPECIFICATION InboundSpec
CHECK_DEADLOCK FALSE
INVARIANTS
    EverybodyIsTold
    DeliveredInOrder
    OneFittingReset
PROPERTIES
    AnswerIsFinal
    LossReachesTheConsumer
    ImplementsConsumer
