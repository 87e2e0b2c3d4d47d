SPECIFICATION FairSpec
CONSTANTS
    user = user
    fee = fee
    NoProto = NoProto
    Error = Error
    Lanes = 2
    Ring = 3
    Proto <- TwoProtos
    MaxErrors = 1
INVARIANT NobodyOversleeps
PROPERTIES ImplementsStream WaitEnds StopJoins
CHECK_DEADLOCK FALSE
