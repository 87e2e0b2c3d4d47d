SPECIFICATION FairSpec
CONSTANTS
    user = user
    fee = fee
    NoProto = NoProto
    Error = Error
    Lanes = 2
    Ring = 2
    Proto <- OneProto
    MaxErrors = 1
PROPERTY LanesStream
CHECK_DEADLOCK FALSE
