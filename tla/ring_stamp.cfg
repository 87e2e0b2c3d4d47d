SPECIFICATION Spec
CONSTANTS
    user = user
    fee = fee
    NoProto = NoProto
    Error = Error
    Lanes = 2
    Ring = 2
    Proto <- TwoProtos
    MaxErrors = 0
INVARIANT StampMatches
