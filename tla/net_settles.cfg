SPECIFICATION HealthySpec
CONSTANTS
    Memory <- TwoMemories
    ForcedChoices <- BothModes
    Fallback = 1100
    MinQueue = 1
    MatchBudget = 2
    OtherBudget = 1
    MaxBag = 2
    MaxMoves = 1
INVARIANT TypeOK
PROPERTIES NetFollows DrainEnds BagServed
