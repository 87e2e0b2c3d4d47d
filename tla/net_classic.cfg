SPECIFICATION HealthySpec
CONSTANTS
    Memory <- TwoMemories
    ForcedChoices <- ClassicMode
    Fallback = 1100
    MinQueue = 1
    MatchBudget = 2
    OtherBudget = 1
    MaxBag = 0
    MaxMoves = 1
PROPERTY EngineFollows
