SPECIFICATION Spec
CONSTANTS
    h1 = h1
    h2 = h2
    h3 = h3
    Hash <- Digests
    SaveEvery = 3
    MaxLines = 3
    MaxId = 5
    MaxCuts = 2
    CrashInWrite = FALSE
    SaveMayFail = FALSE
INVARIANTS LossBounded NoResurrection
PROPERTY ImplementsLossyBag
