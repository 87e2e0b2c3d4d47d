SPECIFICATION Spec
CONSTANTS
  h1 = h1
  h2 = h2
  h3 = h3
  Hash <- Digests
  SaveEvery = 2
  MaxLines = 3
  MaxId = 5
  MaxCuts = 1
  CrashInWrite = TRUE
  SaveMayFail = TRUE
SYMMETRY Symmetry
INVARIANTS
  TypeOK
  IndexExact
  SnapshotSound
  JournalCovers
PROPERTY IdsNotReused
