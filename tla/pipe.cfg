SPECIFICATION FairSpec
CONSTANTS
  xnm = xnm
  xuni = xuni
  row = row
  broken = broken
  Hash <- Digests
  Xuni <- XuniHits
  Backlog <- Rows
  Broken <- BrokenRows
  Parallel = 2
  Setups <- Processes
INVARIANTS
  TypeOK
  NothingLost
  OneOwner
  AcceptedIsDone
  WaveBacked
  EndsKept
PROPERTIES ImplementsLedger ShutdownCompletes
