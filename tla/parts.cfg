SPECIFICATION FairSpec
CONSTANTS
  N = 4
  Wave = 1
  Kinds = {"XNM", "XBLK", "XUNI"}
  Fates = {"accept", "hold"}
  Lane = {1, 2}
  KeyWorker = {11, 12, 13}
  Counts = {1, 4}
  MaxFills = 2
  Process = {1, 2, 3}
  PlannedSizes = {5, 8}
  StartPct = 70
  MinPct = 50
  Step = 1
  Target = 80
  Cap = 84
  GpuCap = 87
  Readings <- SampleReadings
  Memory = {100, 1100, 9000}
  TooBig = {9000}
  Pinned = 100
  LaneCaps = {1, 2}
  MaxFaults = 2
  Floor = 3
  Idle = 8
  MaxWait = 2
  MaxFetch = 1
  DevFeePct = 1
  MaxHits = 2
  Totals = {4096, 8192, 24564, 131072}
  Percents <- SamplePercents
  Targets = {0, 6000}
  Overheads = {512, 4096}
  Hundreds = {1, 11, 100, 900}
  LaneLimits = {0, 3}
  Batches = {0, 50}
  MaxBatches = {0, 40}
  CoreCounts = {1, 2, 3, 4, 5, 6, 7, 8, 9, 12, 16, 17, 24}
  Settings <- SampleSettings
  Limit = 2
  MaxReports = 6
  SoftCap = 4
  ResumeAt = 2
  EveryN = 3
  MaxLanes = 2
  MaxXuni = 5
  ProbeTtl = 2
  WavePause = 2
  ShortPause = 3
  LongPause = 6
  DeferPause = 3
  Lowest = 100000
  Highest = 350500
  PowerTarget = 90
  PowerMin = 60
  WarnGpu = 70
  MaxGpu = 85
  WarnMem = 75
  MaxMem = 90
  Heats <- SampleHeats
  Reference = 100
  Loads = {100, 130, 400}
  MaxSessions = 2
INVARIANTS
  BatchIsRight
  FillComplete
  NoFillForgotten
  OneMiner
  ThreadsHaveLanes
  RefreshIsPrompt
  FeeShare
  PlanFits
  CoresApart
  NewestWait
  FlushNotFrozen
  LimitRestored
PROPERTIES
  HuntsSparsely
  CutsStayAboveFloor
  FillEnds
  EngineComesBack
CHECK_DEADLOCK FALSE
