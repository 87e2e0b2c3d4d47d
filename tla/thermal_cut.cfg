SPECIFICATION Spec
CONSTANTS
  PlannedSizes = {8}
  StartPct = 70
  MinPct = 50
  Step = 1
  Target = 80
  Cap = 84
  GpuCap = 87
  Readings <- WarmingUp
PROPERTY CutsAtTheCap
