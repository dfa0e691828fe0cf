CONSTANTS
  Concurrent = 2
  ThreadFlags = {0, 2}
  Efficiencies = {0, 1}
  WarmupCycles = 2
SPECIFICATION DirectorSpec
INVARIANT WorkersWithinLimits
PROPERTY StalledBoostsYoung
