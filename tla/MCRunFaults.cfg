SPECIFICATION Spec

CONSTANTS
  MaxRuns = 2
  Spawned = {s1}
  Cli = {c1}
  NoWorker = NoWorker
  MaxKills = 0
  MaxCrashes = 1
  MaxSpawnErrors = 1

INVARIANTS
  TypeOK
  OnePipelineWorker
  PublishedFilesMatch
  NobodyLeftBehind

PROPERTIES
  ImplementsPublication

CHECK_DEADLOCK FALSE
