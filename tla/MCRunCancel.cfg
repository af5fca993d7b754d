SPECIFICATION Spec

CONSTANTS
  MaxRuns = 2
  Spawned = {s1}
  Cli = {c1}
  NoWorker = NoWorker
  MaxKills = 0
  MaxCrashes = 0
  MaxSpawnErrors = 0

PROPERTIES
  CancelledStaysDown

CHECK_DEADLOCK FALSE
