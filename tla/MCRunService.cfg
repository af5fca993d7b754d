SPECIFICATION FairSpec

CONSTANTS
  MaxRuns = 2
  Spawned = {s1, s2}
  Cli = {}
  NoWorker = NoWorker
  MaxKills = 1
  MaxCrashes = 0
  MaxSpawnErrors = 0

PROPERTIES
  RunsEnd
  LockIsFreed

CHECK_DEADLOCK FALSE
