SPECIFICATION EntriesSpec

CONSTANTS
  k1 = k1
  k2 = k2
  i1 = i1
  i2 = i2
  m1 = m1
  m2 = m2
  Key = {k1, k2}
  Item = {i1, i2}
  Claim = {m1, m2}
  Material = {m1, m2}
  NoKey = NoKey
  ForcedNote = ForcedNote
  MaxEvents = 2
  Batches <- MCBatches
  Rewrites <- MCRewrites
  MaxDates = 2
  MaxRuns = 2
  MaxFailures = 1
  MaxItems = 2
  LlmEnabled = TRUE
  LlmRequired = FALSE
  RebuildLimit = 2
  Regraded = {}
  Handled = {1}
  HandledIn = {"idle", "dedup", "combine"}
  SavedIn = {"idle"}

INVARIANTS
  ReadyUsedModel
