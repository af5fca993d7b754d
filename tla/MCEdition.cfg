SPECIFICATION Spec

CONSTANTS
  k1 = k1
  k2 = k2
  i1 = i1
  i2 = i2
  m1 = m1
  m2 = m2
  Key = {k1, k2}
  Item = {i1, i2}
  Claim = {m1, m2}
  Material = {m1, m2}
  NoKey = NoKey
  MaxEvents = 2
  Batches <- MCBatches
  MaxDates = 2
  MaxRuns = 3
  MaxFailures = 1
  MaxItems = 2
  RebuildLimit = 1
  LlmEnabled = FALSE
  LlmRequired = FALSE
  Regraded = {1}
  Handled = {1}
  HandledIn = {"idle", "combine"}
  SavedIn = {"idle", "combine"}

INVARIANTS
  EditionTypeOK
  ReappearsOnlyWithNews
  NewsReachesEdition
  RebuildKept
