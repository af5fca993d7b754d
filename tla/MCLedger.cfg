SPECIFICATION Spec

CONSTANTS
  k1 = k1
  k2 = k2
  k3 = k3
  i1 = i1
  i2 = i2
  m1 = m1
  n1 = n1
  Key = {k1, k2, k3}
  Item = {i1, i2}
  Claim = {m1, n1}
  Material = {m1}
  NoKey = NoKey
  MaxEvents = 2
  Origins <- MCOrigins
  FallbackKey <- MCFallbackKey
  Answers <- MCAnswers
  MaxRuns = 3
  MaxUpgrades = 1

CHECK_DEADLOCK FALSE

INVARIANTS
  StagesTypeOK
  LedgerTypeOK
  KeysUnique
  AliasesResolve
  DeltaRecorded
  MergeLosesNothing
  EveryItemDisposed
  FreshPassesGate
  OutageSparesOfficial

PROPERTIES
  NewsOnce
  GateKept
