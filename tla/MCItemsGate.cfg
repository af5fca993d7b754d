SPECIFICATION Spec

CONSTANTS
  Source = {s1, s2}
  Url = {u1, u2}
  Content = {h1, h2}
  NoRow = NoRow
  PerSource = 2
  MaxCandidates = 3
  WritesFail = FALSE
  MaxRuns = 2

SYMMETRY ItemsSymmetry

CHECK_DEADLOCK FALSE

INVARIANTS
  OnlyGatedReachesModel
