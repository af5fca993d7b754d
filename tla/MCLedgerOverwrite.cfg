SPECIFICATION LedgerSpec

CONSTANTS
  Key = {k1, k2}
  Item = {i1}
  Claim = {m1, n1}
  Material = {m1}
  NoKey = NoKey
  MaxEvents = 2

PROPERTIES
  NewsKept
