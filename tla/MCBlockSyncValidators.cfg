CONSTANTS
  g = g
  a1 = a1
  b1 = b1
  b2 = b2
  c1 = c1
  c2 = c2
  d1 = d1
  NoBlock = NoBlock
  Block <- MCBlock
  HeightOf <- MCHeightOf
  StartFrom = 0
  BatchSize = 2
  Justified = {a1, b1, c1}
  Rejected = {}
  LateReject = {a1}
  Stray = {}
SPECIFICATION ClaimsSpec
INVARIANT ValidatorsWithBlock
