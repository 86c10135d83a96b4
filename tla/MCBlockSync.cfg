CONSTANTS
  g = g
  a1 = a1
  b1 = b1
  b2 = b2
  c1 = c1
  c2 = c2
  d1 = d1
  NoBlock = NoBlock
  Block <- MCBlock
  HeightOf <- MCHeightOf
  StartFrom = 1
  BatchSize = 2
  Justified = {b1, c1}
  Rejected = {d1}
  LateReject = {b1, c1}
  Stray = {b2}
SPECIFICATION FairClaimsSpec
INVARIANTS
  TypeOK
  CursorComplete
PROPERTIES
  CursorNeverBack
  ImplementsChain
  ImplementsWriter
  CatchesUp
