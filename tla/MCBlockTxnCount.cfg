CONSTANTS
  g = g
  x = x
  y = y
  z = z
  d0 = d0
  d1 = d1
  d2 = d2
  a1 = a1
  a2 = a2
  short = short
  n = n
  Unknown = Unknown
  deployer = deployer
  Address = {a1, a2}
  Short = {short}
  Long = {}
  Foreign = {}
  Name = {n}
  v = v
  w = w
  PoS = PoS
  NoData = NoData
  NoBlock = NoBlock
  Block <- MCBlock
  HeightOf <- MCHeightOf
  Deploy <- MCDeploy
  DeploysOf <- MCDeploysOf
  Terms <- MCTerms
  TermOf <- MCTermOf
  DeployerOf <- MCDeployerOf
  Refusable = {d0, d1, d2}
  Bonded = {g, x, y}
  Justified = {x, z}
  GenesisBonds <- MCGenesisBonds
  NodeBonds <- MCNodeBonds
SPECIFICATION Spec
INVARIANT
  CountIsOfBlock
