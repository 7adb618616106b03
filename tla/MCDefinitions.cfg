SPECIFICATION MCSpec
CONSTANTS
  Overrides <- MCOverrides
  Paths <- MCPaths
  Inputs <- MCInputs
  Documents <- MCDocuments
  MaxBuilds = 2
  ta = ta
  tb = tb
  tc = tc
  bad = bad
  Topologies <- MCTopologies
  BadNames = {bad}
  sa = sa
  sb = sb
  sc = sc
  sd = sd
  n1 = n1
  n2 = n2
  n3 = n3
  n4 = n4
  n5 = n5
  NoService = NoService
  NoName = NoName
  Services <- MCServices
  Names <- MCNames
  Files <- MCFiles
  Ids = {c1, c2, c3}
CHECK_DEADLOCK FALSE
INVARIANT TypesOK
INVARIANT SaysWhatLayersSay
INVARIANT GraphServesSteps
INVARIANT ValidatesRightly
INVARIANT LoadsRightly
INVARIANT DetectsExactly
