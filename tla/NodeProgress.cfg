SPECIFICATION FairSpec
CONSTANTS
  p1 = p1
  p2 = p2
  p3 = p3
  p4 = p4
  g1 = g1
  g2 = g2
  h1 = h1
  h2 = h2
  Pods = {p1, p2}
  Foreign = {}
  GPUs = {g1}
  TotalCUs <- TotalCUs1
  Unit <- Unit1
  Jobs <- PairOrWhole
  Handlers = {h1, h2}
  ReleaseAttempts = 2
  MaxFaults = 0
  MaxLosses = 0
  MaxRestarts = 1
  LockExpires = FALSE
  NoPod = NoPod
  NoHandler = NoHandler
PROPERTIES
  LockReleasedWithoutFaults
  PodsSettle
  CallsAnswered
CHECK_DEADLOCK FALSE
