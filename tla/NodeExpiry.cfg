SPECIFICATION Spec
CONSTANTS
  p1 = p1
  p2 = p2
  p3 = p3
  p4 = p4
  g1 = g1
  g2 = g2
  h1 = h1
  h2 = h2
  Pods = {p1, p2, p3}
  Foreign = {p3}
  GPUs = {g1}
  TotalCUs <- TotalCUs1
  Unit <- Unit1
  Jobs <- SliceJobs
  Handlers = {h1}
  ReleaseAttempts = 2
  MaxFaults = 1
  MaxLosses = 1
  MaxRestarts = 0
  LockExpires = TRUE
  NoPod = NoPod
  NoHandler = NoHandler
SYMMETRY HAMiSymmetry
INVARIANTS
  TypeOK
  DisjointSlices
  PlansStayFree
PROPERTIES
  PersistedCUsGrow
  ReleasesOnlyOwnLock
CHECK_DEADLOCK FALSE
