SPECIFICATION Spec
CONSTANTS
  p1 = p1
  p2 = p2
  p3 = p3
  p4 = p4
  g1 = g1
  g2 = g2
  h1 = h1
  h2 = h2
  Pods = {p1, p2, p3}
  Foreign = {}
  GPUs = {g1, g2}
  TotalCUs <- TotalCUs2
  Unit <- Unit2
  Jobs <- MixedJobs
  Handlers = {h1}
  ReleaseAttempts = 2
  MaxFaults = 2
  MaxLosses = 1
  MaxRestarts = 0
  LockExpires = FALSE
  NoPod = NoPod
  NoHandler = NoHandler
SYMMETRY PodSymmetry
INVARIANTS
  MasksNeverOverlap
  SlotServesItsContainer
  LockedUntilPersisted
  BookedCUsAreFree
  SuccessIsComplete
PROPERTIES
  ImplementsLedger
CHECK_DEADLOCK FALSE
