SPECIFICATION FairSpec
CONSTANTS
  p1 = p1
  p2 = p2
  g1 = g1
  g2 = g2
  Pods = {p1, p2}
  GPUs = {g1, g2}
  Plan <- MCPlan
  ImageOf <- MCImageOf
  Contents <- MCContents
  Capped = {g1}
  Tries = 2
  MaxFaults = 1
INVARIANTS
  TypeOK
  LimitLostForACause
  CapsAreTheirPods
  OnePull
PROPERTIES
  MissingIsPulled
  BackgroundEnds
CHECK_DEADLOCK FALSE
