SPECIFICATION Spec
CONSTANTS
  p1 = p1
  p2 = p2
  g1 = g1
  g2 = g2
  Pods = {p1}
  GPUs = {g1, g2}
  Plan <- MCPlan
  ImageOf <- MCImageOf
  Contents <- MCContents
  Capped = {g1}
  Tries = 9
  MaxFaults = 1
INVARIANTS
  StillHardCap
CHECK_DEADLOCK FALSE
