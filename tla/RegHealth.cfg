SPECIFICATION Spec
CONSTANTS
  g1 = g1
  g2 = g2
  r1 = r1
  r2 = r2
  GPUs = {g1}
  Plugins = {r1}
  Partitionable = {}
  Reports = {FALSE}
  MaxChanges = 2
  MaxFaults = 0
  MaxCrashes = 0
INVARIANTS
  HealthyMeansOpenable
CHECK_DEADLOCK FALSE
