SPECIFICATION FairSpec
CONSTANTS
  g1 = g1
  g2 = g2
  r1 = r1
  r2 = r2
  GPUs = {g1}
  Plugins = {r1, r2}
  Partitionable = {}
  Reports = {TRUE, FALSE}
  MaxChanges = 1
  MaxFaults = 1
  MaxCrashes = 1
PROPERTIES
  Converges
CHECK_DEADLOCK FALSE
