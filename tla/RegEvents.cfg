SPECIFICATION Spec
CONSTANTS
  g1 = g1
  g2 = g2
  r1 = r1
  r2 = r2
  GPUs = {g1, g2}
  Plugins = {r1}
  Partitionable = {g1, g2}
  Reports = {TRUE}
  MaxChanges = 3
  MaxFaults = 1
  MaxCrashes = 1
SYMMETRY GPUSymmetry
INVARIANTS
  TypeOK
  EventsMatchAnnotation
  NoRepeatedEvent
PROPERTIES
  KeepsKnownGPUs
  ModeSwitchWarned
CHECK_DEADLOCK FALSE
