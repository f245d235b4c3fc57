SPECIFICATION FairSpec
CONSTANTS
  g1 = g1
  g2 = g2
  GPUs = {g1, g2}
  Types = {"spx_nps1", "cpx_nps1"}
  Kinds <- MCKinds
  Strategies = {"single", "mixed"}
  Pulses = {TRUE, FALSE}
  MaxChanges = 2
INVARIANTS
  TypeOK
  BeatTellsTruth
  OfferedOnce
PROPERTIES
  StaleStreamsEnd
  KubeletFollows
CHECK_DEADLOCK FALSE
