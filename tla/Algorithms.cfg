SPECIFICATION MCSpec
CONSTANTS
  BitsPerWord = 2
  MaxCUs = 6
  MaxUnit = 3
  Topologies <- MCTopologies
  Kinds <- MCKinds
  Xcps = 1
  Slots = 2
  MaxMoves = 2
INVARIANTS
  WordsAgreeWithSets
  ReadBackIsFaithful
  ReplyFits
  BestScore
  LeastFragmenting
  EverySetOnce
  OneGPUPerId
  StayingIsServed
PROPERTIES
  Terminates
CHECK_DEADLOCK FALSE
