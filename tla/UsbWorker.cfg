SPECIFICATION FairSpec
CONSTANTS
  RingBlocks = 2
  DrainCallbacks = 2
  MaxStreams = 3
  MaxBlocks = 3
  MaxSends = 1
  MaxFaults = 2
INVARIANTS
  PlaysItsOwn
  DrainedIsPlayed
  Agreement
PROPERTIES
  NeverRefused
  EverySendSettles
  FinishedEnds
CHECK_DEADLOCK FALSE
