SPECIFICATION FairSpec
CONSTANTS
  Capacity = 2
  Prebuffer = 2
  Window = 1
  QueueFrames = 2
  RingFrames = 1
  MaxPending = 1
  MaxStreams = 2
  MaxPcm = 3
  MaxWire = 2
  MaxHellos = 2
  MaxEvents = 1
  MaxLost = 1
  MaxFaults = 1
INVARIANTS
  OneDirection
  CreditIsKept
  FreshAfterHello
PROPERTIES
  EndedStreamFinishes
  HostIsServed
CHECK_DEADLOCK FALSE
