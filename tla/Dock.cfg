SPECIFICATION FairSpec
CONSTANTS
  None = None
  r1 = r1
  Responses = {r1}
  MaxRequests = 2
  MaxCancels = 2
  MaxGenerations = 3
  MaxPlays = 1
  RequestRetries = 2
  SendRetries = 2
INVARIANTS
  HalfDuplex
  InputIsNegotiated
PROPERTIES
  OnlyAnswersWake
  RequestSettles
  InterruptEnds
  MicrophoneOpens
CHECK_DEADLOCK FALSE
