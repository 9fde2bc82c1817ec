SPECIFICATION Spec
CONSTANTS
  r1 = r1
  Requests = {r1}
  NoRequest = NoRequest
  Calls = {}
  Tools = {}
  GatewayTools = {}
  DeviceTools = {}
  Guarded = {}
  HasTts = TRUE
  MaxSessions = 3
  MaxGenerations = 2
  MaxResponses = 0
  MaxUpdates = 0
  MaxTurns = 1
INVARIANTS
  UpMeansListening
