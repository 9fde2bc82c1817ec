SPECIFICATION FairSpec
CONSTANTS
  r1 = r1
  c1 = c1
  light = light
  mcp = mcp
  Requests = {r1}
  NoRequest = NoRequest
  Calls = {c1}
  Tools = {light, mcp}
  GatewayTools = {mcp}
  DeviceTools = {light}
  Guarded = {light}
  HasTts = TRUE
  MaxSessions = 3
  MaxGenerations = 1
  MaxResponses = 0
  MaxUpdates = 1
  MaxTurns = 1
INVARIANTS
  PendingCallsAreCurrent
PROPERTIES
  ApprovedBeforeRunning
  EveryRunEnds
