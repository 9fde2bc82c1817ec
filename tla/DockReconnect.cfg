SPECIFICATION Spec
CONSTANTS
  None = None
  r1 = r1
  Responses = {r1}
  MaxRequests = 2
  MaxCancels = 2
  MaxGenerations = 3
  MaxPlays = 2
  RequestRetries = 2
  SendRetries = 2
PROPERTY ReconnectIsOpen
CHECK_DEADLOCK FALSE
