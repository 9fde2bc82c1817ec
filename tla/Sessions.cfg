SPECIFICATION Spec
CONSTANTS
  s1 = s1
  s2 = s2
  s3 = s3
  d1 = d1
  d2 = d2
  c1 = c1
  c2 = c2
  None = None
  Sockets = {s1, s2, s3}
  Devices = {d1, d2}
  Commands = {c1, c2}
  CommandLimit = 1
  MaxSlow = 1
INVARIANTS
  OneSessionPerDevice
  NothingOutlivesManager
  CommandsWaitInOpenSessions
CHECK_DEADLOCK FALSE
