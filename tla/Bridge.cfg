SPECIFICATION FairSpec
CONSTANTS
  Sizes = {1, 2}
  HelloSize = 2
  MaxPending = 4
  InitialDelay = 1
  MaxDelay = 5
  MaxFailures = 4
INVARIANTS
  OneConnection
  NeverStranded
  BytesAreOutstanding
PROPERTIES
  Reconnects
CHECK_DEADLOCK FALSE
