SPECIFICATION FairSpec
CONSTANTS
  i1 = i1
  i2 = i2
  None = None
  Ids = {i1, i2}
  Impatient = {i1}
  PeerResumes = TRUE
  MaxDisconnects = 1
  MaxResumes = 1
  MaxActivations = 1
  Capacity = 2
INVARIANTS
  ResolvedIsReleased
PROPERTIES
  ImplementsConsent
  CallerNeverHangs
  DecisionArrives
CHECK_DEADLOCK FALSE
