SPECIFICATION FairSpec
CONSTANTS
  Calls = {c1, c2}
  MaxUpdates = 4
  MaxApps = 1
  MaxFailures = 2
  ContinuationRetries = 1
INVARIANTS
  AckedIsServed
PROPERTIES
  AnswersMatchTheirCatalog
  ControlIsNotBlocked
  ProviderIsAnnounced
  ContinuationsEnd
CHECK_DEADLOCK FALSE
