SPECIFICATION FairStreamSpec
CONSTANTS
  api = api
  w1 = w1
  w2 = w2
  API = api
  Workers <- OneWorker
  FaultKinds <- Refusals
  MaxEvents = 4
  MaxFaults = 1
  MaxCrashes = 1
  MaxRedeliveries = 0
  MaxDrops = 1
INVARIANTS AnnouncementIsFinal IdIsPosition SkippedOnlyWhileSubscribing
PROPERTIES EndIsAnnounced
CHECK_DEADLOCK FALSE
