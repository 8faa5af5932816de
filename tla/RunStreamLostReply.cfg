SPECIFICATION StreamSpec
CONSTANTS
  api = api
  w1 = w1
  w2 = w2
  API = api
  Workers <- OneWorker
  FaultKinds <- LostReply
  MaxEvents = 3
  MaxFaults = 2
  MaxCrashes = 1
  MaxRedeliveries = 0
  MaxDrops = 1
INVARIANTS AnnouncedIsOver ShownOnceInOrder ShownIsStored FailureIsExplained
PROPERTIES FailureStands
CHECK_DEADLOCK FALSE
