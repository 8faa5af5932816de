SPECIFICATION FairStreamSpec
CONSTANTS
  api = api
  w1 = w1
  w2 = w2
  API = api
  Workers <- OneWorker
  FaultKinds <- NoFaults
  MaxEvents = 3
  MaxFaults = 0
  MaxCrashes = 0
  MaxRedeliveries = 0
  MaxDrops = 0
INVARIANTS DoneMeansDelivered
CHECK_DEADLOCK FALSE
