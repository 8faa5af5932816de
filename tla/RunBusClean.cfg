SPECIFICATION FairSpec
CONSTANTS
  api = api
  w1 = w1
  w2 = w2
  API = api
  Workers <- TwoWorkers
  FaultKinds <- Refusals
  MaxEvents = 4
  MaxFaults = 2
  MaxCrashes = 2
  MaxRedeliveries = 0
INVARIANTS TypeOK LogOrdered VerdictIsConsistent
PROPERTIES TerminalIsFinal EndsUnlessWorkerDied ImplementsLifecycle
CHECK_DEADLOCK FALSE
