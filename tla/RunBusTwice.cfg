SPECIFICATION Spec
CONSTANTS
  api = api
  w1 = w1
  w2 = w2
  API = api
  Workers <- TwoWorkers
  FaultKinds <- Exceptions
  MaxEvents = 4
  MaxFaults = 2
  MaxCrashes = 1
  MaxRedeliveries = 1
SYMMETRY EitherSlot
INVARIANTS UniqueIds PublishedIsStored
CHECK_DEADLOCK FALSE
