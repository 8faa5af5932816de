SPECIFICATION MCSpec
CONSTANTS
  Ruled <- RuledHere
  MaxInstances = 1
  Entries <- SomeEntries
  ApiRequests <- SomeRequests
INVARIANTS SkippedIsNotGenerated
CHECK_DEADLOCK FALSE
