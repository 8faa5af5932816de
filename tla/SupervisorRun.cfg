SPECIFICATION MCSpec
CONSTANTS
  Ruled <- RuledHere
  MaxInstances = 1
  Entries <- SomeEntries
  ApiRequests <- SomeRequests
INVARIANTS TypeOK SubmittedLacksOnly FormIsServed PlannedIsDone ReportIsTrue
PROPERTIES EveryCallAnswers
CHECK_DEADLOCK FALSE
