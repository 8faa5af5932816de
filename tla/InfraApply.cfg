SPECIFICATION MCSpec
CONSTANTS
  r1 = r1
  r2 = r2
  host = host
  None = None
  Empty = Empty
  Runs <- TwoRuns
  Requests <- SomeRequests
  Drafts <- SomeDrafts
  MaxRepairs = 1
INVARIANTS TypeOK ScriptFitsRequest ChosenIsChecked  OutcomeIsTold
PROPERTIES EveryRunEnds ImplementsBoundedRepair
CHECK_DEADLOCK FALSE
