SPECIFICATION FairSpec
CONSTANTS
  r1 = r1
  r2 = r2
  pom = pom
  controller = controller
  service = service
  Earlier = Earlier
  None = None
  Foreign = Foreign
  Templates <- OneTemplate
  Runs <- OneRun
  Files <- TwoFiles
  Qualities <- Quality
  MaxRepairs = 2
  MaxClock = 0
INVARIANTS FastApiIsPackaged
CHECK_DEADLOCK FALSE
