SPECIFICATION Spec
CONSTANTS
  JavaSources <- JavaFiles
  PythonSources <- PythonFiles
  Applications <- JavaMains
  SpringBoardSources <- JavaBoard
  ApiBoardSources <- ApiPart
  Kotlin <- KotlinFiles
  Blocked <- Scripts
  Others <- OtherFiles
  MainClass = "AppApplication.java"
  Proposable <- Planned
  MaxFiles = 2
  MaxRepairs = 2
INVARIANTS TypeOK VerdictIsDue PlannedIsClosed
CHECK_DEADLOCK FALSE
