SPECIFICATION Spec
CONSTANTS
  r1 = r1
  r2 = r2
  pom = pom
  controller = controller
  service = service
  Earlier = Earlier
  None = None
  Foreign = Foreign
  Templates <- NoTemplate
  Runs <- TwoRuns
  Files <- OneFile
  Qualities <- GoodOrFlawed
  MaxRepairs = 1
  MaxClock = 1
SYMMETRY EitherRun
INVARIANTS ShippedIsValidated SuccessIsDelivered LeftoversAreListed
CHECK_DEADLOCK FALSE
