SPECIFICATION Spec
CONSTANTS
  NStreams = 4
  NRequests = 3
  MaxStreams = 4
  ServerCredit = 2
  Push = {}
  Early = TRUE
  EarlyCredit = 1
  EarlyUni = TRUE
  Delay = TRUE
  Quiet = TRUE
  ExitOnFirst = TRUE
  SubmitMayFail = FALSE
INVARIANTS
  RejectionTold
CHECK_DEADLOCK FALSE
