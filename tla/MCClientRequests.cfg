SPECIFICATION FairSpec
CONSTANTS
  NStreams = 4
  NRequests = 3
  MaxStreams = 4
  ServerCredit = 2
  Push = {p1, p2}
  Early = TRUE
  EarlyCredit = 1
  EarlyUni = TRUE
  Delay = TRUE
  Quiet = FALSE
  ExitOnFirst = TRUE
  SubmitMayFail = TRUE
  p1 = p1
  p2 = p2
INVARIANTS
  RequestsOnce
  EntriesFollowHttp3
  UniCreditExact
PROPERTIES
  NothingInDelay
  AllServed
CHECK_DEADLOCK FALSE
