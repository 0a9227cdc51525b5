SPECIFICATION FairSpec
CONSTANTS
  Bidi = {b1, b2, b3}
  Push = {p1, p2}
  MaxBidi = 2
  MaxPushId = 3
  MaxUni = 2
  EarlyResponse = FALSE
INVARIANTS
  KnownStreamsListed
  CreditExact
  AnsweredOnce
  EntriesExplained
PROPERTIES
  ServesRequests
  AllStreamsServed
CHECK_DEADLOCK FALSE
