SPECIFICATION Spec
CONSTANTS
  Bidi = {b1, b2, b3}
  Push = {}
  MaxBidi = 2
  MaxPushId = 0
  MaxUni = 0
  EarlyResponse = FALSE
INVARIANTS
  ConcurrentStreamsBounded
CHECK_DEADLOCK FALSE
