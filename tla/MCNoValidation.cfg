SPECIFICATION Spec
CONSTANTS
  Client = {c1}
  Addr = {a1, a2}
  RetryCid = {x1, x2}
  None = None
  ValidateAddr = FALSE
  Window = 0
  MaxTime = 1
  MaxPackets = 4
  MaxRestarts = 1
SYMMETRY ClientSymmetry
INVARIANTS
  OriginalIdFits
CHECK_DEADLOCK FALSE
