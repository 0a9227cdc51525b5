SPECIFICATION Spec
CONSTANTS
  Client = {c1, c2}
  Addr = {a1, a2}
  RetryCid = {x1, x2}
  None = None
  ValidateAddr = TRUE
  Window = 1
  MaxTime = 2
  MaxPackets = 3
  MaxRestarts = 1
SYMMETRY ClientSymmetry
INVARIANTS
  AddressValidated
  OneConnectionPerClient
CHECK_DEADLOCK FALSE
