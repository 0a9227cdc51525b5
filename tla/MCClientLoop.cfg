SPECIFICATION FairSpec
CONSTANTS
  Changes = TRUE
  NatRebinding = FALSE
  Preferred = TRUE
  Timers = {"key", "delay"}
  ExitOnFirst = TRUE
  TxLoss = TRUE
INVARIANTS
  RoomForPacket
  WatchersMatchConnection
  CloseSentOnce
  WaitingGoesWhereMeant
PROPERTIES
  TerminalIsSilent
  ClosedClientEnds
CHECK_DEADLOCK FALSE
