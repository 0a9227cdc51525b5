SPECIFICATION FairSpec
CONSTANTS
  ClientCid = {d1}
  ServerCid = {s1, s2, s3}
  NoCid = NoCid
  PreferredAddr = FALSE
  CidLimit = 2
INVARIANTS
  WatchersMatchHandlers
  ClosePacketReady
  PeriodUndisturbed
PROPERTIES
  TerminalIsFinal
  PeriodsEnd
  ShutdownCompletes
CHECK_DEADLOCK FALSE
