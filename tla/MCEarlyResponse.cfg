CONSTANTS
  Levels = {initial, handshake}
  MaxCrypto = 4
  FileLen = 5
  BuffLen = 2
  WireLen = 4
  Layouts <- TheLayouts
  MaxPackets = 4
  Durations <- TheDurations
  Templates <- TheTemplates
  MaxLevels = 3
  MaxReps = 3
  MaxUint = 255
  Worth <- TheWorth
  Given <- TheOptions
  Arguments <- TheArguments
  MaxOptions = 2
SPECIFICATION Spec
INVARIANTS
  EarlyResponseObeyed
CHECK_DEADLOCK FALSE
