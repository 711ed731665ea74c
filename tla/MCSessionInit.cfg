SPECIFICATION ClientSpec
CONSTANTS
  Rtos <- MCRtos
  Versions = {"4.1.0", "11.1.0"}
  Supported <- MCSupported
  Images = {"board.elf", "mixed.elf", "plain.elf", "both.elf"}
  Markers <- MCMarkers
  Written <- MCWritten
  Filters = {"rtthread"}
  Kinds <- MCKinds
  Interruptible = {}
  MaxHooks = 1
  MaxGeneration = 2
  Settings <- MCSettings
  MaxStops = 2
  MaxSessions = 2
  Console = TRUE
  None = None
  Unset = Unset
  NoImage = NoImage
INVARIANTS ProbeIsConfirmed RecordedIsActive
PROPERTY Converges
CHECK_DEADLOCK FALSE
