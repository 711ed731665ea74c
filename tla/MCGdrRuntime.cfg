SPECIFICATION Spec
CONSTANTS
  Rtos <- MCRtos
  Versions = {"4.1.0", "10.4.3", "11.1.0"}
  Supported <- MCSupported
  Images = {"board.elf", "demo.elf", "both.elf"}
  Markers <- MCMarkers
  Written <- MCWritten
  Filters = {"rtthread"}
  Kinds <- MCKinds
  Interruptible = {"layout", "functions", "alias"}
  MaxHooks = 2
  MaxGeneration = 3
  None = None
  Unset = Unset
  NoImage = NoImage
INVARIANT SilenceIsVerified
PROPERTIES DroppedWhole GenerationTells
