SPECIFICATION Spec
CONSTANTS
  Builds <- MCNoArray
  Regions <- MCRegions
  Forged <- MCForged
  Words = {}
  Sizes = {2, 4}
  Msb = 32
  MaxTraversal = 4
  MaxFaults = 0
  MaxWrites = 0
INVARIANT SkippedIsUnavailable
