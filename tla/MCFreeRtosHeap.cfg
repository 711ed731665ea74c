SPECIFICATION Spec
CONSTANTS
  Builds <- MCBuilds
  Regions <- MCRegions
  Forged <- MCForged
  Words = {0, 2, 5, 6, 36}
  Sizes = {2, 4}
  Msb = 32
  MaxTraversal = 3
  MaxFaults = 1
  MaxWrites = 1
INVARIANTS OkIsAgreement HealthyIsOk OverwriteIsSeen
