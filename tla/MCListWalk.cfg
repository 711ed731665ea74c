SPECIFICATION Spec
CONSTANTS
  Node = {"n1", "n2", "n3"}
  Builds <- MCBuilds
  MaxCount = 2
  MaxFaults = 1
INVARIANTS SoundIsWhole CleanIsClosed ChecksTell
PROPERTY WalkEnds
