SPECIFICATION Spec
CONSTANTS
  o1 = o1
  o2 = o2
  o3 = o3
  Obj <- MCObj
  Ghost = {g1}
  None = None
  Tasks = 1
  Slots = 2
  Declared <- MCDeclared
  Kinds <- MCKinds
  Images <- MCImages
INVARIANT EveryCallIsFresh
