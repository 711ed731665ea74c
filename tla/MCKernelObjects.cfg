SPECIFICATION Spec
CONSTANTS
  Lengths = {1, 2, 3}
  ItemSizes = {1, 2}
  Value <- MCValue
  Owner = {t1, t2}
  MaxNesting = 2
  RingLength = 8
  PrefixBytes = 2
  ByteBase = 3
  Triggers = {0, 1, 3}
  TickBits = 16
  AppBits = {0, 7}
  Task = {t1, t2}
  Timer = {tm}
  Ticks = 5
  Periods = {1, 3}
  MaxCommands = 1
  MaxLag = 2
  Words = 3
  WordBytes = 2
  Frame = 1
  EdgeBytes = 2
  None = None
  TaskImages <- MCTaskImages
  MaxSlots = 2
  TickPeriod = 4
  MaxPended = 1
  o1 = o1
  o2 = o2
  o3 = o3
  Obj <- MCObj
  Ghost = {g1}
  Tasks = 1
  Slots = 2
  Declared <- MCDeclared
  Kinds <- MCKinds
  Images <- MCImages
INVARIANTS DumpIsContent HealthyPasses BytesAreTrue NextMessageIsNext WaitersAsAsked ExpiryIsTrue StacksAreTrue StateIsTruth EachTaskOnce ChecksPass TablesAgree FoundAsItIs NamedByTheKernel
CHECK_DEADLOCK FALSE
SYMMETRY MCSymmetry
