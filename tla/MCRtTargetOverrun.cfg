SPECIFICATION Spec
CONSTANTS
  t1 = t1
  t2 = t2
  o1 = o1
  o2 = o2
  c1 = c1
  c2 = c2
  Timer <- MCTimer
  Name = "timer"
  Ticks = 8
  Shapes <- MCShapes
  MaxLag = 1
  Places = 3
  Mail = {a, b}
  Party = {p, q}
  Thread <- MCThread
  Object <- MCObject
  Kinds = {"semaphore", "msgqueue"}
  NameOf <- MCNameOf
  Handle <- MCHandle
  CpuCount = 2
  SenderList = TRUE
  Algorithms = {"small_mem", "small_mem_40", "memheap", "slab"}
  Base = 8
  Size = 14
  Header = 2
  Requests = {1, 4}
  Words <- MCWords
  Pages = 3
  MaxTraversal = 3
  RowBytes = 4
  MaxFaults = 1
  MaxCells = 12
  MinColumns = 2
  MaxColumns = 4
  MaxRows = 16
  LegendUnits = 4
INVARIANT UnharmedIsNoOverrun
CHECK_DEADLOCK FALSE
SYMMETRY MCSymmetry
