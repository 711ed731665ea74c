------------------------------ MODULE RtTarget ------------------------------
(***************************************************************************)
(* An RT-Thread target as GDR lists it: its threads and objects, its       *)
(* timers, a mailbox, message queue or memory pool, and its system heap.   *)
(* What is shown of one is computed from that one alone, so a behaviour is *)
(* about one, and the state of the others is absent.                       *)
(***************************************************************************)
CONSTANTS Thread, Object, Kinds, NameOf, Handle, CpuCount, SenderList,
          Timer, Name, Ticks, Shapes, MaxLag,
          Places, Mail, Party,
          Algorithms, Base, Size, Header, Requests, Words, Pages, MaxTraversal, RowBytes, MaxFaults,
          MaxCells, MinColumns, MaxColumns, MaxRows, LegendUnits

VARIABLES part,                                                      \* what the behaviour is about
          registry, kindOf, waitList, stat, oncpu, currentOf, selected, handle, step,
          tick, timer, timers, lists, firing, call, left,
          store, cell, storeOp, inHand, stored,
          algorithm, counted, mem, counter, freePages, blocks, op, faults

T == INSTANCE RtThread
C == INSTANCE RtTimers WITH registry <- timers, op <- call
R == INSTANCE RtStores WITH Size <- Places, MaxWalk <- MaxTraversal, op <- storeOp, content <- stored
H == INSTANCE RtHeap

threadVars == <<registry, kindOf, waitList, stat, oncpu, currentOf, selected, handle, step>>
timerVars == <<tick, timer, timers, lists, firing, call, left>>
storeVars == <<store, cell, storeOp, inHand, stored>>
heapVars == <<algorithm, counted, mem, counter, freePages, blocks, op, faults>>
vars == <<part, threadVars, timerVars, storeVars, heapVars>>

ASSUME TargetAssumption ==
  T!RtAssumption /\ C!RtTimerAssumption /\ R!StoreAssumption /\ H!RtHeapAssumption

Absent == "absent"

NoThreads ==
  /\ registry = Absent /\ kindOf = Absent /\ waitList = Absent /\ stat = Absent /\ oncpu = Absent
  /\ currentOf = Absent /\ selected = Absent /\ handle = Absent /\ step = Absent
NoTimers ==
  /\ tick = Absent /\ timer = Absent /\ timers = Absent /\ lists = Absent
  /\ firing = Absent /\ call = Absent /\ left = Absent
NoStore == store = Absent /\ cell = Absent /\ storeOp = Absent /\ inHand = Absent /\ stored = Absent
NoHeap ==
  /\ algorithm = Absent /\ counted = Absent /\ mem = Absent /\ counter = Absent
  /\ freePages = Absent /\ blocks = Absent /\ op = Absent /\ faults = Absent

Init ==
  \/ part = "threads" /\ T!Init /\ NoTimers /\ NoStore /\ NoHeap
  \/ part = "timers" /\ C!Init /\ NoThreads /\ NoStore /\ NoHeap
  \/ part = "store" /\ R!Init /\ NoThreads /\ NoTimers /\ NoHeap
  \/ part = "heap" /\ H!Init /\ NoThreads /\ NoTimers /\ NoStore

Next ==
  \/ part = "threads" /\ T!Next /\ UNCHANGED <<part, timerVars, storeVars, heapVars>>
  \/ part = "timers" /\ C!Next /\ UNCHANGED <<part, threadVars, storeVars, heapVars>>
  \/ part = "store" /\ R!Next /\ UNCHANGED <<part, threadVars, timerVars, heapVars>>
  \/ part = "heap" /\ H!Next /\ UNCHANGED <<part, threadVars, timerVars, storeVars>>

Spec == Init /\ [][Next]_vars

-----------------------------------------------------------------------------
\* Every live object is one row of the table of its class, and the address or a
\* handle of it selects that row, and its checks (RtThread); so is every timer,
\* with the lists that prove it and the ticks it has left (RtTimers).
RowsSelect ==
  /\ part = "threads" => T!RowsSelect /\ T!ChecksSelect
  /\ part = "timers" => C!TimersAreTrue /\ C!ExpiryIsTrue

\* A thread is shown waiting once, and then as suspended (RtThread).
WaitsOnce == part = "threads" => T!WaitsOnce

\* The current thread is that of the selected CPU (RtThread).
CurrentIsOne == part = "threads" => T!CurrentIsOne

\* Slots, messages and blocks are listed in their order, and a count differs
\* from its chain only in flight (RtStores).
ListedIsContent == part = "store" => R!ListedIsContent /\ R!MismatchIsInFlight

\* A heap nothing overwrote is read as it is (RtHeap).
HealthyIsRead == part = "heap" => H!HealthyIsRead

\* Two "ok" verdicts on an overwritten heap: its free bytes are right (RtHeap).
AgreementIsTrue == part = "heap" => H!AgreementIsTrue

\* The bytes of a heap map are drawn, however the walk ended, and the blocks
\* read whole, unless a link of a memheap leads back (RtHeap, HeapMap).
EveryByteIsDrawn == part = "heap" => H!EveryByteIsDrawn

\* No fold of the bitmap hides a used block (HeapMap).
FoldsHideNoUsed == part = "heap" => H!FoldsHideNoUsed

\* A heap nothing overwrote has no "overrun" (RtHeap).
UnharmedIsNoOverrun == part = "heap" => H!UnharmedIsNoOverrun
=============================================================================
