---------------------------- MODULE FreeRtosHeap ----------------------------
(***************************************************************************)
(* The heap snapshot against the kernel it looks at.  The kernel is        *)
(* FreeRTOS portable/MemMang, modelled from what freertos/heap.py and the  *)
(* repository's notes on it say: heap_2 keeps its free list by size and    *)
(* never merges, heap_4 and heap_5 keep it by address and merge; heap_5    *)
(* closes each region with a block of size zero.  pvPortMalloc and the     *)
(* insertion in vPortFree run with the scheduler suspended, in two steps,  *)
(* since the debugger may halt the target anywhere; the allocated bit is   *)
(* cleared before that, so any number of tasks may be between the two.     *)
(*                                                                         *)
(* A faulty program overwrites a word of the structure; what the kernel    *)
(* makes of that is not modelled, so it stops there.                       *)
(***************************************************************************)
EXTENDS HeapWalk, SequencesExt

CONSTANTS Regions,     \* the extents prvHeapInit is given, by build: <<base, bytes>>
          Words,       \* what an overwritten word may hold
          Forged,      \* headers a task's own data may happen to look like
          Sizes,       \* the sizes tasks ask for, header included
          MaxFaults, MaxWrites

XEnd == 2                         \* &xEnd of heap_2, outside the heap

\* A block may start where a cell of two bytes does, aligned as the port asks.
OnCell(b, n) == n % 2 = 0 /\ (b.alignment # 0 => n % b.alignment = 0)

\* The kernel aligns what it is given and what it is asked for; regions lie in
\* order with room for an end marker between them, below the allocated bit.
\* Only heap_5 has several, and only heap_2 may end off a cell.
ASSUME HeapAssumption ==
  /\ \A b \in Builds :
       LET g == Regions[b]
       IN /\ g \in Seq(Nat \X Nat) /\ g # << >> /\ (b.kind # 5 => Len(g) = 1)
          /\ \A i \in DOMAIN g :
               /\ g[i][1] > XEnd /\ g[i][2] > 0 /\ g[i][1] + g[i][2] < Msb
               /\ OnCell(b, g[i][1]) /\ (b.kind # 2 => OnCell(b, g[i][1] + g[i][2]))
          /\ \A i, j \in DOMAIN g : i < j => g[i][1] + g[i][2] < g[j][1]
  /\ Sizes \subseteq Nat \ {0} /\ \A b \in Builds, n \in Sizes : OnCell(b, n)
  /\ Forged \subseteq Header /\ Words \subseteq Nat
  /\ MaxFaults \in Nat /\ MaxWrites \in Nat

VARIABLES chain,      \* the free list as the kernel means it: blocks in order
          used,       \* allocated blocks
          freeing,    \* blocks whose bit vPortFree has cleared, not yet inserted
          op,         \* the call that has the scheduler suspended
          faults, writes

kernel == <<chain, used, freeing, op>>
vars == <<walkVars, kernel, faults, writes>>

NoOp == [call |-> "none"]
Block(a, n) == [address |-> a, size |-> n]
End(b) == b.address + b.size
MyRegions == Regions[build]
LastRegion == MyRegions[Len(MyRegions)]
EndMarker == IF build.kind = 2 THEN XEnd ELSE LastRegion[1] + LastRegion[2]

\* prvHeapInit and vPortDefineHeapRegions: a block per region, each but the
\* last followed by the empty block that links to the next region.
FirstChain ==
  [i \in 1..(2 * Len(MyRegions) - 1) |->
     LET r == MyRegions[(i + 1) \div 2]
     IN IF i % 2 = 1 THEN Block(r[1], r[2]) ELSE Block(r[1] + r[2], 0)]

TotalBytes ==
  LET sum[i \in 0..Len(MyRegions)] == IF i = 0 THEN 0 ELSE sum[i - 1] + MyRegions[i][2]
  IN sum[Len(MyRegions)]

\* Where the search along s ends: at the first index of `ahead', or behind s.
PlaceIn(s, ahead) ==
  CHOOSE p \in 1..(Len(s) + 1) :
    (p \in ahead \/ p = Len(s) + 1) /\ \A i \in 1..(p - 1) : i \notin ahead

\* prvInsertBlockIntoFreeList of heap_2: before the first that is as large.
BySize(s, b) == InsertAt(s, PlaceIn(s, {i \in DOMAIN s : s[i].size >= b.size}), b)

\* Of heap_4 and heap_5: by address, merged with its neighbours.
MergedAt(s, i) ==
  IF i \in 1..(Len(s) - 1) /\ End(s[i]) = s[i + 1].address
  THEN RemoveAt([s EXCEPT ![i] = Block(s[i].address, s[i].size + s[i + 1].size)], i + 1)
  ELSE s
ByAddress(s, b) ==
  LET p == PlaceIn(s, {i \in DOMAIN s : s[i].address >= b.address})
  IN MergedAt(MergedAt(InsertAt(s, p, b), p), p - 1)

Inserted(s, b) == IF build.kind = 2 THEN BySize(s, b) ELSE ByAddress(s, b)

\* The headers of the free list s, written over m.
Linked(m, s) ==
  [a \in DOMAIN m |->
     LET here == {i \in DOMAIN s : s[i].address = a}
     IN IF here = {} THEN m[a]
        ELSE LET i == CHOOSE x \in here : TRUE
             IN [next |-> IF i = Len(s) THEN EndMarker ELSE s[i + 1].address,
                 raw  |-> s[i].size]]

HeadOf(s) == IF s = << >> THEN EndMarker ELSE s[1].address

\* An allocated header: the bit where there is one; a stale link before it.
Taken(m, b) ==
  [m EXCEPT ![b.address] =
     IF Masked THEN [next |-> Null, raw |-> b.size + Msb]
     ELSE [next |-> m[b.address].next, raw |-> b.size]]

\* A healthy target running: not while GDB reads, nor after a fault.
Runs == at = "idle" /\ faults = 0
Calls == Runs /\ op = NoOp

-----------------------------------------------------------------------------
\* The first pvPortMalloc, or vPortDefineHeapRegions.
DefinesHeap ==
  /\ Calls /\ HasBlocks /\ ~Initialised
  /\ chain' = FirstChain
  /\ heap' = [head |-> HeadOf(FirstChain), end |-> EndMarker,
              endSize |-> IF build.kind = 2 THEN MyRegions[1][2] ELSE 0,
              counter |-> TotalBytes,
              base |-> MyRegions[1][1], high |-> LastRegion[1] + LastRegion[2] + 2]
  /\ mem' = Linked([mem EXCEPT ![EndMarker] = [next |-> Null, raw |-> 0]], FirstChain)
  /\ UNCHANGED <<build, reader, used, freeing, op, faults, writes>>

\* pvPortMalloc: unlinks the first block that is large enough ...
MallocTakes(n) ==
  \E i \in DOMAIN chain :
     /\ Calls /\ Initialised
     /\ chain[i].size >= n /\ \A j \in 1..(i - 1) : chain[j].size < n
     /\ op' = [call |-> "malloc", block |-> chain[i], want |-> n]
     /\ chain' = RemoveAt(chain, i)
     /\ mem' = Linked(mem, RemoveAt(chain, i))
     /\ heap' = [heap EXCEPT !.head = HeadOf(chain')]
     /\ UNCHANGED <<build, reader, used, freeing, faults, writes>>

\* ... and puts back what is left of it.
MallocFinishes ==
  /\ Runs /\ op.call = "malloc"
  /\ LET b    == Block(op.block.address, op.want)
         rest == Block(End(b), op.block.size - op.want)
         s    == IF rest.size = 0 THEN chain ELSE Inserted(chain, rest)
     IN /\ chain' = s
        /\ used' = used \cup {b}
        /\ mem' = Taken(Linked(mem, s), b)
        /\ heap' = [heap EXCEPT !.head = HeadOf(s), !.counter = heap.counter - b.size]
  /\ op' = NoOp
  /\ UNCHANGED <<build, reader, freeing, faults, writes>>

\* vPortFree clears the bit before it suspends the scheduler ...
FreeClears(b) ==
  /\ Runs /\ b \in used
  /\ used' = used \ {b} /\ freeing' = freeing \cup {b}
  /\ mem' = [mem EXCEPT ![b.address].raw = b.size]
  /\ UNCHANGED <<build, heap, reader, chain, op, faults, writes>>

\* ... then counts the block ...
FreeCounts(b) ==
  /\ Calls /\ b \in freeing
  /\ op' = [call |-> "free", block |-> b]
  /\ heap' = [heap EXCEPT !.counter = heap.counter + b.size]
  /\ UNCHANGED <<build, mem, reader, chain, used, freeing, faults, writes>>

\* ... and inserts it.
FreeInserts ==
  /\ Runs /\ op.call = "free"
  /\ chain' = Inserted(chain, op.block)
  /\ mem' = Linked(mem, chain')
  /\ heap' = [heap EXCEPT !.head = HeadOf(chain')]
  /\ freeing' = freeing \ {op.block} /\ op' = NoOp
  /\ UNCHANGED <<build, reader, used, faults, writes>>

\* A task writes its own memory.
TaskWrites(b, a, h) ==
  /\ Runs /\ writes < MaxWrites
  /\ b \in used /\ a \in DOMAIN mem /\ a > b.address /\ a < End(b)
  /\ mem' = [mem EXCEPT ![a] = h]
  /\ writes' = writes + 1
  /\ UNCHANGED <<build, heap, reader, kernel, faults>>

\* A task overwrites one word of the heap's structure.
Structure == {b.address : b \in ToSet(chain) \cup used}
Overwrites(w) ==
  /\ at = "idle" /\ op = NoOp /\ freeing = {} /\ Initialised /\ faults < MaxFaults
  /\ \/ \E a \in Structure : mem' = [mem EXCEPT ![a].next = w] /\ UNCHANGED heap
     \/ \E a \in Structure : mem' = [mem EXCEPT ![a].raw = w] /\ UNCHANGED heap
     \/ heap' = [heap EXCEPT !.head = w] /\ UNCHANGED mem
     \/ heap' = [heap EXCEPT !.counter = w] /\ UNCHANGED mem
  /\ faults' = faults + 1
  /\ UNCHANGED <<build, reader, kernel, writes>>

\* The target goes on after a snapshot.
Continue ==
  /\ at = "done"
  /\ at' = "idle" /\ list' = NoWalk /\ linear' = NoWalk /\ check' = "none"
  /\ UNCHANGED <<target, kernel, faults, writes>>

KernelStep ==
  \/ DefinesHeap \/ MallocFinishes \/ FreeInserts
  \/ \E n \in Sizes : MallocTakes(n)
  \/ \E b \in used : FreeClears(b) \/ \E a \in DOMAIN mem, h \in Forged : TaskWrites(b, a, h)
  \/ \E b \in freeing : FreeCounts(b)

ReaderStep == Read /\ UNCHANGED <<kernel, faults, writes>>

Blank == [head |-> 0, end |-> 0, endSize |-> 0, counter |-> 0, base |-> 0, high |-> 0]
Cells == {XEnd} \cup UNION {{a \in r[1]..(r[1] + r[2]) : a % 2 = 0} : r \in ToSet(MyRegions)}

Init ==
  /\ build \in Builds
  /\ mem = [a \in Cells |-> [next |-> Null, raw |-> 0]]
  /\ heap = [Blank EXCEPT !.end = IF build.kind = 2 THEN XEnd ELSE Null,
                          !.base = IF build.kind = 5 THEN Null ELSE MyRegions[1][1]]
  /\ at = "idle" /\ list = NoWalk /\ linear = NoWalk /\ check = "none"
  /\ chain = << >> /\ used = {} /\ freeing = {} /\ op = NoOp
  /\ faults = 0 /\ writes = 0

Next == KernelStep \/ ReaderStep \/ Continue \/ \E w \in Words : Overwrites(w)
Spec == Init /\ [][Next]_vars

-----------------------------------------------------------------------------
\* Properties.

\* No call is inside the allocator.
Quiet == op = NoOp /\ freeing = {}
Healthy == Quiet /\ faults = 0 /\ HasBlocks /\ Initialised

\* The walks do not reach the traversal bound; that of heap_5 needs one turn
\* more, to read the end marker.
Fits ==
  Len(chain) + Cardinality(used) + (IF build.kind = 5 THEN 1 ELSE 0) <= MaxTraversal

\* A linear walk of the whole heap is possible: its base is known, and heap_5
\* has one region.
Walkable == LinearLow # NoAddress /\ Len(MyRegions) = 1

\* A heap no call is inside, no larger than the traversal bound, is read as it
\* is: the free list block for block, whatever stale headers and data the
\* blocks hold, and by the linear walk every block, below the head of the free
\* list too, with a hole for each free block of heap_4, which merges them.  The
\* report shows no check row where both walks cover the heap, a skipped one
\* where heap_5 lacks bounds or has regions; the status is good.
HealthyIsOk ==
  at = "done" /\ Healthy /\ Fits /\ (build.kind = 5 \/ build.array) =>
    LET report == HeapReport
        Rows(state, blocks) == {[address |-> b.address, size |-> b.size, state |-> state] : b \in blocks}
    IN /\ list.blocks = chain
       /\ report.pairs.Blocks = <<Len(chain), "">>
       /\ report.pairs.CrossCheck = (IF Walkable THEN << >> ELSE <<"skipped">>)
       /\ HeapStatus = "good"
       /\ Walkable => /\ report.title = "Heap blocks"
                      /\ ToSet(report.rows) = Rows("free", ToSet(chain)) \cup Rows("alloc", used)
       /\ LinearLow = NoAddress =>
            ToSet(report.rows) = Rows("listed", ToSet(chain)) /\ report.title = "Free list"
       /\ Walkable /\ build.kind = 4 => report.pairs.Holes = <<Len(chain), "">>

\* One overwritten word cannot make an "ok" of free blocks the heap does not
\* have, where the bit tells free from allocated.
OverwriteIsSeen ==
  at = "done" /\ Quiet /\ faults = 1 /\ Masked /\ check = "ok" =>
    {list.blocks[i] : i \in DOMAIN list.blocks} = ToSet(chain)

\* docs/architecture.md: without the base the linear walk is skipped, Holes is
\* N/A and the cross-check says why; it is no evidence against the heap.
SkippedIsUnavailable ==
  at = "done" /\ Healthy /\ Fits /\ LinearLow = NoAddress =>
    /\ HeapPairs.Holes = << >> /\ HeapPairs.CrossCheck = <<"skipped">>
    /\ HeapStatus = "good"
=============================================================================
