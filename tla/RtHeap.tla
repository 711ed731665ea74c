------------------------------- MODULE RtHeap -------------------------------
(***************************************************************************)
(* The system heap of an RT-Thread target as GDR reads it: the snapshot of *)
(* the counters (rtthread/navigation.py), the walk of the blocks           *)
(* (rtthread/diagnostics.py), the verdicts on both (rtthread/heapviews.py, *)
(* rtthread/adapter.py), and the heap map drawn from the walk (HeapMap).   *)
(*                                                                         *)
(* The kernel is mem.c, memheap.c and slab.c as those files describe it: a *)
(* call splits a block, counts it and then marks it, and a free unmarks,   *)
(* counts and merges.  The target may be halted between any two, and a     *)
(* faulty program overwrites a word; what the kernel makes of that is not  *)
(* modelled, so it stops there.  Owner names are left out.                 *)
(***************************************************************************)
EXTENDS HeapMap

CONSTANTS Algorithms,      \* of "small_mem", "small_mem_40", "memheap", "slab"
          Base, Size,      \* the arena, its end sentinel included
          Header,          \* the aligned size of a block header
          Requests,        \* payloads asked for, header not included
          Words,           \* what an overwritten word may hold
          Pages,           \* of the slab arena
          MaxTraversal,    \* GDR_MAX_TRAVERSAL_COUNT
          RowBytes,        \* --row-bytes
          MaxFaults

VARIABLES algorithm,       \* the heap manager of the image
          counted,         \* the image exposes the counters
          mem,             \* the headers in memory, stale ones included
          counter,         \* used_mem, or pool_size less available_size
          freePages,       \* of type PAGE_TYPE_FREE in memusage
          blocks,          \* the blocks as the kernel means them, in order
          op,              \* the call under way
          faults

vars == <<algorithm, counted, mem, counter, freePages, blocks, op, faults>>

None == -1
NoOp == [step |-> "none", i |-> 0, cost |-> 0]
Sentinel == Base + Size - Header     \* heap_end, or the tailer of memheap

RtHeapAssumption ==
  /\ MapAssumption
  /\ Algorithms \subseteq {"small_mem", "small_mem_40", "memheap", "slab"}
  /\ Base \in Nat \ {0} /\ Header \in Nat \ {0} /\ Size \in Nat /\ Size > 2 * Header
  /\ Requests \subseteq Nat \ {0} /\ Words \subseteq Nat /\ Pages \in Nat
  /\ RowBytes \in Nat \ {0} /\ MaxTraversal \in Nat \ {0} /\ MaxFaults \in Nat

Memheap == algorithm = "memheap"
Block(a, n, used) == [address |-> a, size |-> n, used |-> used]
End(b) == b.address + b.size
Payload(b) == b.size - Header
Item(next, used) == [next |-> next, used |-> used, magic |-> TRUE]

\* The headers of the blocks s, written over m.
Headers(m, s) ==
  [a \in DOMAIN m |->
     LET here == {b \in ToSet(s) : b.address = a}
     IN IF here = {} THEN m[a] ELSE LET b == CHOOSE x \in here : TRUE IN Item(End(b), b.used)]

Changes(s) == blocks' = s /\ mem' = Headers(mem, s)

-----------------------------------------------------------------------------
\* The kernel.

First == <<Block(Base, Size - Header, FALSE)>>
Blank == [a \in Base..(Base + Size - 1) |->
            IF a = Sentinel THEN Item(IF Memheap THEN Base ELSE Sentinel, TRUE)
            ELSE [next |-> 0, used |-> FALSE, magic |-> FALSE]]

Init ==
  /\ algorithm \in Algorithms /\ counted \in BOOLEAN
  /\ blocks = First /\ mem = Headers(Blank, First)
  /\ counter = IF Memheap THEN 2 * Header ELSE 0
  /\ freePages = 1..Pages
  /\ op = NoOp /\ faults = 0

Runs == faults = 0 /\ algorithm # "slab"

\* rt_malloc splits a block that is large enough, or takes it whole ...
Split(i, n) ==
  LET b    == blocks[i]
      cut  == Payload(b) > n + Header
      mine == Block(b.address, n + Header, FALSE)
      rest == Block(End(mine), b.size - mine.size, FALSE)
  IN /\ Runs /\ op = NoOp /\ ~b.used /\ Payload(b) >= n
     /\ Changes(IF cut THEN ReplaceAt(InsertAt(blocks, i + 1, rest), i, mine) ELSE blocks)
     /\ op' = [step |-> "count", i |-> i,
               cost |-> IF cut THEN mine.size ELSE IF Memheap THEN Payload(b) ELSE b.size]
     /\ UNCHANGED <<algorithm, counted, counter, freePages, faults>>

\* ... counts it ...
Count ==
  /\ Runs /\ op.step = "count"
  /\ counter' = counter + op.cost /\ op' = [op EXCEPT !.step = "mark"]
  /\ UNCHANGED <<algorithm, counted, mem, freePages, blocks, faults>>

\* ... and marks it used.
Mark ==
  /\ Runs /\ op.step = "mark"
  /\ Changes([blocks EXCEPT ![op.i].used = TRUE]) /\ op' = NoOp
  /\ UNCHANGED <<algorithm, counted, counter, freePages, faults>>

\* rt_free clears the mark ...
Unmark(i) ==
  /\ Runs /\ op = NoOp /\ blocks[i].used
  /\ Changes([blocks EXCEPT ![i].used = FALSE])
  /\ op' = [step |-> "discount", i |-> i,
            cost |-> IF Memheap THEN Payload(blocks[i]) ELSE blocks[i].size]
  /\ UNCHANGED <<algorithm, counted, counter, freePages, faults>>

\* ... counts the block ...
Discount ==
  /\ Runs /\ op.step = "discount"
  /\ counter' = counter - op.cost /\ op' = [op EXCEPT !.step = "merge"]
  /\ UNCHANGED <<algorithm, counted, mem, freePages, blocks, faults>>

\* ... and merges it with its neighbours; memheap then counts their headers.
Merge ==
  LET i == op.i
      after  == IF i < Len(blocks) /\ ~blocks[i + 1].used THEN i + 1 ELSE i
      before == IF i > 1 /\ ~blocks[i - 1].used THEN i - 1 ELSE i
      whole  == Block(blocks[before].address, End(blocks[after]) - blocks[before].address, FALSE)
  IN /\ Runs /\ op.step = "merge"
     /\ Changes(SubSeq(blocks, 1, before - 1) \o <<whole>> \o SubSeq(blocks, after + 1, Len(blocks)))
     /\ counter' = IF Memheap THEN counter - (after - before) * Header ELSE counter
     /\ op' = NoOp
     /\ UNCHANGED <<algorithm, counted, freePages, faults>>

\* rt_page_alloc and rt_page_free.
TurnPage(p) ==
  /\ algorithm = "slab"
  /\ freePages' = IF p \in freePages THEN freePages \ {p} ELSE freePages \cup {p}
  /\ UNCHANGED <<algorithm, counted, mem, counter, blocks, op, faults>>

\* A task overwrites one word of the heap.
Overwrite(w) ==
  /\ algorithm # "slab" /\ op = NoOp /\ faults < MaxFaults
  /\ \/ \E b \in ToSet(blocks) : mem' = [mem EXCEPT ![b.address].next = w] /\ UNCHANGED counter
     \/ \E b \in ToSet(blocks) : mem' = [mem EXCEPT ![b.address].used = ~@] /\ UNCHANGED counter
     \/ \E b \in ToSet(blocks) : mem' = [mem EXCEPT ![b.address].magic = FALSE] /\ UNCHANGED counter
     \/ counter' = w /\ UNCHANGED mem
  /\ faults' = faults + 1
  /\ UNCHANGED <<algorithm, counted, freePages, blocks, op>>

Next ==
  \/ \E i \in DOMAIN blocks : Unmark(i) \/ \E n \in Requests : Split(i, n)
  \/ Count \/ Mark \/ Discount \/ Merge
  \/ \E p \in 1..Pages : TurnPage(p)
  \/ \E w \in Words : Overwrite(w)

Spec == Init /\ [][Next]_vars

-----------------------------------------------------------------------------
\* diagnostics.py

NoWalk == [found |-> FALSE, blocks |-> << >>, holes |-> << >>, usedBlocks |-> 0, freeBlocks |-> 0,
           truncated |-> FALSE, corrupt |-> FALSE, used |-> None, total |-> None, base |-> 0, end |-> 0]

UsedOf(s) == SelectSeq(s, LAMBDA b : b.used)
FreeOf(s) == SelectSeq(s, LAMBDA b : ~b.used)
Bytes(s) == Total([i \in DOMAIN s |-> s[i].size])
HolesOf(s) == [i \in DOMAIN FreeOf(s) |-> Greater(Payload(FreeOf(s)[i]), 0)]

\* _exact_byte_counts: none unless the walk closed
ExactByteCounts(walk, used, total) ==
  IF walk.ended # "closed" \/ used < 0 \/ total < used THEN <<None, None>> ELSE <<used, total>>

Walked(walk, exact, base, end) ==
  [found |-> TRUE, blocks |-> walk.blocks, holes |-> HolesOf(walk.blocks),
   usedBlocks |-> Len(UsedOf(walk.blocks)), freeBlocks |-> Len(FreeOf(walk.blocks)),
   truncated |-> walk.ended = "truncated", corrupt |-> walk.ended = "corrupt",
   used |-> exact[1], total |-> exact[2], base |-> base, end |-> end]

\* The loop of either walk: at most MaxTraversal turns and the one that ends it.
Chain(Turn(_)) ==
  LET walk[n \in 0..(MaxTraversal + 1)] ==
        IF n = 0 THEN [at |-> Base, blocks |-> << >>, ended |-> "no"]
        ELSE IF walk[n - 1].ended # "no" THEN walk[n - 1] ELSE Turn(walk[n - 1])
  IN walk[MaxTraversal + 1]

Onward(w, i) == [at |-> i.next, blocks |-> Append(w.blocks, Block(w.at, i.next - w.at, i.used)), ended |-> "no"]
Seen(w) == \E b \in ToSet(w.blocks) : b.address = w.at
AtBound(w) == Seen(w) \/ Len(w.blocks) >= MaxTraversal

\* _walk_small_mem_chain, one turn; only the older header has a magic number
SmallTurn(w) ==
  IF w.at = Sentinel THEN [w EXCEPT !.ended = "closed"]
  ELSE IF AtBound(w) THEN [w EXCEPT !.ended = "truncated"]
  ELSE LET i == mem[w.at]
       IN IF \/ algorithm = "small_mem_40" /\ ~i.magic
             \/ i.next <= w.at \/ i.next > Sentinel
          THEN [w EXCEPT !.ended = "corrupt"]
          ELSE Onward(w, i)

\* Mutation: the end sentinel is counted.
MutWalkSmallMem ==
  LET w == Chain(SmallTurn)
  IN IF w.blocks = << >> THEN NoWalk
     ELSE Walked(w, ExactByteCounts(w, Bytes(UsedOf(w.blocks)), Sentinel - Base), Base, Sentinel)

\* the end sentinel is no part of the total
WalkSmallMem ==
  LET w == Chain(SmallTurn)
  IN IF w.blocks = << >> THEN NoWalk
     ELSE Walked(w, ExactByteCounts(w, Bytes(UsedOf(w.blocks)), Sentinel - Base - Header), Base, Sentinel)

\* _walk_memheap, one turn: the tailer, whose link leads back, is no block
MemheapTurn(w) ==
  IF AtBound(w) THEN [w EXCEPT !.ended = "truncated"]
  ELSE IF w.at \notin DOMAIN mem THEN [w EXCEPT !.ended = "corrupt"]
  ELSE IF ~mem[w.at].magic THEN [w EXCEPT !.ended = "corrupt"]
  ELSE IF mem[w.at].next = Base THEN [w EXCEPT !.ended = "closed"]
  ELSE Onward(w, mem[w.at])

WalkMemheap ==
  LET w == Chain(MemheapTurn)
      total == w.at + Header - Base
  IN IF w.blocks = << >> /\ w.ended # "closed" THEN NoWalk
     ELSE Walked(w, ExactByteCounts(w, total - Total(HolesOf(w.blocks)), total), Base, w.at)

\* _walk_slab_pages: the free runs among the pages within the bound
WalkSlabPages ==
  LET limit == Lesser(Pages, MaxTraversal)
      runs  == Groups(freePages \cap 1..limit)
  IN IF limit = 0 THEN NoWalk
     ELSE [NoWalk EXCEPT !.found = TRUE, !.truncated = Pages > MaxTraversal,
             !.freeBlocks = Cardinality(freePages \cap 1..limit),
             !.usedBlocks = limit - Cardinality(freePages \cap 1..limit),
             !.holes = [i \in DOMAIN runs |-> Cardinality(runs[i])]]

WalkSystemHeap ==
  CASE algorithm \in {"small_mem", "small_mem_40"} -> WalkSmallMem
    [] algorithm = "memheap" -> WalkMemheap
    [] algorithm = "slab" -> WalkSlabPages

-----------------------------------------------------------------------------
\* navigation.py get_heap_snapshot, adapter.py heap_info

Snapshot ==
  IF ~counted THEN [used |-> None, total |-> None]
  ELSE [used |-> IF Memheap THEN Greater(counter, 0) ELSE counter,
        total |-> IF Memheap THEN Size ELSE Size - 2 * Header]

\* counters the image does not expose are filled from an exact walk
HeapInfo(walk) ==
  IF ~counted /\ walk.used # None
  THEN [used |-> walk.used, total |-> walk.total, fromWalk |-> TRUE]
  ELSE [used |-> Snapshot.used, total |-> Snapshot.total, fromWalk |-> FALSE]

\* heapviews.py

Overrun(info) == info.used # None /\ info.total # None /\ info.used > info.total

HeapStatus(walk, info) ==
  IF walk.corrupt THEN "corrupt" ELSE IF Overrun(info) THEN "overrun"
  ELSE IF ~walk.found THEN "none" ELSE "good"

\* Mutation: the totals alone are compared.
MutAccountingFinding(walk, info) ==
  IF Overrun(info) THEN "fail"
  ELSE IF walk.used = None \/ info.used = None THEN "skipped"
  ELSE IF walk.total = info.total THEN "ok" ELSE "fail"

AccountingFinding(walk, info) ==
  IF Overrun(info) THEN "fail"
  ELSE IF walk.used = None \/ info.used = None THEN "skipped"
  ELSE IF walk.used = info.used /\ walk.total = info.total THEN "ok" ELSE "fail"

ChainFinding(walk) ==
  IF ~walk.found THEN "skipped" ELSE IF walk.corrupt THEN "fail"
  ELSE IF walk.truncated THEN "skipped" ELSE "ok"

\* heap_map: the blocks read, however the walk ended
HeapMapOf(walk) == [base |-> walk.base, end |-> walk.end, blocks |-> walk.blocks]

-----------------------------------------------------------------------------
Healthy == op = NoOp /\ faults = 0
Fits == IF Memheap THEN Len(blocks) < MaxTraversal
        ELSE IF algorithm = "slab" THEN Pages <= MaxTraversal ELSE Len(blocks) <= MaxTraversal

\* No free block is left of a small_mem heap: its used bytes, headers included,
\* are then more than its total, which leaves out two headers.
Exhausted == ~Memheap /\ algorithm # "slab" /\ FreeOf(blocks) = << >>

\* A heap no call is inside, within the bound, is read as it is: every block,
\* and the kernel's own counters, known or taken from the walk.  Inside a call
\* the chain is whole too, but the counters may differ from it.
HealthyIsRead ==
  LET walk == WalkSystemHeap
      info == HeapInfo(walk)
  IN /\ Fits /\ faults = 0 =>
          /\ ChainFinding(walk) = "ok" /\ (algorithm # "slab" => walk.blocks = blocks)
          /\ HeapStatus(walk, info) # "corrupt"
     /\ Fits /\ Healthy /\ ~Exhausted =>
          /\ HeapStatus(walk, info) = "good"
          /\ algorithm # "slab" => AccountingFinding(walk, info) = "ok" /\ info.used = counter
     /\ algorithm = "slab" => Total(walk.holes) = walk.freeBlocks /\ AccountingFinding(walk, info) = "skipped"
     /\ ~Fits /\ faults = 0 /\ ~Overrun(info) => ChainFinding(walk) = "skipped" /\ AccountingFinding(walk, info) = "skipped"

\* heapviews.py: "overrun" is used exceeding total, a status the help text asks
\* to investigate; a heap nothing overwrote has no such status.
UnharmedIsNoOverrun == Healthy => HeapStatus(WalkSystemHeap, HeapInfo(WalkSystemHeap)) # "overrun"

\* Two "ok" verdicts on a heap with one overwritten word: the free bytes are
\* those that are free, and the blocks of small_mem follow one another.  Those
\* of memheap need not: a link may lead back to a stale header whose own link
\* is still good.
AgreementIsTrue ==
  LET walk == WalkSystemHeap
      info == HeapInfo(walk)
  IN faults = 1 /\ counted /\ ChainFinding(walk) = "ok" /\ AccountingFinding(walk, info) = "ok" =>
       IF Memheap THEN Total(walk.holes) = Total(HolesOf(blocks))
       ELSE /\ Bytes(FreeOf(walk.blocks)) = Bytes(FreeOf(blocks))
            /\ \A i \in 2..Len(walk.blocks) : End(walk.blocks[i - 1]) = walk.blocks[i].address
            /\ \A b \in ToSet(walk.blocks) : b.size > 0

\* However the walk ended, the bytes from the map's base to its end are drawn,
\* each in one run, tiny blocks in a cell of their own; and a block that was
\* read, lies in there and overlaps no other is drawn whole.  That is every
\* block read, but for one case: the map of a memheap ends where its walk did,
\* which is at the value of the last link read, so once a link read leads back,
\* blocks read before it may be cut or missing, all of them if the end comes
\* before the base.  (adapter.py says that only what is past the damage is
\* not drawn.)  The walk of small_mem stops at such a link and loses none.
EveryByteIsDrawn ==
  LET heap  == HeapMapOf(WalkSystemHeap)
      spans == Spans(heap)
      leadsBack == Memheap /\ \E b \in ToSet(heap.blocks) : b.size <= 0
  IN /\ DrawsTheArena(heap, spans, GridLayout(heap))
     /\ RowsAreExact(heap, spans, RowGrid(heap, RowBytes), RowBytes)
     /\ \A i \in DOMAIN heap.blocks :
          IF leadsBack THEN StandsApart(heap, i) => IsWhole(heap, spans, i) ELSE IsWhole(heap, spans, i)

\* No fold hides a used block.
FoldsHideNoUsed ==
  LET heap == HeapMapOf(WalkSystemHeap)
      grid == GridLayout(heap)
  IN HidesNoUsed(heap, Spans(heap), grid, Rasterize(grid))
=============================================================================
