------------------------------ MODULE HeapWalk ------------------------------
(***************************************************************************)
(* freertos/heap.py: the snapshot of the heap of a halted target.  One     *)
(* action is one turn of the loop of walk_free_list or walk_linear; `seen' *)
(* and `steps' of the code are the addresses and the number of the blocks  *)
(* found so far.  The memory is whatever the target left behind.           *)
(*                                                                         *)
(* Pointers are those `_deobfuscate' returns.  A header keeps its size and *)
(* its allocated bit in one word, so that a mask wrongly applied or left   *)
(* out is told apart.  The statistics that are only shown (smallest and    *)
(* largest block, cumulative counts) and the wording of reasons are left   *)
(* out.                                                                    *)
(***************************************************************************)
EXTENDS Integers, Sequences, FiniteSets

CONSTANTS Builds,         \* what the image says of its heap manager
          MaxTraversal,   \* GDR_MAX_TRAVERSAL_COUNT
          Msb             \* 2^(pointer_bits - 1)

VARIABLES build,    \* the image
          mem,      \* the readable block headers
          heap,     \* the kernel's static data
          at,       \* where heap_snapshot is
          list,     \* the HeapWalk of the free list
          linear,   \* the HeapWalk of the extent
          check     \* cross_check

target == <<build, mem, heap>>
reader == <<at, list, linear, check>>
walkVars == <<target, reader>>

NoAddress == -1     \* None in the code
Null == 0

Build == [kind      : {0, 1, 2, 4, 5},  \* 0: heap_3 or no allocator
          bitSince  : BOOLEAN,          \* the version is known and >= V10.5.0
          alignment : Nat,              \* portBYTE_ALIGNMENT, 0 when unknown
          array     : BOOLEAN,          \* the ucHeap symbol resolves
          protector : BOOLEAN]          \* configENABLE_HEAP_PROTECTOR

ASSUME WalkAssumption ==
  /\ Builds \subseteq Build
  /\ MaxTraversal \in Nat
  /\ Msb \in Nat \ {0}

Header == [next : Nat, raw : Nat]

\* xStart.pxNextFreeBlock, pxEnd or &xEnd, xEnd.xBlockSize, xFreeBytesRemaining,
\* the base (align_up(&ucHeap) or pucHeapLowAddress) and pucHeapHighAddress.
Statics == [head : Nat, end : Nat, endSize : Nat, counter : Nat, base : Nat, high : Nat]

IsMemory(m) ==
  /\ DOMAIN m \subseteq Nat
  /\ \A a \in DOMAIN m : m[a] \in Header
  /\ m = [a \in DOMAIN m |-> m[a]]

-----------------------------------------------------------------------------
\* Geometry.

\* heap_2 has no allocated bit before V10.5.0, or so an unknown version is read.
Masked == build.kind # 2 \/ build.bitSince

SizeOf(raw) == IF Masked THEN raw % Msb ELSE raw
CarriesBit(raw) == Masked /\ (raw \div Msb) % 2 = 1

HasBlocks == build.kind \in {2, 4, 5}

\* Both bounds or neither.
Protected == build.protector /\ heap.base # Null /\ heap.high # Null

LinearLow ==
  IF (build.kind = 5 /\ Protected) \/ (build.kind # 5 /\ build.array)
  THEN heap.base ELSE NoAddress

HeapLimit ==
  IF build.kind = 4 THEN heap.end
  ELSE IF build.kind = 5 /\ Protected THEN heap.high
  ELSE IF build.kind = 2 /\ build.array THEN heap.base + heap.endSize
  ELSE NoAddress

\* Mutation: the head of the free list taken for the lowest block.
MutLower == heap.head

\* The free list of heap_2 is sorted by size: its head is not the lowest block.
Lower == IF LinearLow # NoAddress THEN LinearLow ELSE heap.head

Initialised ==
  /\ build.kind # 0
  /\ build.kind = 2 => heap.endSize # 0
  /\ build.kind \in {4, 5} => heap.end # Null

Misaligned(a) == build.alignment # 0 /\ a % build.alignment # 0

-----------------------------------------------------------------------------
\* Walks.

\* A HeapWalk nobody has filled in: no bytes, no blocks, no fault.
NoWalk == [cur |-> NoAddress, blocks |-> << >>, bytes |-> -1, frees |-> 0, holes |-> 0,
           incomplete |-> FALSE, corrupt |-> FALSE, truncated |-> FALSE]

Walk(from) == [NoWalk EXCEPT !.cur = from, !.bytes = 0]

Addresses(blocks) == {blocks[i].address : i \in DOMAIN blocks}
FreeOf(blocks) == {i \in DOMAIN blocks : ~blocks[i].allocated}

Exhausted(walk) == Len(walk.blocks) >= MaxTraversal

\* walk_free_list returns at once without a head or an end marker.
ListStart ==
  IF heap.head = Null \/ heap.end = Null THEN NoWalk ELSE Walk(heap.head)

\* The walk skips an extent with an unknown bound (all of heap_5 without
\* the protector), which leaves it incomplete there.
LinearStart ==
  [IF LinearLow = NoAddress \/ HeapLimit \in {NoAddress, Null} THEN NoWalk ELSE Walk(LinearLow)
     EXCEPT !.incomplete = build.kind = 5]

\* What makes a header on the free list believable.
ListTakes(a) ==
  /\ a \notin Addresses(list.blocks)
  /\ a \in DOMAIN mem
  /\ ~CarriesBit(mem[a].raw)
  /\ ~Misaligned(a)
  /\ HeapLimit # NoAddress => a >= Lower /\ a < HeapLimit

ListDone == list.cur \in {heap.end, NoAddress}

\* What makes a header in the extent believable.
LinearTakes(a) ==
  /\ ~Misaligned(a)
  /\ a \in DOMAIN mem
  /\ SizeOf(mem[a].raw) > 0
  /\ a + SizeOf(mem[a].raw) <= HeapLimit

\* A zero size marks the end of a region of heap_5.
RegionEnd(a) ==
  build.kind = 5 /\ ~Misaligned(a) /\ a \in DOMAIN mem /\ SizeOf(mem[a].raw) = 0

LinearDone == linear.cur = NoAddress \/ linear.cur >= HeapLimit

\* Without the bit, being on the free list is the only sign of a free block.
Allocated(a) ==
  IF Masked THEN CarriesBit(mem[a].raw) ELSE a \notin Addresses(list.blocks)

OpensHole(blocks) == blocks = << >> \/ blocks[Len(blocks)].allocated

-----------------------------------------------------------------------------
\* heap_snapshot, up to the walks.
BeginSnapshot ==
  /\ at = "idle"
  /\ UNCHANGED <<target, linear>>
  /\ IF HasBlocks /\ Initialised
     THEN at' = "list" /\ list' = ListStart /\ UNCHANGED check
     ELSE at' = "done" /\ check' = "unavailable" /\ UNCHANGED list

\* The free list ends, or the walk gives it up; the linear walk is next.
ListStops ==
  /\ at = "list"
  /\ UNCHANGED <<target, check>>
  /\ at' = "linear"
  /\ linear' = LinearStart
  /\ \/ ListDone /\ UNCHANGED list
     \/ /\ ~ListDone /\ Exhausted(list) /\ list.cur # Null
        /\ list' = [list EXCEPT !.truncated = TRUE]
     \/ /\ ~ListDone
        /\ list.cur = Null \/ (~Exhausted(list) /\ ~ListTakes(list.cur))
        /\ list' = [list EXCEPT !.corrupt = TRUE]

ListStep ==
  /\ at = "list" /\ ~ListDone /\ list.cur # Null /\ ~Exhausted(list) /\ ListTakes(list.cur)
  /\ LET header == mem[list.cur]
         size   == SizeOf(header.raw)
     IN list' = [list EXCEPT
          !.cur = header.next,
          !.blocks = Append(list.blocks, [address |-> list.cur, size |-> size]),
          !.bytes = list.bytes + size]
  /\ UNCHANGED <<target, at, linear, check>>

\* Leaving the loop: at the limit, at the end of a region, or at a fault.
LinearStops ==
  /\ at = "linear"
  /\ UNCHANGED <<target, list, check>>
  /\ at' = "check"
  /\ \/ linear.cur = NoAddress /\ UNCHANGED linear
     \/ /\ linear.cur # NoAddress /\ (LinearDone \/ (~Exhausted(linear) /\ RegionEnd(linear.cur)))
        /\ linear' = IF build.kind = 5
                     THEN [linear EXCEPT !.incomplete = linear.cur # heap.end]
                     ELSE [linear EXCEPT !.corrupt = linear.cur # HeapLimit]
     \/ /\ ~LinearDone /\ Exhausted(linear)
        /\ linear' = [linear EXCEPT !.truncated = TRUE]
     \/ /\ ~LinearDone /\ ~Exhausted(linear)
        /\ ~LinearTakes(linear.cur) /\ ~RegionEnd(linear.cur)
        /\ linear' = [linear EXCEPT !.corrupt = TRUE]

LinearStep ==
  /\ at = "linear" /\ ~LinearDone /\ ~Exhausted(linear) /\ LinearTakes(linear.cur)
  /\ LET blocks == linear.blocks
         size   == SizeOf(mem[linear.cur].raw)
         used   == Allocated(linear.cur)
         block  == [address |-> linear.cur, size |-> size, allocated |-> used]
     IN linear' = [linear EXCEPT
          !.cur = linear.cur + size,
          !.blocks = Append(blocks, block),
          !.bytes = linear.bytes + (IF used THEN 0 ELSE size),
          !.frees = linear.frees + (IF used THEN 0 ELSE 1),
          !.holes = linear.holes + (IF ~used /\ OpensHole(blocks) THEN 1 ELSE 0)]
  /\ UNCHANGED <<target, at, list, check>>

\* Mutation: the counter is not compared.
MutAgree ==
  /\ list.bytes = linear.bytes
  /\ Len(list.blocks) = linear.frees
  /\ Masked => Addresses(list.blocks)
               = {linear.blocks[i].address : i \in FreeOf(linear.blocks)}

\* Mutation: sums and counts alone.
MutAgreeSums ==
  /\ list.bytes = linear.bytes /\ heap.counter = list.bytes
  /\ Len(list.blocks) = linear.frees

\* cross_validate.  The sets of addresses are compared where the bit tells them.
Agree ==
  /\ list.bytes = linear.bytes /\ heap.counter = list.bytes
  /\ Len(list.blocks) = linear.frees
  /\ Masked => Addresses(list.blocks)
               = {linear.blocks[i].address : i \in FreeOf(linear.blocks)}

Comparable ==
  /\ build.kind = 5 => linear.blocks # << >> /\ ~linear.incomplete
  /\ ~list.corrupt /\ ~linear.corrupt
  /\ ~list.truncated /\ ~linear.truncated

CrossValidate ==
  /\ at = "check"
  /\ at' = "done"
  /\ check' = IF ~Comparable THEN "unavailable" ELSE IF Agree THEN "ok" ELSE "mismatch"
  /\ UNCHANGED <<target, list, linear>>

Read == BeginSnapshot \/ ListStops \/ ListStep \/ LinearStops \/ LinearStep \/ CrossValidate

\* GDB reads a halted target: it resumes only once the snapshot is taken, and
\* leaves any memory at its next halt.
Resume ==
  /\ at \in {"idle", "done"}
  /\ at' = "idle" /\ list' = NoWalk /\ linear' = NoWalk /\ check' = "none"
  /\ IsMemory(mem') /\ heap' \in Statics
  /\ UNCHANGED build

\* heap_status.
HeapStatus ==
  CASE ~(build.kind # 0 /\ Initialised) -> "none"
    [] check = "mismatch" -> "corrupt"
    [] list.corrupt \/ list.truncated \/ linear.corrupt \/ linear.truncated -> "corrupt"
    [] OTHER -> "good"

-----------------------------------------------------------------------------
\* What is shown of a snapshot; a cell that is N/A and a row left out are << >>.

\* _walk_suffix
Suffix(walk) == IF walk.corrupt THEN "corrupt" ELSE IF walk.truncated THEN "truncated" ELSE ""

\* _heap_cross_check: a verdict that is withheld is a skipped check.
HeapCrossCheck ==
  CASE check = "ok" -> "ok" [] check = "mismatch" -> "fail" [] OTHER -> "skipped"

\* heap_pairs: blocks on the free list, holes of the extent, and no row for an ok.
HeapPairs ==
  LET walked == HasBlocks /\ Initialised
  IN [Blocks     |-> IF walked THEN <<Len(list.blocks), Suffix(list)>> ELSE << >>,
      Holes      |-> IF walked /\ linear.bytes # -1 THEN <<linear.holes, Suffix(linear)>> ELSE << >>,
      CrossCheck |-> IF HeapCrossCheck = "ok" THEN << >> ELSE <<HeapCrossCheck>>]

\* heap_block_table: the linear walk tells free from allocated; without one the
\* free list is the table.
HeapBlockTable ==
  LET Row(b, state) == [address |-> b.address, size |-> b.size, state |-> state]
  IN IF linear.blocks # << >>
     THEN [i \in DOMAIN linear.blocks |->
             Row(linear.blocks[i], IF linear.blocks[i].allocated THEN "alloc" ELSE "free")]
     ELSE [i \in DOMAIN list.blocks |-> Row(list.blocks[i], "listed")]

\* heap_report: both of one snapshot, and what the rows are said to be.
HeapReport ==
  [pairs |-> HeapPairs, rows |-> HeapBlockTable,
   title |-> IF linear.blocks # << >> THEN "Heap blocks" ELSE "Free list"]

-----------------------------------------------------------------------------
WalkInit ==
  /\ build \in Builds /\ IsMemory(mem) /\ heap \in Statics
  /\ at = "idle" /\ list = NoWalk /\ linear = NoWalk /\ check = "none"

WalkNext == Read \/ Resume
WalkSpec == WalkInit /\ [][WalkNext]_walkVars

-----------------------------------------------------------------------------
\* Properties.

ListBlock == [address : Nat, size : Nat]
LinearBlock == [address : Nat, size : Nat \ {0}, allocated : BOOLEAN]
WalkOver(blocks) ==
  [cur : Nat \cup {NoAddress}, blocks : blocks, bytes : Nat \cup {-1}, frees : Nat,
   holes : Nat, incomplete : BOOLEAN, corrupt : BOOLEAN, truncated : BOOLEAN]

\* The types of the image, of what it left in memory and of both walks.
WalkTypeOK ==
  /\ build \in Builds /\ IsMemory(mem) /\ heap \in Statics
  /\ at \in {"idle", "list", "linear", "check", "done"}
  /\ list \in WalkOver(Seq(ListBlock))
  /\ linear \in WalkOver(Seq(LinearBlock))
  /\ check \in {"none", "ok", "mismatch", "unavailable"}

\* However the chain is bent, no walk visits more blocks than the traversal
\* bound of the code allows, and the free list holds no block twice.
WalksAreBounded ==
  /\ Len(list.blocks) <= MaxTraversal /\ Len(linear.blocks) <= MaxTraversal
  /\ \A i, j \in DOMAIN list.blocks :
       list.blocks[i].address = list.blocks[j].address => i = j

\* The blocks of the linear walk tile the extent from its base up to where the
\* walk is: nothing below the free-list head is left out, and none overlap.
LinearTiles ==
  linear.blocks # << >> =>
    LET b == linear.blocks
        n == Len(b)
    IN /\ b[1].address = LinearLow
       /\ \A i \in 1..(n - 1) : b[i + 1].address = b[i].address + b[i].size
       /\ linear.cur = b[n].address + b[n].size
       /\ linear.cur <= HeapLimit

\* An "ok" of cross_validate is worth more than what it compares, which is
\* sums, counts and (where the bit exists) addresses: both walks then report
\* the same free blocks with the same sizes, in heap_2 before the bit as well.
OkIsAgreement ==
  at = "done" /\ check = "ok" =>
    {list.blocks[i] : i \in DOMAIN list.blocks}
      = {[address |-> linear.blocks[i].address, size |-> linear.blocks[i].size]
          : i \in FreeOf(linear.blocks)}

\* After an "ok" no two blocks of the kernel's free list overlap, although the
\* free-list walk never compares extents.
OkIsDisjoint ==
  at = "done" /\ check = "ok" =>
    \A i, j \in DOMAIN list.blocks : i # j =>
      LET a == list.blocks[i]
          b == list.blocks[j]
      IN a.address + a.size <= b.address \/ b.address + b.size <= a.address
=============================================================================
