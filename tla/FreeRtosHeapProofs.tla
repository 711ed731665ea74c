------------------------- MODULE FreeRtosHeapProofs -------------------------
(***************************************************************************)
(* Theorems about the FreeRTOS heap snapshot, for every memory, every      *)
(* image, every heap and every traversal bound.                            *)
(*                                                                         *)
(* The walks, over any memory.  Both take the size of a block from the     *)
(* same header of the same memory, since the target is halted (ListShape,  *)
(* LinearShape), so agreement on addresses is agreement on blocks.  Sizes  *)
(* in the extent are positive, so its blocks lie one after the other and   *)
(* are distinct; those of the free list are distinct because the walk      *)
(* looks for cycles.  Without the allocated bit a free block of the extent *)
(* is one of the free list, and an equal count makes the two sets equal.   *)
(* An "ok" therefore carries the tiling of the extent over to the free     *)
(* list.  Trace adds what a finished walk has followed: which link, how    *)
(* many bytes, how many holes, and for which reason it stopped.            *)
(*                                                                         *)
(* The kernel.  KernelInv is inductive.  The blocks of the free list, the  *)
(* allocated ones, those being freed and the one malloc holds fill the     *)
(* regions: each but the last of a region is followed by another, and no   *)
(* two overlap (Laid).  Every block starts on a cell, so merging and       *)
(* splitting keep headers inside the heap (Sound, Merged).  The links and  *)
(* sizes in memory are those of the blocks, and the counter is the sum of  *)
(* the free ones, until the first fault; after one fault every size still  *)
(* is that of its block, or every link and all sizes but one (OneOff).     *)
(*                                                                         *)
(* Together.  Where memory is true, the walk of the free list is the list, *)
(* by induction along it, and that of the extent meets each block that     *)
(* fills it, by induction on addresses.  An overwritten link, head or      *)
(* counter does not bend the walk of the extent, and an ok makes the list *)
(* agree with it; an overwritten size does not bend the list, and the      *)
(* counter then leaves no room for one false size.                         *)
(***************************************************************************)
EXTENDS FreeRtosHeap, TLAPS, SequenceTheorems, FiniteSetTheorems, WellFoundedInduction

\* What the free-list walk has found.
ListShape ==
  /\ at = "idle" => list = NoWalk
  /\ list.cur # NoAddress => list.bytes \in Nat
  /\ Len(list.blocks) <= MaxTraversal
  /\ \A i, j \in DOMAIN list.blocks :
       list.blocks[i].address = list.blocks[j].address => i = j
  /\ \A i \in DOMAIN list.blocks :
       /\ list.blocks[i].address \in DOMAIN mem
       /\ list.blocks[i].size = SizeOf(mem[list.blocks[i].address].raw)

\* What the linear walk has found.
LinearShape ==
  /\ at \in {"idle", "list"} => linear = NoWalk
  /\ Len(linear.blocks) <= MaxTraversal
  /\ linear.cur = NoAddress => linear.blocks = << >>
  /\ linear.cur # NoAddress =>
       linear.bytes \in Nat /\ LinearLow # NoAddress /\ HeapLimit # NoAddress
  /\ linear.blocks = << >> => linear.cur \in {NoAddress, LinearLow}
  /\ \A i \in DOMAIN linear.blocks :
       LET b == linear.blocks[i]
       IN /\ b.address \in DOMAIN mem
          /\ b.size = SizeOf(mem[b.address].raw)
          /\ b.allocated = Allocated(b.address)
          /\ b.address + b.size <= linear.cur
  /\ \A i, j \in DOMAIN linear.blocks :
       i < j => linear.blocks[i].address + linear.blocks[i].size <= linear.blocks[j].address

\* The count of free blocks.
Counted ==
  /\ IsFiniteSet(FreeOf(linear.blocks))
  /\ linear.frees = Cardinality(FreeOf(linear.blocks))

\* An "ok" is the verdict on the walks at hand.
Verdict == check = "ok" => at = "done" /\ Agree

Inv == WalkTypeOK /\ ListShape /\ LinearShape /\ LinearTiles /\ Counted /\ Verdict

-----------------------------------------------------------------------------
\* A size is a natural number.
LEMMA SizeIsNat ==
  ASSUME NEW r \in Nat
  PROVE  SizeOf(r) \in Nat
<1>1. r % Msb \in Nat
  BY WalkAssumption
<1> QED BY <1>1 DEF SizeOf

\* The bounds of the extent.
LEMMA BoundTypes ==
  ASSUME build \in Builds, heap \in Statics
  PROVE  LinearLow \in Nat \cup {NoAddress} /\ HeapLimit \in Nat \cup {NoAddress}
BY WalkAssumption DEF LinearLow, HeapLimit, Statics, NoAddress, Protected, Null

\* A halted target gives the same answers at every step of a snapshot.
LEMMA Halted ==
  ASSUME UNCHANGED target
  PROVE  /\ build' = build /\ mem' = mem /\ heap' = heap
         /\ LinearLow' = LinearLow /\ HeapLimit' = HeapLimit
         /\ Masked' = Masked
         /\ \A r : SizeOf(r)' = SizeOf(r)
         /\ \A r : CarriesBit(r)' = CarriesBit(r)
<1>1. build' = build /\ mem' = mem /\ heap' = heap
  BY DEF target
<1>2. Masked' = Masked /\ Protected' = Protected
  BY <1>1 DEF Masked, Protected
<1>3. LinearLow' = LinearLow
  BY <1>1, <1>2 DEF LinearLow
<1>4. HeapLimit' = HeapLimit
  BY <1>1, <1>2 DEF HeapLimit
<1>5. \A r : SizeOf(r)' = SizeOf(r)
  BY <1>2 DEF SizeOf
<1>6. \A r : CarriesBit(r)' = CarriesBit(r)
  BY <1>2 DEF CarriesBit
<1> QED BY <1>1, <1>2, <1>3, <1>4, <1>5, <1>6

\* A walk that has not begun, and one about to.
LEMMA EmptyWalks ==
  /\ NoWalk \in WalkOver(Seq(ListBlock)) /\ NoWalk \in WalkOver(Seq(LinearBlock))
  /\ NoWalk.cur = NoAddress /\ NoWalk.blocks = << >> /\ NoWalk.frees = 0
  /\ \A a \in Nat : /\ Walk(a) \in WalkOver(Seq(ListBlock))
                    /\ Walk(a) \in WalkOver(Seq(LinearBlock))
                    /\ Walk(a).cur = a /\ Walk(a).bytes = 0
                    /\ Walk(a).blocks = << >> /\ Walk(a).frees = 0
<1>1. /\ NoWalk \in WalkOver(Seq(ListBlock)) /\ NoWalk \in WalkOver(Seq(LinearBlock))
      /\ NoWalk.cur = NoAddress /\ NoWalk.blocks = << >> /\ NoWalk.frees = 0
  BY DEF NoWalk, WalkOver, NoAddress
<1> QED BY <1>1 DEF Walk, WalkOver

\* Walks that found nothing satisfy every part of the invariant.
LEMMA NothingFound ==
  ASSUME WalkTypeOK, list = NoWalk, linear = NoWalk, check # "ok"
  PROVE  Inv
<1>1. ListShape
  BY EmptyWalks, WalkAssumption DEF ListShape, WalkTypeOK
<1>2. LinearShape /\ LinearTiles
  BY EmptyWalks, WalkAssumption DEF LinearShape, LinearTiles, WalkTypeOK
<1>3. Counted
  BY EmptyWalks, FS_EmptySet DEF Counted, FreeOf
<1>4. Verdict
  BY DEF Verdict
<1> QED BY <1>1, <1>2, <1>3, <1>4 DEF Inv


\* The free-list walk goes on: one more block, of an address it has not seen.
LEMMA ListStepKeeps ==
  ASSUME Inv, ListStep
  PROVE  Inv'
<1> DEFINE a == list.cur
           n == SizeOf(mem[a].raw)
           b == [address |-> a, size |-> n]
           s == list.blocks
<1>0. WalkTypeOK /\ ListShape /\ at = "list" /\ at' = "list" /\ UNCHANGED <<target, linear, check>>
  BY DEF Inv, ListStep
<1>1. list \in WalkOver(Seq(ListBlock)) /\ s \in Seq(ListBlock)
  BY <1>0 DEF WalkTypeOK, WalkOver
<1>2. a # NoAddress /\ a \in DOMAIN mem /\ a \notin Addresses(s)
  BY DEF ListStep, ListDone, ListTakes
<1>3. a \in Nat /\ mem[a] \in Header
  BY <1>0, <1>1, <1>2 DEF WalkTypeOK, IsMemory
<1>4. n \in Nat /\ b \in ListBlock
  BY <1>3, SizeIsNat DEF Header, ListBlock
<1>5. list.bytes \in Nat
  BY <1>0, <1>2 DEF ListShape
<1>6. list' = [list EXCEPT !.cur = mem[a].next, !.blocks = Append(s, b), !.bytes = list.bytes + n]
  BY DEF ListStep
<1>7. /\ Append(s, b) \in Seq(ListBlock) /\ Len(Append(s, b)) = Len(s) + 1
      /\ \A i \in 1..Len(s) : Append(s, b)[i] = s[i]
      /\ Append(s, b)[Len(s) + 1] = b
  BY <1>1, <1>4, AppendProperties
<1>8. list.bytes + n \in Nat
  BY <1>4, <1>5
<1>9. mem[a].next \in Nat
  BY <1>3 DEF Header
<1>10. /\ list' \in WalkOver(Seq(ListBlock))
       /\ list'.blocks = Append(s, b) /\ list'.cur = mem[a].next /\ list'.bytes \in Nat
  BY <1>1, <1>6, <1>7, <1>8, <1>9 DEF WalkOver
<1>11. build' = build /\ mem' = mem /\ heap' = heap /\ linear' = linear /\ check' = check
  BY <1>0, Halted
<1>12. WalkTypeOK'
  BY <1>0, <1>10, <1>11 DEF WalkTypeOK, IsMemory
<1>13. Len(s) < MaxTraversal
  BY <1>1, WalkAssumption DEF ListStep, Exhausted
<1>14. DOMAIN s = 1..Len(s) /\ DOMAIN Append(s, b) = 1..(Len(s) + 1) /\ Len(s) \in Nat
  BY <1>1, <1>7
<1>15. \A i \in DOMAIN s : s[i].address # a
  BY <1>2 DEF Addresses
<1>16. ListShape'
  <2>1. Len(list'.blocks) <= MaxTraversal
    BY <1>7, <1>10, <1>13, <1>14, WalkAssumption
  <2>2. \A i, j \in DOMAIN list'.blocks :
          list'.blocks[i].address = list'.blocks[j].address => i = j
    BY <1>0, <1>7, <1>10, <1>14, <1>15 DEF ListShape
  <2>3. \A i \in DOMAIN list'.blocks :
          /\ list'.blocks[i].address \in DOMAIN mem
          /\ list'.blocks[i].size = SizeOf(mem[list'.blocks[i].address].raw)
    BY <1>0, <1>2, <1>7, <1>10, <1>14 DEF ListShape
  <2>4. \A r : SizeOf(r)' = SizeOf(r)
    BY <1>0, Halted
  <2> QED BY <1>0, <1>10, <1>11, <2>1, <2>2, <2>3, <2>4 DEF ListShape
<1>17. linear = NoWalk
  BY <1>0 DEF Inv, LinearShape
<1>18. LinearShape' /\ LinearTiles'
  BY <1>0, <1>11, <1>17, EmptyWalks, WalkAssumption DEF LinearShape, LinearTiles
<1>19. Counted' /\ Verdict'
  BY <1>0, <1>11 DEF Inv, Counted, Verdict, FreeOf
<1> QED BY <1>12, <1>16, <1>18, <1>19 DEF Inv

\* The walk of the free list is over and that of the extent begins.
LEMMA ListStopsKeeps ==
  ASSUME Inv, ListStops
  PROVE  Inv'
<1>0. WalkTypeOK /\ ListShape /\ at = "list" /\ at' = "linear" /\ UNCHANGED <<target, check>>
  BY DEF Inv, ListStops
<1>1. build' = build /\ mem' = mem /\ heap' = heap /\ check' = check
  BY <1>0, Halted
<1>2. list \in WalkOver(Seq(ListBlock))
  BY <1>0 DEF WalkTypeOK
<1>3. \/ list' = list
      \/ list' = [list EXCEPT !.truncated = TRUE]
      \/ list' = [list EXCEPT !.corrupt = TRUE]
  BY DEF ListStops
<1>4. /\ list' \in WalkOver(Seq(ListBlock))
      /\ list'.blocks = list.blocks /\ list'.cur = list.cur /\ list'.bytes = list.bytes
  BY <1>2, <1>3 DEF WalkOver
<1>5. LinearLow \in Nat \cup {NoAddress} /\ HeapLimit \in Nat \cup {NoAddress}
  BY <1>0, BoundTypes DEF WalkTypeOK
<1> DEFINE w == IF LinearLow = NoAddress \/ HeapLimit \in {NoAddress, Null}
                THEN NoWalk ELSE Walk(LinearLow)
<1>6. /\ w \in WalkOver(Seq(LinearBlock)) /\ w.blocks = << >> /\ w.frees = 0
      /\ \/ w.cur = NoAddress
         \/ /\ w.cur = LinearLow /\ w.bytes = 0
            /\ LinearLow # NoAddress /\ HeapLimit # NoAddress
  BY <1>5, EmptyWalks
<1>7. linear' = [w EXCEPT !.incomplete = build.kind = 5]
  BY DEF ListStops, LinearStart
<1> HIDE DEF w
<1>8. linear' \in WalkOver(Seq(LinearBlock))
  BY <1>6, <1>7 DEF WalkOver
<1>9. /\ linear'.blocks = << >> /\ linear'.frees = 0
      /\ linear'.cur = w.cur /\ linear'.bytes = w.bytes
  BY <1>6, <1>7 DEF WalkOver
<1>10. WalkTypeOK'
  BY <1>0, <1>1, <1>4, <1>8 DEF WalkTypeOK, IsMemory
<1>11. ListShape'
  <2>1. \A r : SizeOf(r)' = SizeOf(r)
    BY <1>0, Halted
  <2> QED BY <1>0, <1>1, <1>4, <2>1 DEF ListShape
<1>12. LinearShape'
  BY <1>0, <1>6, <1>9, Halted, WalkAssumption DEF LinearShape
<1>13. LinearTiles'
  BY <1>9 DEF LinearTiles
<1>14. Counted'
  BY <1>9, FS_EmptySet DEF Counted, FreeOf
<1>15. Verdict'
  BY <1>0, <1>1 DEF Inv, Verdict
<1> QED BY <1>10, <1>11, <1>12, <1>13, <1>14, <1>15 DEF Inv


\* Whether a block is allocated does not change while the target is halted and
\* the free list is known.
LEMMA SameAllocated ==
  ASSUME UNCHANGED target, list'.blocks = list.blocks
  PROVE  \A a : Allocated(a)' = Allocated(a)
BY Halted DEF Allocated, Addresses

\* The linear walk goes on: one more block, right after the last.
LEMMA LinearStepKeeps ==
  ASSUME Inv, LinearStep
  PROVE  Inv'
<1> DEFINE a == linear.cur
           n == SizeOf(mem[a].raw)
           u == Allocated(a)
           b == [address |-> a, size |-> n, allocated |-> u]
           s == linear.blocks
           t == Append(s, b)
<1>0. /\ WalkTypeOK /\ ListShape /\ LinearShape /\ LinearTiles /\ Counted /\ Verdict
      /\ at = "linear" /\ at' = "linear" /\ UNCHANGED <<target, list, check>>
  BY DEF Inv, LinearStep
<1>1. linear \in WalkOver(Seq(LinearBlock)) /\ s \in Seq(LinearBlock)
  BY <1>0 DEF WalkTypeOK, WalkOver
<1>2. a # NoAddress /\ a \in DOMAIN mem /\ n > 0 /\ a + n <= HeapLimit
  BY DEF LinearStep, LinearDone, LinearTakes
<1>3. a \in Nat /\ mem[a] \in Header
  BY <1>0, <1>1, <1>2 DEF WalkTypeOK, IsMemory
<1>4. n \in Nat \ {0}
  BY <1>2, <1>3, SizeIsNat DEF Header
<1>5. u \in BOOLEAN
  BY DEF Allocated, CarriesBit
<1>6. b \in LinearBlock
  BY <1>3, <1>4, <1>5 DEF LinearBlock
<1>7. /\ t \in Seq(LinearBlock) /\ Len(t) = Len(s) + 1
      /\ \A i \in 1..Len(s) : t[i] = s[i]
      /\ t[Len(s) + 1] = b
  BY <1>1, <1>6, AppendProperties
<1>8. DOMAIN s = 1..Len(s) /\ DOMAIN t = 1..(Len(s) + 1) /\ Len(s) \in Nat
  BY <1>1, <1>7
<1>9. linear.bytes \in Nat /\ LinearLow # NoAddress /\ HeapLimit # NoAddress
  BY <1>0, <1>2 DEF LinearShape
<1>10. linear' = [linear EXCEPT
          !.cur = a + n,
          !.blocks = t,
          !.bytes = linear.bytes + (IF u THEN 0 ELSE n),
          !.frees = linear.frees + (IF u THEN 0 ELSE 1),
          !.holes = linear.holes + (IF ~u /\ OpensHole(s) THEN 1 ELSE 0)]
  BY DEF LinearStep
<1>11. linear.frees \in Nat /\ linear.holes \in Nat
  BY <1>1 DEF WalkOver
<1> HIDE DEF n, u, b, s, t
<1>12. /\ linear' \in WalkOver(Seq(LinearBlock))
       /\ linear'.blocks = t /\ linear'.cur = a + n /\ linear'.bytes \in Nat
       /\ linear'.frees = linear.frees + (IF u THEN 0 ELSE 1)
  <2>1. /\ a + n \in Nat
        /\ linear.bytes + (IF u THEN 0 ELSE n) \in Nat
        /\ linear.frees + (IF u THEN 0 ELSE 1) \in Nat
        /\ linear.holes + (IF ~u /\ OpensHole(s) THEN 1 ELSE 0) \in Nat
    BY <1>3, <1>4, <1>9, <1>11
  <2> QED BY <1>1, <1>7, <1>9, <1>4, <1>10, <2>1 DEF WalkOver
<1>13. build' = build /\ mem' = mem /\ heap' = heap /\ list' = list /\ check' = check
  BY <1>0, Halted
<1>14. WalkTypeOK'
  BY <1>0, <1>12, <1>13 DEF WalkTypeOK, IsMemory
<1>15. ListShape'
  <2>1. \A r : SizeOf(r)' = SizeOf(r)
    BY <1>0, Halted
  <2> QED BY <1>0, <1>13, <2>1 DEF ListShape
<1>16. b.address = a /\ b.size = n /\ b.allocated = u
  BY DEF b
<1>17. \A i \in 1..Len(s) :
         /\ s[i].address \in Nat /\ s[i].size \in Nat \ {0}
         /\ s[i].address \in DOMAIN mem
         /\ s[i].size = SizeOf(mem[s[i].address].raw)
         /\ s[i].allocated = Allocated(s[i].address)
         /\ s[i].address + s[i].size <= a
  <2>1. s \in Seq(LinearBlock) /\ DOMAIN s = 1..Len(s)
    BY <1>1, <1>8 DEF s
  <2>2. \A i \in 1..Len(s) : s[i] \in LinearBlock
    BY <2>1
  <2>3. \A i \in 1..Len(s) :
         /\ s[i].address \in DOMAIN mem
         /\ s[i].size = SizeOf(mem[s[i].address].raw)
         /\ s[i].allocated = Allocated(s[i].address)
         /\ s[i].address + s[i].size <= a
    BY <1>0, <2>1 DEF LinearShape, s
  <2> QED BY <2>2, <2>3 DEF LinearBlock
<1>18. \A i, j \in 1..Len(s) : i < j => s[i].address + s[i].size <= s[j].address
  BY <1>0, <1>8 DEF LinearShape, s
<1>19. Len(s) < MaxTraversal
  BY <1>8, WalkAssumption DEF LinearStep, Exhausted, s
<1>20. LinearShape'
  <2>1. Len(t) <= MaxTraversal /\ t # << >>
    BY <1>7, <1>8, <1>19, WalkAssumption
  <2>2. \A i \in DOMAIN t :
          /\ t[i].address \in DOMAIN mem
          /\ t[i].size = SizeOf(mem[t[i].address].raw)
          /\ t[i].allocated = Allocated(t[i].address)
          /\ t[i].address + t[i].size <= a + n
    <3>1. \A i \in 1..Len(s) : t[i].address + t[i].size <= a + n
      BY <1>3, <1>4, <1>7, <1>17
    <3>2. b.size = SizeOf(mem[b.address].raw) /\ b.allocated = Allocated(b.address)
      BY DEF b, n, u
    <3> QED BY <1>2, <1>3, <1>4, <1>7, <1>8, <1>16, <1>17, <3>1, <3>2
  <2>3. \A i, j \in DOMAIN t : i < j => t[i].address + t[i].size <= t[j].address
    BY <1>7, <1>8, <1>16, <1>17, <1>18
  <2>4. (\A r : SizeOf(r)' = SizeOf(r)) /\ LinearLow' = LinearLow /\ HeapLimit' = HeapLimit
    BY <1>0, Halted
  <2>5. \A x : Allocated(x)' = Allocated(x)
    BY <1>0, <1>13, SameAllocated
  <2>6. linear'.cur # NoAddress
    BY <1>3, <1>4, <1>12 DEF NoAddress
  <2> QED BY <1>0, <1>9, <1>12, <1>13, <2>1, <2>2, <2>3, <2>4, <2>5, <2>6 DEF LinearShape
<1>21. LinearTiles'
  <2>1. t[1].address = LinearLow
    <3>1. CASE s = << >>
      <4>1. a = LinearLow
        BY <1>0, <1>2, <3>1 DEF LinearShape, s
      <4> QED BY <1>7, <1>8, <1>16, <3>1, <4>1
    <3>2. CASE s # << >>
      <4>1. s[1].address = LinearLow
        BY <1>0, <3>2 DEF LinearTiles, s
      <4>2. 1 \in 1..Len(s)
        BY <1>1, <1>8, <3>2 DEF s
      <4> QED BY <1>7, <4>1, <4>2
    <3> QED BY <3>1, <3>2
  <2>2. \A i \in 1..(Len(t) - 1) : t[i + 1].address = t[i].address + t[i].size
    <3> SUFFICES ASSUME NEW i \in 1..Len(s)
                 PROVE  t[i + 1].address = s[i].address + s[i].size
      BY <1>7, <1>8
    <3>1. s # << >>
      BY <1>1, <1>8 DEF s
    <3>2. CASE i = Len(s)
      BY <1>0, <1>7, <1>8, <1>16, <3>1, <3>2 DEF LinearTiles, s
    <3>3. CASE i < Len(s)
      <4>1. i \in 1..(Len(s) - 1) /\ i + 1 \in 1..Len(s)
        BY <1>8, <3>3
      <4>2. s[i + 1].address = s[i].address + s[i].size
        BY <1>0, <3>1, <4>1 DEF LinearTiles, s
      <4> QED BY <1>7, <4>1, <4>2
    <3>4. Len(s) \in Nat
      BY <1>8
    <3>5. i = Len(s) \/ i < Len(s)
      BY <3>4
    <3> QED BY <3>2, <3>3, <3>5
  <2>3. LinearLow' = LinearLow /\ HeapLimit' = HeapLimit
    BY <1>0, Halted
  <2>4. a + n = t[Len(t)].address + t[Len(t)].size
    BY <1>7, <1>16
  <2>5. a + n <= HeapLimit
    BY <1>2 DEF n
  <2> QED BY <1>12, <2>1, <2>2, <2>3, <2>4, <2>5 DEF LinearTiles
<1>22. Counted'
  <2>1. FreeOf(t) = IF u THEN FreeOf(s) ELSE FreeOf(s) \cup {Len(s) + 1}
    BY <1>5, <1>7, <1>8, <1>16 DEF FreeOf
  <2>2. Len(s) + 1 \notin FreeOf(s)
    BY <1>8 DEF FreeOf
  <2>3. IsFiniteSet(FreeOf(s)) /\ linear.frees = Cardinality(FreeOf(s))
    BY <1>0 DEF Counted, s
  <2>4. /\ IsFiniteSet(FreeOf(s) \cup {Len(s) + 1})
        /\ Cardinality(FreeOf(s) \cup {Len(s) + 1}) = Cardinality(FreeOf(s)) + 1
    BY <2>2, <2>3, FS_AddElement
  <2>0. FreeOf(linear.blocks)' = FreeOf(t)
    BY <1>12 DEF FreeOf
  <2>5. CASE u
    BY <1>11, <1>12, <2>0, <2>1, <2>3, <2>5 DEF Counted
  <2>6. CASE ~u
    BY <1>11, <1>12, <2>0, <2>1, <2>3, <2>4, <2>6 DEF Counted
  <2> QED BY <2>5, <2>6
<1>23. Verdict'
  BY <1>0, <1>13 DEF Verdict
<1> QED BY <1>14, <1>15, <1>20, <1>21, <1>22, <1>23 DEF Inv

\* The linear walk is over.
LEMMA LinearStopsKeeps ==
  ASSUME Inv, LinearStops
  PROVE  Inv'
<1>0. /\ WalkTypeOK /\ ListShape /\ LinearShape /\ LinearTiles /\ Counted /\ Verdict
      /\ at = "linear" /\ at' = "check" /\ UNCHANGED <<target, list, check>>
  BY DEF Inv, LinearStops
<1>1. /\ build' = build /\ mem' = mem /\ heap' = heap /\ list' = list /\ check' = check
      /\ LinearLow' = LinearLow /\ HeapLimit' = HeapLimit
      /\ \A r : SizeOf(r)' = SizeOf(r)
      /\ \A x : Allocated(x)' = Allocated(x)
  BY <1>0, Halted, SameAllocated
<1>2. linear \in WalkOver(Seq(LinearBlock))
  BY <1>0 DEF WalkTypeOK
<1>3. \/ linear' = linear
      \/ \E x \in BOOLEAN : \/ linear' = [linear EXCEPT !.incomplete = x]
                            \/ linear' = [linear EXCEPT !.corrupt = x]
                            \/ linear' = [linear EXCEPT !.truncated = x]
  BY DEF LinearStops
<1>4. /\ linear' \in WalkOver(Seq(LinearBlock))
      /\ linear'.blocks = linear.blocks /\ linear'.cur = linear.cur
      /\ linear'.bytes = linear.bytes /\ linear'.frees = linear.frees
  BY <1>2, <1>3 DEF WalkOver
<1>5. WalkTypeOK' /\ ListShape'
  BY <1>0, <1>1, <1>4 DEF WalkTypeOK, IsMemory, ListShape
<1>6. LinearShape'
  BY <1>0, <1>1, <1>4 DEF LinearShape
<1>7. LinearTiles' /\ Counted'
  BY <1>0, <1>1, <1>4 DEF LinearTiles, Counted, FreeOf
<1>8. Verdict'
  BY <1>0, <1>1 DEF Verdict
<1> QED BY <1>5, <1>6, <1>7, <1>8 DEF Inv

\* The verdict.
LEMMA CrossValidateKeeps ==
  ASSUME Inv, CrossValidate
  PROVE  Inv'
<1>0. /\ WalkTypeOK /\ ListShape /\ LinearShape /\ LinearTiles /\ Counted
      /\ at = "check" /\ at' = "done" /\ UNCHANGED <<target, list, linear>>
  BY DEF Inv, CrossValidate
<1>1. /\ build' = build /\ mem' = mem /\ heap' = heap /\ list' = list /\ linear' = linear
      /\ LinearLow' = LinearLow /\ HeapLimit' = HeapLimit /\ Masked' = Masked
      /\ \A r : SizeOf(r)' = SizeOf(r)
      /\ \A x : Allocated(x)' = Allocated(x)
  BY <1>0, Halted, SameAllocated
<1>2. WalkTypeOK' /\ ListShape'
  BY <1>0, <1>1 DEF WalkTypeOK, IsMemory, ListShape, CrossValidate
<1>3. LinearShape'
  BY <1>0, <1>1 DEF LinearShape
<1>4. LinearTiles' /\ Counted'
  BY <1>0, <1>1 DEF LinearTiles, Counted
<1>5. Agree' = Agree
  BY <1>1 DEF Agree, Addresses, FreeOf
<1>6. check' = "ok" => Agree
  BY DEF CrossValidate
<1>7. Verdict'
  BY <1>0, <1>5, <1>6 DEF Verdict
<1> QED BY <1>2, <1>3, <1>4, <1>7 DEF Inv

\* A snapshot begins.
LEMMA BeginSnapshotKeeps ==
  ASSUME Inv, BeginSnapshot
  PROVE  Inv'
<1>0. /\ WalkTypeOK /\ at = "idle" /\ UNCHANGED <<target, linear>>
      /\ linear = NoWalk /\ list = NoWalk /\ check # "ok"
  BY DEF Inv, BeginSnapshot, LinearShape, ListShape, Verdict
<1>1. build' = build /\ mem' = mem /\ heap' = heap /\ linear' = NoWalk
  BY <1>0, Halted
<1>2. heap.head \in Nat
  BY <1>0 DEF WalkTypeOK, Statics
<1>3. /\ list' \in WalkOver(Seq(ListBlock)) /\ list'.blocks = << >>
      /\ list'.cur # NoAddress => list'.bytes \in Nat
  BY <1>0, <1>2, EmptyWalks DEF BeginSnapshot, ListStart
<1>4. check' # "ok" /\ check' \in {"none", "mismatch", "unavailable"} /\ at' \in {"list", "done"}
  BY <1>0 DEF BeginSnapshot, WalkTypeOK
<1>5. WalkTypeOK'
  BY <1>0, <1>1, <1>3, <1>4 DEF WalkTypeOK, IsMemory
<1>6. ListShape'
  BY <1>3, <1>4, WalkAssumption DEF ListShape
<1>7. LinearShape' /\ LinearTiles'
  BY <1>1, <1>4, EmptyWalks, WalkAssumption DEF LinearShape, LinearTiles
<1>8. Counted'
  BY <1>1, EmptyWalks, FS_EmptySet DEF Counted, FreeOf
<1>9. Verdict'
  BY <1>4 DEF Verdict
<1> QED BY <1>5, <1>6, <1>7, <1>8, <1>9 DEF Inv

\* The target runs: nothing is known of its memory.
LEMMA ResumeKeeps ==
  ASSUME Inv, Resume
  PROVE  Inv'
<1>1. /\ at' = "idle" /\ list' = NoWalk /\ linear' = NoWalk /\ check' = "none"
      /\ build' = build /\ IsMemory(mem') /\ heap' \in Statics
  BY DEF Resume
<1>2. WalkTypeOK'
  BY <1>1, EmptyWalks DEF Inv, WalkTypeOK, IsMemory
<1>3. ListShape' /\ LinearShape' /\ LinearTiles'
  BY <1>1, EmptyWalks, WalkAssumption DEF ListShape, LinearShape, LinearTiles
<1>4. Counted' /\ Verdict'
  BY <1>1, EmptyWalks, FS_EmptySet DEF Counted, FreeOf, Verdict
<1> QED BY <1>2, <1>3, <1>4 DEF Inv

\* Nothing has been walked at first.
LEMMA InitInv == WalkInit => Inv
BY NothingFound, EmptyWalks DEF WalkInit, WalkTypeOK

\* A step that changes nothing keeps the invariant.
LEMMA StutterKeeps ==
  ASSUME Inv, UNCHANGED walkVars
  PROVE  Inv'
<1>1. /\ UNCHANGED target /\ build' = build /\ mem' = mem /\ heap' = heap
      /\ at' = at /\ list' = list /\ linear' = linear /\ check' = check
  BY DEF walkVars, target, reader
<1>2. /\ LinearLow' = LinearLow /\ HeapLimit' = HeapLimit /\ Masked' = Masked
      /\ \A r : SizeOf(r)' = SizeOf(r)
      /\ \A x : Allocated(x)' = Allocated(x)
  BY <1>1, Halted, SameAllocated
<1>3. WalkTypeOK' /\ ListShape'
  BY <1>1, <1>2 DEF Inv, WalkTypeOK, IsMemory, ListShape
<1>3a. LinearShape'
  BY <1>1, <1>2 DEF Inv, LinearShape
<1>4. LinearTiles'
  BY <1>1, <1>2 DEF Inv, LinearTiles
<1>5. Counted'
  BY <1>1 DEF Inv, Counted, FreeOf
<1>6. Verdict'
  <2>1. Agree => Agree'
    <3>1. FreeOf(linear.blocks)' = FreeOf(linear.blocks)
      BY <1>1 DEF FreeOf
    <3>2. PICK l, s : l = linear /\ s = list
      OBVIOUS
    <3>3. linear' = l /\ list' = s
      BY <1>1, <3>2
    <3> QED
      BY <1>1, <1>2, <3>2, <3>3, Zenon DEF Agree, Addresses, FreeOf
  <2> QED
    BY <1>1, <2>1 DEF Inv, Verdict
<1> QED BY <1>3, <1>3a, <1>4, <1>5, <1>6 DEF Inv

\* The invariant of the walks.
THEOREM WalkInvariant == WalkSpec => []Inv
<1>1. ASSUME Inv, [WalkNext]_walkVars PROVE Inv'
  BY <1>1, BeginSnapshotKeeps, ListStopsKeeps, ListStepKeeps, LinearStopsKeeps,
     LinearStepKeeps, CrossValidateKeeps, ResumeKeeps, StutterKeeps DEF WalkNext, Read
<1> QED BY InitInv, <1>1, PTL DEF WalkSpec


-----------------------------------------------------------------------------
\* What an "ok" says.

\* A sequence without a repeated address has as many addresses as blocks.
LEMMA DistinctCount ==
  ASSUME NEW s, NEW D, IsFiniteSet(D),
         \A i, j \in D : s[i].address = s[j].address => i = j
  PROVE  /\ IsFiniteSet({s[i].address : i \in D})
         /\ Cardinality({s[i].address : i \in D}) = Cardinality(D)
<1> DEFINE T == {s[i].address : i \in D}
           f == [i \in D |-> s[i].address]
<1>1. f \in Bijection(D, T)
  BY DEF Bijection, Injection, Surjection, IsInjective
<1>2. ExistsBijection(D, T)
  BY <1>1 DEF ExistsBijection
<1> QED BY <1>2, FS_Bijection

\* The free blocks of both walks are at the same addresses.
LEMMA SamePlaces ==
  ASSUME Inv, Agree
  PROVE  Addresses(list.blocks) = {linear.blocks[i].address : i \in FreeOf(linear.blocks)}
<1> DEFINE L == Addresses(list.blocks)
           F == {linear.blocks[i].address : i \in FreeOf(linear.blocks)}
<1>0. /\ list.blocks \in Seq(ListBlock) /\ linear.blocks \in Seq(LinearBlock)
      /\ ListShape /\ LinearShape /\ Counted
  BY DEF Inv, WalkTypeOK, WalkOver
<1>1. CASE Masked
  BY <1>1 DEF Agree
<1>2. CASE ~Masked
  <2>1. F \in SUBSET L
    BY <1>0, <1>2 DEF LinearShape, Allocated, FreeOf
  <2>2. DOMAIN list.blocks = 1..Len(list.blocks) /\ Len(list.blocks) \in Nat
    BY <1>0
  <2>3. IsFiniteSet(DOMAIN list.blocks) /\ Cardinality(DOMAIN list.blocks) = Len(list.blocks)
    BY <2>2, FS_Interval
  <2>4. IsFiniteSet(L) /\ Cardinality(L) = Len(list.blocks)
    <3>1. \A i, j \in DOMAIN list.blocks :
            list.blocks[i].address = list.blocks[j].address => i = j
      BY <1>0 DEF ListShape
    <3> QED BY <2>3, <3>1, DistinctCount DEF Addresses
  <2>5. \A i, j \in FreeOf(linear.blocks) :
          linear.blocks[i].address = linear.blocks[j].address => i = j
    <3> SUFFICES ASSUME NEW i \in DOMAIN linear.blocks, NEW j \in DOMAIN linear.blocks,
                        i < j
                 PROVE  linear.blocks[i].address # linear.blocks[j].address
      <4>1. DOMAIN linear.blocks \subseteq Nat /\ FreeOf(linear.blocks) \subseteq DOMAIN linear.blocks
        BY <1>0 DEF FreeOf
      <4>2. \A i, j \in Nat : i < j \/ j < i \/ i = j
        OBVIOUS
      <4> QED BY <4>1, <4>2
    <3>1. linear.blocks[i] \in LinearBlock /\ linear.blocks[j] \in LinearBlock
      BY <1>0
    <3>2. linear.blocks[i].address + linear.blocks[i].size <= linear.blocks[j].address
      BY <1>0 DEF LinearShape
    <3> QED BY <3>1, <3>2 DEF LinearBlock
  <2>6. Cardinality(F) = Cardinality(FreeOf(linear.blocks))
    BY <1>0, <2>5, DistinctCount DEF Counted
  <2>7. Cardinality(F) = Cardinality(L)
    BY <1>0, <2>4, <2>6 DEF Counted, Agree
  <2> QED BY <2>1, <2>4, <2>7, FS_Subset
<1> QED BY <1>1, <1>2

\* The same blocks, then: both sizes come from one header.
LEMMA SameBlocks ==
  ASSUME Inv, Agree
  PROVE  {list.blocks[i] : i \in DOMAIN list.blocks}
           = {[address |-> linear.blocks[i].address, size |-> linear.blocks[i].size]
               : i \in FreeOf(linear.blocks)}
<1> DEFINE Both(i, j) == list.blocks[i].address = linear.blocks[j].address
           B(j) == [address |-> linear.blocks[j].address, size |-> linear.blocks[j].size]
<1>0. /\ list.blocks \in Seq(ListBlock) /\ linear.blocks \in Seq(LinearBlock)
      /\ ListShape /\ LinearShape
  BY DEF Inv, WalkTypeOK, WalkOver
<1>1. FreeOf(linear.blocks) \subseteq DOMAIN linear.blocks
  BY DEF FreeOf
<1>2. \A i \in DOMAIN list.blocks, j \in FreeOf(linear.blocks) :
        Both(i, j) => list.blocks[i] = B(j)
  <2> SUFFICES ASSUME NEW i \in DOMAIN list.blocks, NEW j \in DOMAIN linear.blocks, Both(i, j)
               PROVE  list.blocks[i] = B(j)
    BY <1>1
  <2>1. list.blocks[i] \in ListBlock
    BY <1>0
  <2>2. list.blocks[i].size = linear.blocks[j].size
    BY <1>0 DEF ListShape, LinearShape
  <2>3. list.blocks[i] = [address |-> list.blocks[i].address, size |-> list.blocks[i].size]
    BY <2>1 DEF ListBlock
  <2> QED BY <2>2, <2>3
<1>3. \A i \in DOMAIN list.blocks : \E j \in FreeOf(linear.blocks) : Both(i, j)
  BY SamePlaces DEF Addresses
<1>4. \A j \in FreeOf(linear.blocks) : \E i \in DOMAIN list.blocks : Both(i, j)
  BY SamePlaces DEF Addresses
<1> HIDE DEF Both
<1>5. \A i \in DOMAIN list.blocks : list.blocks[i] \in {B(j) : j \in FreeOf(linear.blocks)}
  BY <1>2, <1>3, Zenon
<1>6. \A j \in FreeOf(linear.blocks) : B(j) \in {list.blocks[i] : i \in DOMAIN list.blocks}
  BY <1>2, <1>4, Zenon
<1> QED BY <1>5, <1>6, Zenon

\* Types of the image, of the memory and of both walks.
THEOREM WalkTypeCorrect == WalkSpec => []WalkTypeOK
<1>1. Inv => WalkTypeOK
  BY DEF Inv
<1> QED BY <1>1, WalkInvariant, PTL

\* A walk ends within the traversal bound and never takes a block twice.
THEOREM WalksBounded == WalkSpec => []WalksAreBounded
<1>1. Inv => WalksAreBounded
  BY DEF Inv, ListShape, LinearShape, WalksAreBounded
<1> QED BY <1>1, WalkInvariant, PTL

\* The linear walk tiles the extent from its base.
THEOREM ExtentTiled == WalkSpec => []LinearTiles
<1>1. Inv => LinearTiles
  BY DEF Inv
<1> QED BY <1>1, WalkInvariant, PTL

\* An "ok" means both walks report the same free blocks with the same sizes.
THEOREM OkAgrees == WalkSpec => []OkIsAgreement
<1>1. Inv => OkIsAgreement
  BY SameBlocks DEF Inv, Verdict, OkIsAgreement
<1> QED BY <1>1, WalkInvariant, PTL

\* An "ok" means no two blocks of the free list overlap.
THEOREM OkDisjoint == WalkSpec => []OkIsDisjoint
<1>1. ASSUME Inv, Agree, NEW i \in DOMAIN list.blocks, NEW j \in DOMAIN list.blocks, i # j
      PROVE  \/ list.blocks[i].address + list.blocks[i].size <= list.blocks[j].address
             \/ list.blocks[j].address + list.blocks[j].size <= list.blocks[i].address
  <2>1. PICK x \in FreeOf(linear.blocks) : list.blocks[i] =
          [address |-> linear.blocks[x].address, size |-> linear.blocks[x].size]
    BY <1>1, SameBlocks
  <2>2. PICK y \in FreeOf(linear.blocks) : list.blocks[j] =
          [address |-> linear.blocks[y].address, size |-> linear.blocks[y].size]
    BY <1>1, SameBlocks
  <2>3. list.blocks[i].address # list.blocks[j].address
    BY <1>1 DEF Inv, ListShape
  <2>4. x # y
    BY <2>1, <2>2, <2>3
  <2>5. /\ x \in DOMAIN linear.blocks /\ y \in DOMAIN linear.blocks
        /\ linear.blocks \in Seq(LinearBlock) /\ LinearShape
    BY <1>1 DEF FreeOf, Inv, WalkTypeOK, WalkOver
  <2>6. x < y \/ y < x
    BY <2>4, <2>5
  <2> QED BY <2>1, <2>2, <2>5, <2>6 DEF LinearShape
<1>2. Inv => OkIsDisjoint
  BY <1>1 DEF Inv, Verdict, OkIsDisjoint
<1> QED BY <1>2, WalkInvariant, PTL

-----------------------------------------------------------------------------
\* The bytes of s, as its partial sums add them up.
SumIs(s, t) ==
  \E p \in [0..Len(s) -> Int] :
    p[0] = 0 /\ (\A i \in 1..Len(s) : p[i] = p[i - 1] + s[i].size) /\ p[Len(s)] = t

-----------------------------------------------------------------------------
\* Numbers.

\* A quotient and its remainder.
LEMMA QuotientIs ==
  ASSUME NEW a \in Nat, NEW m \in Nat \ {0}, NEW q \in Nat, NEW r \in 0..(m - 1), a = q * m + r
  PROVE  a \div m = q /\ a % m = r
OBVIOUS

\* A size below the allocated bit, without it and with it.
LEMMA LowBits ==
  ASSUME NEW n \in Nat, n < Msb
  PROVE  /\ n % Msb = n /\ n \div Msb = 0
         /\ (n + Msb) % Msb = n /\ (n + Msb) \div Msb = 1
<1>1. Msb \in Nat \ {0}
  BY WalkAssumption
<1>2. n \in 0..(Msb - 1) /\ n = 0 * Msb + n /\ n + Msb = 1 * Msb + n
  BY <1>1
<1>. QED BY <1>1, <1>2, QuotientIs

\* Multiples of m add up to one.
LEMMA MultipleSum ==
  ASSUME NEW a \in Nat, NEW b \in Nat, NEW m \in Nat \ {0}, a % m = 0, b % m = 0
  PROVE  (a + b) % m = 0
<1>1. a = (a \div m) * m + 0 /\ b = (b \div m) * m + 0 /\ a \div m \in Nat /\ b \div m \in Nat
  OBVIOUS
<1>2. PICK c \in Nat : c = a \div m
  BY <1>1
<1>3. PICK d \in Nat : d = b \div m
  BY <1>1
<1>4. PICK e \in Nat, q \in Nat : e = a + b /\ q = c + d
  OBVIOUS
<1>5. e = q * m + 0
  BY <1>1, <1>2, <1>3, <1>4
<1>6. 0 \in 0..(m - 1)
  OBVIOUS
<1>7. e % m = 0
  BY <1>5, <1>6, QuotientIs
<1>. QED BY <1>4, <1>7

\* A block may start after another that starts on a cell and is as long as some.
LEMMA CellSum ==
  ASSUME NEW b, NEW x \in Nat, NEW y \in Nat, b.alignment \in Nat, OnCell(b, x), OnCell(b, y)
  PROVE  OnCell(b, x + y)
<1>1. (x + y) % 2 = 0
  BY DEF OnCell
<1>2. CASE b.alignment = 0
  BY <1>1, <1>2 DEF OnCell
<1>3. CASE b.alignment # 0
  <2>1. (x + y) % b.alignment = 0
    BY <1>3, MultipleSum DEF OnCell
  <2>. QED BY <1>1, <2>1 DEF OnCell
<1>. QED BY <1>2, <1>3

\* What is true of 0, and of each number whose predecessor it is true of.
LEMMA UpTo ==
  ASSUME NEW n \in Nat, NEW S, 0 \in S, \A m \in 1..n : m - 1 \in S => m \in S
  PROVE  0..n \subseteq S
<1>1. PICK lacking : lacking = {m \in 0..n : m \notin S}
  OBVIOUS
<1>2. SUFFICES ASSUME lacking # {} PROVE FALSE
  BY <1>1
<1>3. lacking \subseteq Nat
  BY <1>1
<1>4. \E m \in lacking : \A k \in lacking : ~(<<k, m>> \in OpToRel(<, Nat))
  BY <1>2, <1>3, NatLessThanWellFounded, WFMin
<1>5. PICK m \in lacking : \A k \in lacking : ~(k < m)
  BY <1>3, <1>4 DEF OpToRel
<1>6. m \in 1..n /\ m \notin S
  BY <1>1, <1>5
<1>7. m - 1 \notin lacking /\ m - 1 \in 0..n
  BY <1>5, <1>6
<1>. QED BY <1>1, <1>6, <1>7

-----------------------------------------------------------------------------
\* Sequences.

\* A sequence with an element inserted.
LEMMA InsertAtIs ==
  ASSUME NEW X, NEW s \in Seq(X), NEW i \in 1..(Len(s) + 1), NEW e \in X
  PROVE  /\ InsertAt(s, i, e) \in Seq(X) /\ Len(InsertAt(s, i, e)) = Len(s) + 1
         /\ \A j \in 1..(Len(s) + 1) :
              InsertAt(s, i, e)[j] = IF j < i THEN s[j] ELSE IF j = i THEN e ELSE s[j - 1]
<1>1. PICK n : n = Len(s)
  OBVIOUS
<1>2. n \in Nat /\ i \in 1..(n + 1) /\ \A j \in 1..n : s[j] \in X
  BY <1>1
<1>3. PICK a : a = SubSeq(s, 1, i - 1)
  OBVIOUS
<1>4. PICK c : c = SubSeq(s, i, n)
  OBVIOUS
<1>5. a \in Seq(X) /\ Len(a) = i - 1 /\ \A j \in 1..(i - 1) : a[j] = s[j]
  <2>1. \A j \in 1..(i - 1) : s[j] \in X
    BY <1>2
  <2>2. i - 1 \in Int /\ (1 <= i - 1 \/ i - 1 = 0) /\ (i - 1) - 1 + 1 = i - 1
    BY <1>2
  <2>3. /\ a \in Seq(X) /\ Len(a) = IF 1 <= i - 1 THEN (i - 1) - 1 + 1 ELSE 0
        /\ \A j \in 1..((i - 1) - 1 + 1) : a[j] = s[1 + j - 1]
    BY <1>3, <2>1, <2>2, SubSeqProperties
  <2>4. ASSUME NEW j \in 1..(i - 1) PROVE a[j] = s[j]
    <3>1. j \in 1..((i - 1) - 1 + 1) /\ 1 + j - 1 = j
      BY <1>2
    <3>. QED BY <2>3, <3>1
  <2>5. Len(a) = i - 1
    BY <2>2, <2>3
  <2>6. a \in Seq(X)
    BY <2>3
  <2>. QED BY <2>4, <2>5, <2>6
<1>6. c \in Seq(X) /\ Len(c) = n - i + 1 /\ \A j \in 1..(n - i + 1) : c[j] = s[i + j - 1]
  <2>1. \A j \in i..n : s[j] \in X
    BY <1>2
  <2>2. i \in Int /\ n \in Int /\ (i <= n \/ n - i + 1 = 0)
    BY <1>2
  <2>3. /\ c \in Seq(X) /\ Len(c) = IF i <= n THEN n - i + 1 ELSE 0
        /\ \A j \in 1..(n - i + 1) : c[j] = s[i + j - 1]
    BY <1>4, <2>1, <2>2, SubSeqProperties
  <2>4. Len(c) = n - i + 1
    BY <2>2, <2>3
  <2>. QED BY <2>3, <2>4
<1>7. PICK d : d = a \o <<e>>
  OBVIOUS
<1>8. <<e>> \in Seq(X) /\ Len(<<e>>) = 1 /\ <<e>>[1] = e
  OBVIOUS
<1>9. /\ d \in Seq(X) /\ Len(d) = i
      /\ \A j \in 1..i : d[j] = IF j < i THEN s[j] ELSE e
  <2>1. /\ d \in Seq(X) /\ Len(d) = Len(a) + Len(<<e>>)
        /\ \A j \in 1..(Len(a) + Len(<<e>>)) : d[j] = IF j <= Len(a) THEN a[j] ELSE <<e>>[j - Len(a)]
    BY <1>5, <1>7, <1>8, ConcatProperties, Zenon
  <2>2. Len(a) + Len(<<e>>) = i /\ Len(a) = i - 1
    BY <1>2, <1>5, <1>8
  <2>3. ASSUME NEW j \in 1..i PROVE d[j] = IF j < i THEN s[j] ELSE e
    <3>1. d[j] = IF j <= i - 1 THEN a[j] ELSE <<e>>[j - (i - 1)]
      BY <2>1, <2>2
    <3>2. CASE j < i
      <4>1. j <= i - 1 /\ j \in 1..(i - 1)
        BY <1>2, <3>2
      <4>. QED BY <1>5, <3>1, <3>2, <4>1
    <3>3. CASE ~(j < i)
      <4>1. ~(j <= i - 1) /\ j - (i - 1) = 1
        BY <1>2, <3>3
      <4>. QED BY <1>8, <3>1, <3>3, <4>1
    <3>. QED BY <3>2, <3>3
  <2>. QED BY <2>1, <2>2, <2>3
<1>10. PICK r : r = InsertAt(s, i, e)
  OBVIOUS
<1>11. r = d \o c
  BY <1>1, <1>3, <1>4, <1>7, <1>10 DEF InsertAt
<1>12. /\ r \in Seq(X) /\ Len(r) = Len(d) + Len(c)
       /\ \A j \in 1..(Len(d) + Len(c)) : r[j] = IF j <= Len(d) THEN d[j] ELSE c[j - Len(d)]
  BY <1>6, <1>9, <1>11, ConcatProperties, Zenon
<1>13. Len(d) + Len(c) = n + 1 /\ Len(d) = i
  BY <1>2, <1>6, <1>9
<1>14. ASSUME NEW j \in 1..(n + 1) PROVE r[j] = IF j < i THEN s[j] ELSE IF j = i THEN e ELSE s[j - 1]
  <2>1. r[j] = IF j <= i THEN d[j] ELSE c[j - i]
    BY <1>12, <1>13
  <2>2. CASE j <= i
    <3>1. j \in 1..i
      BY <1>2, <2>2
    <3>2. d[j] = IF j < i THEN s[j] ELSE e
      BY <1>9, <3>1
    <3>. QED BY <1>2, <2>1, <2>2, <3>2
  <2>3. CASE ~(j <= i)
    <3>1. j - i \in 1..(n - i + 1) /\ i + (j - i) - 1 = j - 1 /\ ~(j < i) /\ j # i
      BY <1>2, <2>3
    <3>2. c[j - i] = s[i + (j - i) - 1]
      BY <1>6, <3>1
    <3>. QED BY <2>1, <2>3, <3>1, <3>2
  <2>. QED BY <2>2, <2>3
<1>. QED BY <1>1, <1>10, <1>12, <1>13, <1>14

\* A sequence with one left out.
LEMMA RemoveAtIs ==
  ASSUME NEW X, NEW s \in Seq(X), NEW i \in 1..Len(s)
  PROVE  /\ RemoveAt(s, i) \in Seq(X) /\ Len(RemoveAt(s, i)) = Len(s) - 1
         /\ \A j \in 1..(Len(s) - 1) : RemoveAt(s, i)[j] = IF j < i THEN s[j] ELSE s[j + 1]
<1>1. PICK n : n = Len(s)
  OBVIOUS
<1>2. n \in Nat /\ i \in 1..n /\ \A j \in 1..n : s[j] \in X
  BY <1>1
<1>3. PICK a : a = SubSeq(s, 1, i - 1)
  OBVIOUS
<1>4. PICK c : c = SubSeq(s, i + 1, n)
  OBVIOUS
<1>5. a \in Seq(X) /\ Len(a) = i - 1 /\ \A j \in 1..(i - 1) : a[j] = s[j]
  <2>1. \A j \in 1..(i - 1) : s[j] \in X
    BY <1>2
  <2>2. i - 1 \in Int /\ (1 <= i - 1 \/ i - 1 = 0) /\ (i - 1) - 1 + 1 = i - 1
    BY <1>2
  <2>3. /\ a \in Seq(X) /\ Len(a) = IF 1 <= i - 1 THEN (i - 1) - 1 + 1 ELSE 0
        /\ \A j \in 1..((i - 1) - 1 + 1) : a[j] = s[1 + j - 1]
    BY <1>3, <2>1, <2>2, SubSeqProperties
  <2>4. ASSUME NEW j \in 1..(i - 1) PROVE a[j] = s[j]
    <3>1. j \in 1..((i - 1) - 1 + 1) /\ 1 + j - 1 = j
      BY <1>2
    <3>. QED BY <2>3, <3>1
  <2>5. Len(a) = i - 1
    BY <2>2, <2>3
  <2>6. a \in Seq(X)
    BY <2>3
  <2>. QED BY <2>4, <2>5, <2>6
<1>6. c \in Seq(X) /\ Len(c) = n - i /\ \A j \in 1..(n - i) : c[j] = s[i + j]
  <2>1. \A j \in (i + 1)..n : s[j] \in X
    BY <1>2
  <2>2. i + 1 \in Int /\ n \in Int /\ (i + 1 <= n \/ n - i = 0) /\ n - (i + 1) + 1 = n - i
    BY <1>2
  <2>3. /\ c \in Seq(X) /\ Len(c) = IF i + 1 <= n THEN n - (i + 1) + 1 ELSE 0
        /\ \A j \in 1..(n - (i + 1) + 1) : c[j] = s[(i + 1) + j - 1]
    BY <1>4, <2>1, <2>2, SubSeqProperties
  <2>4. ASSUME NEW j \in 1..(n - i) PROVE c[j] = s[i + j]
    <3>1. j \in 1..(n - (i + 1) + 1) /\ (i + 1) + j - 1 = i + j
      BY <1>2
    <3>. QED BY <2>3, <3>1
  <2>5. Len(c) = n - i
    BY <2>2, <2>3
  <2>6. c \in Seq(X)
    BY <2>3
  <2>. QED BY <2>4, <2>5, <2>6
<1>7. PICK r : r = RemoveAt(s, i)
  OBVIOUS
<1>8. r = a \o c
  BY <1>1, <1>3, <1>4, <1>7 DEF RemoveAt
<1>9. /\ r \in Seq(X) /\ Len(r) = Len(a) + Len(c)
      /\ \A j \in 1..(Len(a) + Len(c)) : r[j] = IF j <= Len(a) THEN a[j] ELSE c[j - Len(a)]
  BY <1>5, <1>6, <1>8, ConcatProperties, Zenon
<1>10. Len(a) + Len(c) = n - 1 /\ Len(a) = i - 1
  BY <1>2, <1>5, <1>6
<1>11. ASSUME NEW j \in 1..(n - 1) PROVE r[j] = IF j < i THEN s[j] ELSE s[j + 1]
  <2>1. r[j] = IF j <= i - 1 THEN a[j] ELSE c[j - (i - 1)]
    BY <1>9, <1>10
  <2>2. CASE j < i
    <3>1. j <= i - 1 /\ j \in 1..(i - 1)
      BY <1>2, <2>2
    <3>. QED BY <1>5, <2>1, <2>2, <3>1
  <2>3. CASE ~(j < i)
    <3>1. j - (i - 1) \in 1..(n - i) /\ i + (j - (i - 1)) = j + 1 /\ ~(j <= i - 1)
      BY <1>2, <2>3
    <3>2. c[j - (i - 1)] = s[i + (j - (i - 1))]
      BY <1>6, <3>1
    <3>. QED BY <2>1, <2>3, <3>1, <3>2
  <2>. QED BY <2>2, <2>3
<1>. QED BY <1>1, <1>7, <1>9, <1>10, <1>11

\* A search along a sequence ends, at the first index it looks for.
LEMMA PlaceFound ==
  ASSUME NEW X, NEW s \in Seq(X), NEW ahead
  PROVE  /\ PlaceIn(s, ahead) \in 1..(Len(s) + 1)
         /\ PlaceIn(s, ahead) \in ahead \/ PlaceIn(s, ahead) = Len(s) + 1
         /\ \A i \in 1..(PlaceIn(s, ahead) - 1) : i \notin ahead
<1>1. PICK n \in Nat : n = Len(s)
  OBVIOUS
<1>2. PICK ends : ends = {p \in 1..(n + 1) : p \in ahead \/ p = n + 1}
  OBVIOUS
<1>3. ends \subseteq Nat /\ n + 1 \in ends
  BY <1>2
<1>4. \E p \in ends : \A k \in ends : ~(<<k, p>> \in OpToRel(<, Nat))
  BY <1>3, NatLessThanWellFounded, WFMin
<1>5. PICK p \in ends : \A k \in ends : ~(k < p)
  BY <1>3, <1>4 DEF OpToRel
<1>6. p \in 1..(n + 1) /\ (p \in ahead \/ p = n + 1) /\ \A i \in 1..(p - 1) : i \notin ahead
  <2>1. p \in 1..(n + 1) /\ (p \in ahead \/ p = n + 1)
    BY <1>2
  <2>2. ASSUME NEW i \in 1..(p - 1) PROVE i \notin ahead
    <3>1. i \in 1..(n + 1) /\ i < p
      BY <2>1
    <3>2. i \notin ends
      BY <1>5, <3>1
    <3>. QED BY <1>2, <3>1, <3>2
  <2>. QED BY <2>1, <2>2
<1>. QED BY <1>1, <1>6 DEF PlaceIn
-----------------------------------------------------------------------------
\* Sums of sizes.

\* What the blocks of a sequence are.
LEMMA SizesAre ==
  ASSUME NEW s \in Seq(ListBlock), NEW i \in 1..Len(s)
  PROVE  s[i] \in ListBlock /\ s[i].size \in Nat /\ s[i].address \in Nat
<1>1. s[i] \in ListBlock
  BY ElementOfSeq
<1>. QED BY <1>1 DEF ListBlock

\* No block, no byte.
LEMMA SumEmpty == SumIs(<< >>, 0)
<1>1. PICK p : p = [i \in 0..0 |-> 0]
  OBVIOUS
<1>2. p \in [0..0 -> Int] /\ p[0] = 0
  BY <1>1
<1>3. Len(<< >>) = 0
  OBVIOUS
<1>. QED BY <1>2, <1>3 DEF SumIs

\* A sum of one sequence serves for another that differs in one place.
LEMMA SumAppend ==
  ASSUME NEW s \in Seq(ListBlock), NEW t \in Int, NEW e \in ListBlock, SumIs(s, t)
  PROVE  SumIs(Append(s, e), t + e.size)
<1>1. PICK n \in Nat : n = Len(s)
  OBVIOUS
<1>2. PICK p \in [0..n -> Int] : p[0] = 0 /\ (\A i \in 1..n : p[i] = p[i - 1] + s[i].size) /\ p[n] = t
  BY <1>1 DEF SumIs
<1>3. PICK r : r = Append(s, e)
  OBVIOUS
<1>4. Len(r) = n + 1 /\ (\A i \in 1..n : r[i] = s[i]) /\ r[n + 1] = e
  BY <1>1, <1>3, AppendProperties
<1>5. PICK q : q = [i \in 0..(n + 1) |-> IF i <= n THEN p[i] ELSE t + e.size]
  OBVIOUS
<1>6. e.size \in Nat
  BY DEF ListBlock
<1>7. q \in [0..(n + 1) -> Int] /\ q[0] = 0 /\ q[n + 1] = t + e.size
  BY <1>2, <1>5, <1>6
<1>8. ASSUME NEW i \in 1..(n + 1) PROVE q[i] = q[i - 1] + r[i].size
  <2>1. CASE i <= n
    <3>1. i \in 1..n /\ i \in 0..(n + 1) /\ i - 1 \in 0..(n + 1) /\ i - 1 <= n
      BY <2>1
    <3>2. q[i] = p[i] /\ q[i - 1] = p[i - 1] /\ r[i] = s[i]
      BY <1>4, <1>5, <2>1, <3>1
    <3>. QED BY <1>2, <3>1, <3>2
  <2>2. CASE i = n + 1
    <3>1. q[i] = t + e.size /\ q[i - 1] = p[n] /\ r[i] = e
      BY <1>4, <1>5, <2>2
    <3>. QED BY <1>2, <3>1
  <2>. QED BY <2>1, <2>2
<1>. QED BY <1>3, <1>4, <1>7, <1>8 DEF SumIs

\* The partial sums of s and its sizes, as functions to integers.
Parts(s, n, t, p, z) ==
  /\ p \in [0..n -> Int] /\ z \in [1..n -> Nat]
  /\ p[0] = 0 /\ (\A j \in 1..n : p[j] = p[j - 1] + z[j]) /\ p[n] = t
  /\ \A j \in 1..n : z[j] = s[j].size

\* A sum has partial sums ...
LEMMA SumParts ==
  ASSUME NEW s \in Seq(ListBlock), NEW n \in Nat, NEW t \in Int, n = Len(s), SumIs(s, t)
  PROVE  \E p, z : Parts(s, n, t, p, z)
<1>1. PICK p \in [0..n -> Int] : p[0] = 0 /\ (\A j \in 1..n : p[j] = p[j - 1] + s[j].size) /\ p[n] = t
  BY DEF SumIs
<1>2. PICK z : z = [j \in 1..n |-> s[j].size]
  OBVIOUS
<1>3. \A j \in 1..n : s[j].size \in Nat
  BY SizesAre
<1>4. z \in [1..n -> Nat] /\ \A j \in 1..n : z[j] = s[j].size
  BY <1>2, <1>3
<1>5. \A j \in 1..n : p[j] = p[j - 1] + z[j]
  BY <1>1, <1>4
<1>. QED BY <1>1, <1>4, <1>5 DEF Parts

\* ... and partial sums make a sum.
LEMMA SumFrom ==
  ASSUME NEW s \in Seq(ListBlock), NEW n \in Nat, NEW t \in Int, n = Len(s), NEW p, NEW z, Parts(s, n, t, p, z)
  PROVE  SumIs(s, t)
<1>1. \A j \in 1..n : p[j] = p[j - 1] + s[j].size
  BY DEF Parts
<1>. QED BY <1>1 DEF SumIs, Parts

\* One block more adds its size.
LEMMA SumInsert ==
  ASSUME NEW s \in Seq(ListBlock), NEW t \in Int, NEW e \in ListBlock, NEW i \in 1..(Len(s) + 1), SumIs(s, t)
  PROVE  SumIs(InsertAt(s, i, e), t + e.size)
<1>1. PICK n \in Nat : n = Len(s)
  OBVIOUS
<1>2. PICK x \in Nat : x = e.size
  BY DEF ListBlock
<1>30. PICK p, z : Parts(s, n, t, p, z)
  BY <1>1, SumParts
<1>31. p \in [0..n -> Int] /\ z \in [1..n -> Nat]
  BY <1>30 DEF Parts
<1>3. p[0] = 0 /\ (\A j \in 1..n : p[j] = p[j - 1] + z[j] /\ p[j - 1] \in Int /\ z[j] = s[j].size) /\ p[n] = t
  <2>1. \A j \in 1..n : p[j - 1] \in Int
    BY <1>31
  <2>. QED BY <1>30, <2>1 DEF Parts
<1>4. PICK r : r = InsertAt(s, i, e)
  OBVIOUS
<1>5. r \in Seq(ListBlock)
  BY <1>4, InsertAtIs
<1>15. Len(r) = n + 1 /\ \A j \in 1..(n + 1) : r[j] = IF j < i THEN s[j] ELSE IF j = i THEN e ELSE s[j - 1]
  BY <1>1, <1>4, InsertAtIs
<1>6. i \in 1..(n + 1)
  BY <1>1
<1>7. PICK q : q = [j \in 0..(n + 1) |-> IF j < i THEN p[j] ELSE p[j - 1] + x]
  OBVIOUS
<1>8. PICK y : y = [j \in 1..(n + 1) |-> IF j < i THEN z[j] ELSE IF j = i THEN x ELSE z[j - 1]]
  OBVIOUS
<1>9. q \in [0..(n + 1) -> Int] /\ q[0] = 0 /\ q[n + 1] = t + x
  <2>1. ASSUME NEW j \in 0..(n + 1) PROVE (IF j < i THEN p[j] ELSE p[j - 1] + x) \in Int
    <3>1. CASE j < i
      <4>1. j \in 0..n
        BY <1>6, <3>1
      <4>. QED BY <1>31, <3>1, <4>1
    <3>2. CASE ~(j < i)
      <4>1. j - 1 \in 0..n
        BY <1>6, <3>2
      <4>. QED BY <1>31, <3>2, <4>1
    <3>. QED BY <3>1, <3>2
  <2>2. q \in [0..(n + 1) -> Int]
    BY <1>7, <2>1
  <2>3. 0 \in 0..(n + 1) /\ n + 1 \in 0..(n + 1) /\ 0 < i /\ ~(n + 1 < i) /\ (n + 1) - 1 = n
    BY <1>6
  <2>4. q[0] = p[0] /\ q[n + 1] = p[n] + x
    BY <1>7, <2>3
  <2>. QED BY <1>3, <2>2, <2>4
<1>10. y \in [1..(n + 1) -> Nat]
  BY <1>31, <1>6, <1>8
<1>16. ASSUME NEW j \in 1..(n + 1) PROVE q[j] = q[j - 1] + y[j] /\ y[j] = r[j].size
  <2>1. CASE j < i
    <3>1. j \in 1..n /\ j \in 0..(n + 1) /\ j - 1 \in 0..(n + 1) /\ j - 1 < i
      BY <1>6, <2>1
    <3>2. q[j] = p[j] /\ q[j - 1] = p[j - 1] /\ y[j] = z[j] /\ r[j] = s[j]
      BY <1>7, <1>8, <1>15, <2>1, <3>1
    <3>. QED BY <1>3, <3>1, <3>2
  <2>2. CASE j = i
    <3>1. j \in 0..(n + 1) /\ j - 1 \in 0..(n + 1) /\ j - 1 < i /\ ~(j < i)
      BY <1>6, <2>2
    <3>2. q[j] = p[j - 1] + x /\ q[j - 1] = p[j - 1] /\ y[j] = x /\ r[j] = e
      BY <1>7, <1>8, <1>15, <2>2, <3>1
    <3>. QED BY <1>2, <3>2
  <2>3. CASE j > i
    <3>1. PICK k \in 1..n : k = j - 1
      BY <1>6, <2>3
    <3>2. k \in 0..(n + 1) /\ j \in 0..(n + 1) /\ ~(k < i) /\ ~(j < i) /\ j # i
      BY <1>6, <2>3, <3>1
    <3>3. q[j] = p[k] + x /\ q[k] = p[k - 1] + x /\ y[j] = z[k] /\ r[j] = s[k]
      BY <1>7, <1>8, <1>15, <3>1, <3>2
    <3>4. p[k] = p[k - 1] + z[k] /\ p[k - 1] \in Int /\ z[k] \in Nat /\ z[k] = s[k].size
      BY <1>3, <1>31
    <3>. QED BY <3>1, <3>3, <3>4
  <2>. QED BY <1>6, <2>1, <2>2, <2>3
<1>11. \A j \in 1..(n + 1) : q[j] = q[j - 1] + y[j]
  BY <1>16
<1>12. \A j \in 1..(n + 1) : y[j] = r[j].size
  BY <1>16
<1>13. n + 1 \in Nat /\ t + x \in Int
  OBVIOUS
<1>17. Parts(r, n + 1, t + x, q, y)
  BY <1>9, <1>10, <1>11, <1>12 DEF Parts
<1>14. SumIs(r, t + x)
  BY <1>5, <1>13, <1>15, <1>17, SumFrom
<1>. QED BY <1>2, <1>4, <1>14

\* One block less takes it off.
LEMMA SumRemove ==
  ASSUME NEW s \in Seq(ListBlock), NEW t \in Int, NEW i \in 1..Len(s), SumIs(s, t)
  PROVE  SumIs(RemoveAt(s, i), t - s[i].size)
<1>1. PICK n \in Nat : n = Len(s)
  OBVIOUS
<1>30. PICK p, z : Parts(s, n, t, p, z)
  BY <1>1, SumParts
<1>31. p \in [0..n -> Int] /\ z \in [1..n -> Nat]
  BY <1>30 DEF Parts
<1>3. p[0] = 0 /\ (\A j \in 1..n : p[j] = p[j - 1] + z[j] /\ p[j - 1] \in Int /\ z[j] = s[j].size) /\ p[n] = t
  <2>1. \A j \in 1..n : p[j - 1] \in Int
    BY <1>31
  <2>. QED BY <1>30, <2>1 DEF Parts
<1>6. i \in 1..n
  BY <1>1
<1>2. PICK x \in Nat : x = z[i] /\ x = s[i].size
  BY <1>3, <1>31, <1>6
<1>4. PICK r \in Seq(ListBlock) : r = RemoveAt(s, i)
  BY RemoveAtIs
<1>5. Len(r) = n - 1 /\ \A j \in 1..(n - 1) : r[j] = IF j < i THEN s[j] ELSE s[j + 1]
  BY <1>1, <1>4, RemoveAtIs
<1>7. PICK q : q = [j \in 0..(n - 1) |-> IF j < i THEN p[j] ELSE p[j + 1] - x]
  OBVIOUS
<1>8. PICK y : y = [j \in 1..(n - 1) |-> IF j < i THEN z[j] ELSE z[j + 1]]
  OBVIOUS
<1>15. t = p[n] /\ p[n - 1] \in Int /\ p[n] = p[n - 1] + z[n] /\ z[n] \in Nat
  <2>1. n \in 1..n /\ n - 1 \in 0..n
    BY <1>6
  <2>. QED BY <1>3, <1>31, <2>1
<1>9. q \in [0..(n - 1) -> Int] /\ q[0] = 0 /\ q[n - 1] = t - x
  <2>1. q \in [0..(n - 1) -> Int]
    <3>1. ASSUME NEW j \in 0..(n - 1) PROVE p[j] \in Int /\ p[j + 1] - x \in Int
      BY <1>31
    <3>. QED BY <1>7, <3>1
  <2>2. q[0] = 0
    BY <1>3, <1>6, <1>7
  <2>3. CASE i = n
    <3>1. q[n - 1] = p[n - 1]
      BY <1>6, <1>7, <2>3
    <3>2. z[n] = x
      BY <1>2, <2>3
    <3>3. p[n - 1] = t - x
      BY <1>15, <3>2
    <3>. QED BY <2>1, <2>2, <3>1, <3>3
  <2>4. CASE i # n
    <3>1. n - 1 \in 0..(n - 1) /\ ~(n - 1 < i) /\ (n - 1) + 1 = n
      BY <1>6, <2>4
    <3>2. q[n - 1] = p[(n - 1) + 1] - x
      BY <1>7, <3>1
    <3>. QED BY <1>15, <2>1, <2>2, <3>1, <3>2
  <2>. QED BY <2>3, <2>4
<1>10. y \in [1..(n - 1) -> Nat]
  BY <1>31, <1>6, <1>8
<1>16. ASSUME NEW j \in 1..(n - 1) PROVE q[j] = q[j - 1] + y[j] /\ y[j] = r[j].size
  <2>1. CASE j < i
    <3>1. j \in 1..n /\ j \in 0..(n - 1) /\ j - 1 \in 0..(n - 1) /\ j - 1 < i
      BY <1>6, <2>1
    <3>2. q[j] = p[j] /\ q[j - 1] = p[j - 1] /\ y[j] = z[j] /\ r[j] = s[j]
      BY <1>5, <1>7, <1>8, <2>1, <3>1
    <3>. QED BY <1>3, <3>1, <3>2
  <2>2. CASE j >= i
    <3>1. PICK k \in 1..n : k = j + 1
      BY <1>6
    <3>2. j \in 1..n /\ j \in 0..(n - 1) /\ j - 1 \in 0..(n - 1) /\ ~(j < i)
      BY <1>6, <2>2
    <3>3. q[j] = p[k] - x /\ y[j] = z[k] /\ r[j] = s[k]
      BY <1>5, <1>7, <1>8, <3>1, <3>2
    <3>4. p[k] = p[k - 1] + z[k] /\ p[k - 1] \in Int /\ z[k] \in Nat /\ z[k] = s[k].size
      BY <1>3, <1>31
    <3>5. k - 1 = j
      BY <3>1
    <3>6. q[j - 1] = p[j] - x
      <4>1. CASE j = i
        <5>1. q[j - 1] = p[j - 1]
          BY <1>6, <1>7, <3>2, <4>1
        <5>2. p[j] = p[j - 1] + z[j] /\ p[j - 1] \in Int
          BY <1>3, <3>2
        <5>3. z[j] = x
          BY <1>2, <4>1
        <5>. QED BY <5>1, <5>2, <5>3
      <4>2. CASE j # i
        <5>1. ~(j - 1 < i) /\ (j - 1) + 1 = j
          BY <1>6, <2>2, <4>2
        <5>2. q[j - 1] = p[(j - 1) + 1] - x
          BY <1>7, <3>2, <5>1
        <5>. QED BY <5>1, <5>2
      <4>. QED BY <4>1, <4>2
    <3>7. p[k] = p[j] + z[k] /\ p[j] \in Int
      BY <3>4, <3>5
    <3>8. q[j] = q[j - 1] + y[j]
      BY <3>3, <3>4, <3>6, <3>7
    <3>. QED BY <3>3, <3>4, <3>8
  <2>. QED BY <1>6, <2>1, <2>2
<1>11. \A j \in 1..(n - 1) : q[j] = q[j - 1] + y[j]
  BY <1>16
<1>12. \A j \in 1..(n - 1) : y[j] = r[j].size
  BY <1>16
<1>13. n - 1 \in Nat /\ t - x \in Int
  BY <1>6
<1>17. Parts(r, n - 1, t - x, q, y)
  BY <1>9, <1>10, <1>11, <1>12 DEF Parts
<1>14. SumIs(r, t - x)
  BY <1>5, <1>13, <1>17, SumFrom
<1>. QED BY <1>2, <1>4, <1>14

\* A block in the place of another.
LEMMA SumReplace ==
  ASSUME NEW s \in Seq(ListBlock), NEW t \in Int, NEW i \in 1..Len(s), NEW e \in ListBlock, SumIs(s, t)
  PROVE  SumIs([s EXCEPT ![i] = e], t - s[i].size + e.size)
<1>1. PICK n \in Nat : n = Len(s)
  OBVIOUS
<1>30. PICK p, z : Parts(s, n, t, p, z)
  BY <1>1, SumParts
<1>31. p \in [0..n -> Int] /\ z \in [1..n -> Nat]
  BY <1>30 DEF Parts
<1>3. p[0] = 0 /\ (\A j \in 1..n : p[j] = p[j - 1] + z[j] /\ p[j - 1] \in Int /\ z[j] = s[j].size) /\ p[n] = t
  <2>1. \A j \in 1..n : p[j - 1] \in Int
    BY <1>31
  <2>. QED BY <1>30, <2>1 DEF Parts
<1>6. i \in 1..n
  BY <1>1
<1>2. PICK x \in Nat : x = e.size
  BY DEF ListBlock
<1>4. PICK r \in Seq(ListBlock) : r = [s EXCEPT ![i] = e]
  BY ExceptSeq
<1>5. Len(r) = n /\ \A j \in 1..n : r[j] = IF j = i THEN e ELSE s[j]
  BY <1>1, <1>4, ExceptSeq
<1>7. PICK d \in Int : d = x - z[i]
  BY <1>31, <1>6
<1>8. PICK q : q = [j \in 0..n |-> IF j < i THEN p[j] ELSE p[j] + d]
  OBVIOUS
<1>0. PICK y : y = [j \in 1..n |-> IF j = i THEN x ELSE z[j]]
  OBVIOUS
<1>9. q \in [0..n -> Int] /\ q[0] = 0 /\ q[n] = t + d
  <2>1. q \in [0..n -> Int]
    BY <1>8, <1>31
  <2>2. 0 < i /\ ~(n < i) /\ 0 \in 0..n /\ n \in 0..n
    BY <1>6
  <2>3. q[0] = p[0] /\ q[n] = p[n] + d
    BY <1>8, <2>2
  <2>. QED BY <1>3, <2>1, <2>3
<1>10. y \in [1..n -> Nat]
  BY <1>6, <1>0, <1>31
<1>16. ASSUME NEW j \in 1..n PROVE q[j] = q[j - 1] + y[j] /\ y[j] = r[j].size
  <2>0. j \in 0..n /\ j - 1 \in 0..n /\ i \in Int
    BY <1>6
  <2>4. p[j] = p[j - 1] + z[j] /\ p[j - 1] \in Int /\ z[j] \in Nat /\ z[j] = s[j].size
    BY <1>3, <1>31
  <2>1. CASE j < i
    <3>1. j - 1 < i /\ j # i
      BY <2>0, <2>1
    <3>2. q[j] = p[j] /\ q[j - 1] = p[j - 1] /\ y[j] = z[j] /\ r[j] = s[j]
      BY <1>0, <1>5, <1>8, <2>0, <2>1, <3>1
    <3>. QED BY <2>4, <3>2
  <2>2. CASE j = i
    <3>1. j - 1 < i /\ ~(j < i)
      BY <2>0, <2>2
    <3>2. q[j] = p[j] + d /\ q[j - 1] = p[j - 1] /\ y[j] = x /\ r[j] = e
      BY <1>0, <1>5, <1>8, <2>0, <2>2, <3>1
    <3>3. d = x - z[j]
      BY <1>7, <2>2
    <3>4. PICK k \in Int, w \in Nat : k = p[j - 1] /\ w = z[j]
      BY <2>4
    <3>5. (k + w) + (x - w) = k + x
      OBVIOUS
    <3>6. p[j] + d = p[j - 1] + x
      BY <2>4, <3>3, <3>4, <3>5
    <3>. QED BY <1>2, <3>2, <3>6
  <2>3. CASE j > i
    <3>1. ~(j - 1 < i) /\ ~(j < i) /\ j # i
      BY <2>0, <2>3
    <3>2. q[j] = p[j] + d /\ q[j - 1] = p[j - 1] + d /\ y[j] = z[j] /\ r[j] = s[j]
      BY <1>0, <1>5, <1>8, <2>0, <3>1
    <3>3. p[j] + d = (p[j - 1] + d) + z[j]
      BY <2>4
    <3>. QED BY <2>4, <3>2, <3>3
  <2>. QED BY <2>0, <2>1, <2>2, <2>3
<1>11. \A j \in 1..n : q[j] = q[j - 1] + y[j]
  BY <1>16
<1>12. \A j \in 1..n : y[j] = r[j].size
  BY <1>16
<1>13. t + d \in Int
  OBVIOUS
<1>17. Parts(r, n, t + d, q, y)
  BY <1>9, <1>10, <1>11, <1>12 DEF Parts
<1>14. SumIs(r, t + d)
  BY <1>5, <1>13, <1>17, SumFrom
<1>15. t + d = t - s[i].size + e.size
  <2>1. z[i] \in Nat /\ z[i] = s[i].size
    BY <1>3, <1>31, <1>6
  <2>2. t + d = t - z[i] + x
    BY <1>7, <2>1
  <2>. QED BY <1>2, <2>1, <2>2
<1>. QED BY <1>4, <1>14, <1>15

\* No block is larger than the sum.
LEMMA SumCovers ==
  ASSUME NEW s \in Seq(ListBlock), NEW t, SumIs(s, t)
  PROVE  t \in Nat /\ \A i \in 1..Len(s) : s[i].size <= t
<1>1. PICK n \in Nat : n = Len(s)
  OBVIOUS
<1>2. PICK p \in [0..n -> Int] : p[0] = 0 /\ (\A j \in 1..n : p[j] = p[j - 1] + s[j].size) /\ p[n] = t
  BY <1>1 DEF SumIs
<1>3. PICK S : S = {m \in 0..n : p[m] >= 0 /\ \A i \in 1..m : s[i].size <= p[m]}
  OBVIOUS
<1>4. 0 \in S
  BY <1>2, <1>3
<1>5. ASSUME NEW m \in 1..n, m - 1 \in S PROVE m \in S
  <2>1. p[m - 1] >= 0 /\ (\A i \in 1..(m - 1) : s[i].size <= p[m - 1]) /\ p[m - 1] \in Int
    BY <1>2, <1>3, <1>5
  <2>2. p[m] = p[m - 1] + s[m].size /\ s[m].size \in Nat
    BY <1>1, <1>2, SizesAre
  <2>3. p[m] >= 0 /\ s[m].size <= p[m] /\ p[m - 1] <= p[m]
    BY <2>1, <2>2
  <2>4. ASSUME NEW i \in 1..m PROVE s[i].size <= p[m]
    <3>1. CASE i = m
      BY <2>3, <3>1
    <3>2. CASE i # m
      <4>1. i \in 1..(m - 1) /\ s[i].size \in Nat
        BY <1>1, <3>2, SizesAre
      <4>. QED BY <2>1, <2>2, <2>3, <4>1
    <3>. QED BY <3>1, <3>2
  <2>. QED BY <1>3, <2>3, <2>4
<1>6. n \in S
  <2>1. \A m \in 1..n : m - 1 \in S => m \in S
    BY <1>5
  <2>2. 0..n \subseteq S
    BY <1>4, <2>1, UpTo
  <2>. QED BY <2>2
<1>. QED BY <1>1, <1>2, <1>3, <1>6

\* Two orders of the same blocks have one sum.
Distinct(s) == \A i, j \in 1..Len(s) : s[i] = s[j] => i = j
SameBlocksIn(s, r) ==
  (\A i \in 1..Len(s) : \E j \in 1..Len(r) : s[i] = r[j]) /\ \A j \in 1..Len(r) : \E i \in 1..Len(s) : s[i] = r[j]

\* Of sequences of n blocks, by induction on n.
LEMMA SumOfLength ==
  ASSUME NEW n \in Nat
  PROVE  \A s, r \in Seq(ListBlock), t, u \in Int :
           Len(s) = n /\ Distinct(s) /\ Distinct(r) /\ SameBlocksIn(s, r) /\ SumIs(s, t) /\ SumIs(r, u) => t = u /\ Len(r) = Len(s)
<1> DEFINE Same(m) == \A s, r \in Seq(ListBlock), t, u \in Int :
           Len(s) = m /\ Distinct(s) /\ Distinct(r) /\ SameBlocksIn(s, r) /\ SumIs(s, t) /\ SumIs(r, u) => t = u /\ Len(r) = Len(s)
<1>1. PICK S : S = {m \in 0..n : Same(m)}
  OBVIOUS
<1>2. Same(0)
  <2> SUFFICES ASSUME NEW s \in Seq(ListBlock), NEW r \in Seq(ListBlock), NEW t \in Int, NEW u \in Int,
                      Len(s) = 0, SameBlocksIn(s, r), SumIs(s, t), SumIs(r, u)
               PROVE  t = u /\ Len(r) = Len(s)
    OBVIOUS
  <2>1. Len(r) = 0
    <3>1. Len(r) \in Nat /\ \A j \in 1..Len(r) : \E i \in 1..0 : s[i] = r[j]
      BY DEF SameBlocksIn
    <3>. QED BY <3>1
  <2>. QED BY <2>1 DEF SumIs
<1>3. ASSUME NEW m \in 1..n, m - 1 \in S PROVE m \in S
  <2>0. SUFFICES Same(m)
    BY <1>1
  <2>1. Same(m - 1)
    BY <1>1, <1>3
  <2> SUFFICES ASSUME NEW s \in Seq(ListBlock), NEW r \in Seq(ListBlock), NEW t \in Int, NEW u \in Int,
                      Len(s) = m, Distinct(s), Distinct(r), SameBlocksIn(s, r), SumIs(s, t), SumIs(r, u)
               PROVE  t = u /\ Len(r) = Len(s)
    OBVIOUS
  <2>2. PICK k \in 1..Len(r) : s[m] = r[k]
    BY DEF SameBlocksIn
  <2>3. PICK a : a = RemoveAt(s, m)
    OBVIOUS
  <2>4. PICK c : c = RemoveAt(r, k)
    OBVIOUS
  <2>5. a \in Seq(ListBlock) /\ Len(a) = m - 1 /\ \A j \in 1..(m - 1) : a[j] = s[j]
    <3>1. m \in 1..Len(s)
      OBVIOUS
    <3>2. /\ a \in Seq(ListBlock) /\ Len(a) = Len(s) - 1
          /\ \A j \in 1..(Len(s) - 1) : a[j] = IF j < m THEN s[j] ELSE s[j + 1]
      BY <2>3, <3>1, RemoveAtIs
    <3>. QED BY <3>2
  <2>6. c \in Seq(ListBlock) /\ Len(c) = Len(r) - 1 /\ \A j \in 1..(Len(r) - 1) : c[j] = IF j < k THEN r[j] ELSE r[j + 1]
    BY <2>4, RemoveAtIs
  <2>7. Len(r) \in Nat /\ k \in 1..Len(r)
    OBVIOUS
  <2>8. Distinct(a)
    BY <2>5 DEF Distinct
  <2>9. Distinct(c)
    <3> SUFFICES ASSUME NEW i \in 1..(Len(r) - 1), NEW j \in 1..(Len(r) - 1), c[i] = c[j] PROVE i = j
      BY <2>6 DEF Distinct
    <3>1. PICK x \in 1..Len(r) : x = (IF i < k THEN i ELSE i + 1)
      BY <2>7
    <3>2. PICK y \in 1..Len(r) : y = (IF j < k THEN j ELSE j + 1)
      BY <2>7
    <3>3. r[x] = r[y]
      BY <2>6, <3>1, <3>2
    <3>4. x = y
      BY <3>3 DEF Distinct
    <3>. QED BY <2>7, <3>1, <3>2, <3>4
  <2>10. SameBlocksIn(a, c)
    <3>1. ASSUME NEW i \in 1..Len(a) PROVE \E j \in 1..Len(c) : a[i] = c[j]
      <4>1. i \in 1..Len(s) /\ i # m /\ a[i] = s[i]
        BY <2>5
      <4>2. PICK x \in 1..Len(r) : s[i] = r[x]
        BY <4>1 DEF SameBlocksIn
      <4>3. x # k
        <5>1. x = k => s[i] = s[m]
          BY <2>2, <4>2
        <5>. QED BY <4>1, <5>1 DEF Distinct
      <4>4. PICK j \in 1..(Len(r) - 1) : x = IF j < k THEN j ELSE j + 1
        <5>1. CASE x < k
          <6>1. x \in 1..(Len(r) - 1)
            BY <2>7, <5>1
          <6>. QED BY <5>1, <6>1
        <5>2. CASE x > k
          <6>1. x - 1 \in 1..(Len(r) - 1) /\ ~(x - 1 < k) /\ x = (x - 1) + 1
            BY <2>7, <5>2
          <6>. QED BY <6>1
        <5>. QED BY <4>3, <5>1, <5>2
      <4>5. c[j] = r[x]
        BY <2>6, <4>4
      <4>. QED BY <2>6, <4>1, <4>2, <4>5
    <3>2. ASSUME NEW j \in 1..Len(c) PROVE \E i \in 1..Len(a) : a[i] = c[j]
      <4>1. PICK x \in 1..Len(r) : x = (IF j < k THEN j ELSE j + 1) /\ x # k
        BY <2>6, <2>7
      <4>2. c[j] = r[x]
        BY <2>6, <4>1
      <4>3. PICK i \in 1..Len(s) : s[i] = r[x]
        BY DEF SameBlocksIn
      <4>4. i # m
        <5>1. i = m => r[x] = r[k]
          BY <2>2, <4>3
        <5>. QED BY <4>1, <5>1 DEF Distinct
      <4>. QED BY <2>5, <4>2, <4>3, <4>4
    <3>. QED BY <3>1, <3>2 DEF SameBlocksIn
  <2>11. SumIs(a, t - s[m].size) /\ SumIs(c, u - r[k].size)
    BY <2>3, <2>4, SumRemove
  <2>12. s[m].size \in Nat /\ r[k].size = s[m].size
    BY <2>2, SizesAre
  <2>13. t - s[m].size = u - s[m].size
    <3>1. t - s[m].size \in Int /\ u - s[m].size \in Int
      BY <2>12
    <3>. QED BY <2>1, <2>5, <2>6, <2>8, <2>9, <2>10, <2>11, <2>12, <3>1
  <2>14. Len(c) = Len(a)
    <3>1. t - s[m].size \in Int /\ u - s[m].size \in Int
      BY <2>12
    <3>. QED BY <2>1, <2>5, <2>6, <2>8, <2>9, <2>10, <2>11, <2>12, <3>1
  <2>. QED BY <2>5, <2>6, <2>7, <2>12, <2>13, <2>14
<1> HIDE DEF Same
<1>4. n \in S
  BY <1>1, <1>2, <1>3, UpTo
<1>. QED BY <1>1, <1>4 DEF Same

\* Of any two sequences of the same blocks.
LEMMA SumUnique ==
  ASSUME NEW s \in Seq(ListBlock), NEW r \in Seq(ListBlock), NEW t \in Int, NEW u \in Int,
         Distinct(s), Distinct(r), SameBlocksIn(s, r), SumIs(s, t), SumIs(r, u)
  PROVE  t = u /\ Len(r) = Len(s)
<1>1. PICK n \in Nat : n = Len(s)
  OBVIOUS
<1>. QED BY <1>1, SumOfLength
-----------------------------------------------------------------------------
\* What the walks leave behind.

Walked == HasBlocks /\ Initialised
ReadsList == Walked /\ heap.head # Null /\ heap.end # Null
Plain(x) == [address |-> x.address, size |-> x.size]

\* The walk w of the free list of h took the links of m, and added up its sizes.
Follows(m, h, w) ==
  /\ w.cur = (IF w.blocks = << >> THEN h.head ELSE m[w.blocks[Len(w.blocks)].address].next)
  /\ w.blocks # << >> => w.blocks[1].address = h.head
  /\ \A i \in 1..(Len(w.blocks) - 1) : w.blocks[i + 1].address = m[w.blocks[i].address].next
  /\ \A i \in 1..Len(w.blocks) : w.blocks[i].address # h.end
  /\ SumIs(w.blocks, w.bytes)

\* The walk w of the extent added up the sizes of its free blocks, f in some order.
Adds(f, w) ==
  /\ f \in Seq(ListBlock) /\ Distinct(f) /\ Len(f) = w.frees /\ SumIs(f, w.bytes)
  /\ \A i \in 1..Len(f) : \E j \in FreeOf(w.blocks) : f[i] = Plain(w.blocks[j])
  /\ \A j \in FreeOf(w.blocks) : \E i \in 1..Len(f) : f[i] = Plain(w.blocks[j])
FreePart(w) == \E f : Adds(f, w)

\* Each free block is a hole of its own where no two touch.
HolesAreFrees(w) ==
  (\A i \in 1..(Len(w.blocks) - 1) : w.blocks[i].allocated \/ w.blocks[i + 1].allocated)
    => w.holes = w.frees

ListEnded ==
  \/ list.cur = heap.end /\ ~list.corrupt /\ ~list.truncated
  \/ list.cur # heap.end /\ Exhausted(list) /\ list.truncated
  \/ /\ list.cur # heap.end /\ list.corrupt
     /\ list.cur = Null \/ (~Exhausted(list) /\ ~ListTakes(list.cur))

LinearEnded ==
  \/ linear.cur = NoAddress /\ ~linear.corrupt /\ ~linear.truncated /\ linear.incomplete = (build.kind = 5)
  \/ /\ linear.cur # NoAddress /\ (LinearDone \/ RegionEnd(linear.cur)) /\ ~linear.truncated
     /\ IF build.kind = 5 THEN ~linear.corrupt /\ linear.incomplete = (linear.cur # heap.end)
        ELSE linear.corrupt = (linear.cur # HeapLimit)
  \/ ~LinearDone /\ Exhausted(linear) /\ linear.truncated
  \/ /\ ~LinearDone /\ ~Exhausted(linear) /\ linear.corrupt
     /\ ~LinearTakes(linear.cur) /\ ~RegionEnd(linear.cur)

Judged ==
  check = IF ~Walked THEN "unavailable" ELSE IF ~Comparable THEN "unavailable"
          ELSE IF Agree THEN "ok" ELSE "mismatch"

Trace ==
  /\ at \in {"list", "linear", "check"} => Walked
  /\ at = "done" => Judged
  /\ at # "idle" /\ ReadsList => Follows(mem, heap, list)
  /\ at = "list" => ~list.corrupt /\ ~list.truncated
  /\ at \in {"linear", "check", "done"} /\ ReadsList => ListEnded
  /\ at \in {"linear", "check", "done"} /\ Walked =>
       /\ linear.cur = NoAddress <=> (LinearLow = NoAddress \/ HeapLimit \in {NoAddress, Null})
       /\ linear.cur = NoAddress => linear.bytes = -1
       /\ linear.cur # NoAddress => FreePart(linear)
       /\ HolesAreFrees(linear)
  /\ at = "linear" => ~linear.corrupt /\ ~linear.truncated /\ linear.incomplete = (build.kind = 5)
  /\ at \in {"check", "done"} /\ Walked => LinearEnded

\* Nothing that is said of a halted target and of finished walks changes.
LEMMA StillSo ==
  ASSUME UNCHANGED target, list' = list
  PROVE  /\ Walked' = Walked /\ ReadsList' = ReadsList
         /\ (ListEnded => ListEnded')
         /\ \A x : RegionEnd(x)' = RegionEnd(x)
         /\ \A x : LinearTakes(x)' = LinearTakes(x)
<1>1. build' = build /\ mem' = mem /\ heap' = heap
  BY DEF target
<1>2. /\ LinearLow' = LinearLow /\ HeapLimit' = HeapLimit
      /\ \A r : SizeOf(r)' = SizeOf(r)
      /\ \A r : CarriesBit(r)' = CarriesBit(r)
  BY Halted
<1>3. Walked' = Walked /\ ReadsList' = ReadsList
  BY <1>1 DEF Walked, ReadsList, HasBlocks, Initialised
<1>4. \A x : Misaligned(x)' = Misaligned(x)
  BY <1>1 DEF Misaligned
<1>5. \A x : RegionEnd(x)' = RegionEnd(x)
  BY <1>1, <1>2, <1>4 DEF RegionEnd
<1>6. \A x : LinearTakes(x)' = LinearTakes(x)
  BY <1>1, <1>2, <1>4 DEF LinearTakes
<1>7. \A x : ListTakes(x)' = ListTakes(x)
  BY <1>1, <1>2, <1>4 DEF ListTakes, Addresses, Lower
<1>8. Exhausted(list)' = Exhausted(list)
  BY DEF Exhausted
<1>9. ListTakes(list.cur)' = ListTakes(list.cur)
  <2>1. PICK x : x = list.cur
    OBVIOUS
  <2>2. ListTakes(x)' = ListTakes(x) /\ list'.cur = x
    BY <1>7, <2>1
  <2>. QED BY <2>1, <2>2 DEF ListTakes, Addresses
<1>10. ListEnded => ListEnded'
  BY <1>1, <1>8, <1>9 DEF ListEnded
<1>. QED BY <1>3, <1>5, <1>6, <1>10

\* Nothing has been walked yet.
LEMMA BeginTraced ==
  ASSUME Inv, Trace, BeginSnapshot
  PROVE  Trace'
<1>1. /\ at = "idle" /\ UNCHANGED target /\ linear' = linear /\ build' = build /\ mem' = mem /\ heap' = heap
  BY Halted DEF BeginSnapshot
<1>2. Walked' = Walked /\ ReadsList' = ReadsList
  BY <1>1 DEF Walked, ReadsList, HasBlocks, Initialised
<1>3. CASE ~Walked
  <2>1. at' = "done" /\ check' = "unavailable"
    BY <1>3 DEF BeginSnapshot, Walked
  <2>2. Judged'
    BY <1>2, <1>3, <2>1 DEF Judged
  <2>. QED BY <1>2, <1>3, <2>1, <2>2 DEF Trace, ReadsList
<1>4. CASE Walked
  <2>1. at' = "list" /\ list' = ListStart
    BY <1>4 DEF BeginSnapshot, Walked
  <2>2. ~list'.corrupt /\ ~list'.truncated
    BY <2>1 DEF ListStart, Walk, NoWalk
  <2>3. ASSUME ReadsList PROVE Follows(mem, heap, list')
    <3>1. list' = Walk(heap.head) /\ heap.head \in Nat
      BY <2>1, <2>3 DEF ListStart, ReadsList, Inv, WalkTypeOK, Statics
    <3>2. list'.cur = heap.head /\ list'.blocks = << >> /\ list'.bytes = 0
      BY <3>1, EmptyWalks
    <3>3. Len(list'.blocks) = 0
      BY <3>2
    <3>. QED BY <3>2, <3>3, SumEmpty DEF Follows
  <2>. QED BY <1>1, <1>2, <1>4, <2>1, <2>2, <2>3 DEF Trace
<1>. QED BY <1>3, <1>4

\* One more block of the free list: its link is where the walk goes on.
LEMMA ListStepTraced ==
  ASSUME Inv, Trace, ListStep
  PROVE  Trace'
<1> DEFINE a == list.cur
           n == SizeOf(mem[a].raw)
           b == [address |-> a, size |-> n]
           s == list.blocks
<1>0. WalkTypeOK /\ ListShape /\ at = "list" /\ at' = "list" /\ UNCHANGED <<target, linear, check>>
  BY DEF Inv, ListStep
<1>1. list \in WalkOver(Seq(ListBlock)) /\ s \in Seq(ListBlock)
  BY <1>0 DEF WalkTypeOK, WalkOver
<1>2. a # NoAddress /\ a \in DOMAIN mem /\ a # heap.end
  BY DEF ListStep, ListDone, ListTakes
<1>3. a \in Nat /\ mem[a] \in Header
  BY <1>0, <1>1, <1>2 DEF WalkTypeOK, IsMemory
<1>4. n \in Nat /\ b \in ListBlock
  BY <1>3, SizeIsNat DEF Header, ListBlock
<1>5. list.bytes \in Nat
  BY <1>0, <1>2 DEF ListShape
<1>6. list' = [list EXCEPT !.cur = mem[a].next, !.blocks = Append(s, b), !.bytes = list.bytes + n]
  BY DEF ListStep
<1>7. /\ list'.blocks = Append(s, b) /\ list'.cur = mem[a].next /\ list'.bytes = list.bytes + n
      /\ list'.corrupt = list.corrupt /\ list'.truncated = list.truncated
  BY <1>1, <1>6 DEF WalkOver
<1>8. build' = build /\ mem' = mem /\ heap' = heap
  BY <1>0, Halted
<1>9. Walked' = Walked /\ ReadsList' = ReadsList
  BY <1>8 DEF Walked, ReadsList, HasBlocks, Initialised
<1>10. ASSUME ReadsList PROVE Follows(mem, heap, list')
  <2>1. Follows(mem, heap, list)
    BY <1>0, <1>10 DEF Trace
  <2>2. PICK k \in Nat : k = Len(s)
    BY <1>1
  <2>3. PICK t : t = Append(s, b)
    OBVIOUS
  <2>4. Len(t) = k + 1 /\ (\A i \in 1..k : t[i] = s[i]) /\ t[k + 1] = b /\ t # << >>
    BY <1>1, <1>4, <2>2, <2>3, AppendProperties
  <2>5. SumIs(t, list.bytes + n)
    <3>2. b \in ListBlock /\ s \in Seq(ListBlock)
      BY <1>1, <1>4, Zenon
    <3>4. list.bytes \in Int /\ SumIs(s, list.bytes)
      BY <1>5, <2>1 DEF Follows
    <3>3. b.size = n
      OBVIOUS
    <3> HIDE DEF b, s, n
    <3>. QED BY <2>3, <3>2, <3>3, <3>4, SumAppend
  <2>6. t[1].address = heap.head
    <3>1. CASE k = 0
      <4>1. s = << >>
        BY <1>1, <2>2, <3>1, EmptySeq
      <4>. QED BY <2>1, <2>4, <3>1, <4>1 DEF Follows
    <3>2. CASE k # 0
      <4>1. s # << >> /\ 1 \in 1..k
        BY <2>2, <3>2
      <4>. QED BY <2>1, <2>4, <4>1 DEF Follows
    <3>. QED BY <3>1, <3>2
  <2>7. \A i \in 1..k : t[i + 1].address = mem[t[i].address].next
    <3> SUFFICES ASSUME NEW i \in 1..k PROVE t[i + 1].address = mem[s[i].address].next
      BY <2>4
    <3>1. CASE i = k
      <4>1. s # << >>
        BY <2>2, <3>1
      <4>. QED BY <2>1, <2>2, <2>4, <3>1, <4>1 DEF Follows
    <3>2. CASE i # k
      <4>1. i \in 1..(k - 1) /\ i + 1 \in 1..k
        BY <3>2
      <4>2. s[i + 1].address = mem[s[i].address].next
        BY <2>1, <2>2, <4>1 DEF Follows
      <4>. QED BY <2>4, <4>1, <4>2
    <3>. QED BY <3>1, <3>2
  <2>8. \A i \in 1..(k + 1) : t[i].address # heap.end
    <3> SUFFICES ASSUME NEW i \in 1..(k + 1) PROVE t[i].address # heap.end
      OBVIOUS
    <3>1. CASE i = k + 1
      BY <1>2, <2>4, <3>1
    <3>2. CASE i # k + 1
      <4>1. i \in 1..k
        BY <3>2
      <4>. QED BY <2>1, <2>2, <2>4, <4>1 DEF Follows
    <3>. QED BY <3>1, <3>2
  <2>9. (k + 1) - 1 = k
    OBVIOUS
  <2>10. list'.cur = mem[t[Len(t)].address].next
    BY <1>7, <2>4
  <2> HIDE DEF b, s, a, n
  <2>. QED BY <1>7, <2>3, <2>4, <2>5, <2>6, <2>7, <2>8, <2>9, <2>10 DEF Follows
<1>. QED BY <1>0, <1>7, <1>8, <1>9, <1>10 DEF Trace

\* The walk of the free list ends for one of three reasons.
LEMMA ListStopsTraced ==
  ASSUME Inv, Trace, ListStops
  PROVE  Trace'
<1>0. WalkTypeOK /\ at = "list" /\ at' = "linear" /\ UNCHANGED target
  BY DEF Inv, ListStops
<1>1. list \in WalkOver(Seq(ListBlock)) /\ ~list.corrupt /\ ~list.truncated /\ Walked
  BY <1>0 DEF WalkTypeOK, Trace
<1>2. build' = build /\ mem' = mem /\ heap' = heap /\ LinearLow' = LinearLow /\ HeapLimit' = HeapLimit
  BY <1>0, Halted
<1>3. /\ list'.blocks = list.blocks /\ list'.cur = list.cur /\ list'.bytes = list.bytes
      /\ \/ ListDone /\ ~list'.corrupt /\ ~list'.truncated
         \/ ~ListDone /\ Exhausted(list) /\ list'.truncated
         \/ /\ ~ListDone /\ list'.corrupt
            /\ list.cur = Null \/ (~Exhausted(list) /\ ~ListTakes(list.cur))
  <2>1. CASE ListDone /\ list' = list
    BY <1>1, <2>1
  <2>2. CASE ~ListDone /\ Exhausted(list) /\ list' = [list EXCEPT !.truncated = TRUE]
    BY <1>1, <2>2 DEF WalkOver
  <2>3. CASE /\ ~ListDone /\ (list.cur = Null \/ (~Exhausted(list) /\ ~ListTakes(list.cur)))
             /\ list' = [list EXCEPT !.corrupt = TRUE]
    BY <1>1, <2>3 DEF WalkOver
  <2>. QED BY <2>1, <2>2, <2>3 DEF ListStops
<1>4. Walked' = Walked /\ ReadsList' = ReadsList
  BY <1>2 DEF Walked, ReadsList, HasBlocks, Initialised
<1>5. ASSUME ReadsList PROVE Follows(mem, heap, list') /\ ListEnded'
  <2>1. Follows(mem, heap, list)
    BY <1>0, <1>5 DEF Trace
  <2>2. Follows(mem, heap, list')
    BY <1>3, <2>1 DEF Follows
  <2>3. ListDone = (list.cur = heap.end)
    <3>1. list.cur # NoAddress
      <4>1. heap.head \in Nat
        BY <1>0 DEF WalkTypeOK, Statics
      <4>2. ASSUME list.blocks # << >> PROVE list.cur \in Nat
        <5>1. Len(list.blocks) \in 1..Len(list.blocks) /\ DOMAIN list.blocks = 1..Len(list.blocks)
          BY <1>1, <4>2 DEF WalkOver
        <5>2. list.blocks[Len(list.blocks)].address \in DOMAIN mem
          BY <5>1 DEF Inv, ListShape
        <5>3. mem[list.blocks[Len(list.blocks)].address] \in Header
          BY <1>0, <5>2 DEF WalkTypeOK, IsMemory
        <5>. QED BY <2>1, <4>2, <5>3 DEF Follows, Header
      <4>. QED BY <2>1, <4>1, <4>2 DEF Follows, NoAddress
    <3>. QED BY <3>1 DEF ListDone
  <2>4. Exhausted(list)' = Exhausted(list)
    BY <1>3 DEF Exhausted
  <2>5. ListTakes(list.cur)' = ListTakes(list.cur)
    <3>1. \A r : CarriesBit(r)' = CarriesBit(r)
      BY <1>0, Halted
    <3>. QED BY <1>2, <1>3, <3>1 DEF ListTakes, Addresses, Misaligned, Lower
  <2>6. ListEnded'
    BY <1>2, <1>3, <2>3, <2>4, <2>5 DEF ListEnded
  <2>. QED BY <2>2, <2>6
<1>6. PICK w : w = IF LinearLow = NoAddress \/ HeapLimit \in {NoAddress, Null}
                   THEN NoWalk ELSE Walk(LinearLow)
  OBVIOUS
<1>7. linear' = [w EXCEPT !.incomplete = build.kind = 5]
  BY <1>6 DEF ListStops, LinearStart
<1>8. LinearLow \in Nat \cup {NoAddress}
  BY <1>0, BoundTypes DEF WalkTypeOK
<1>9. /\ w \in WalkOver(Seq(LinearBlock)) /\ w.blocks = << >> /\ w.frees = 0 /\ w.holes = 0
      /\ w.cur = NoAddress <=> (LinearLow = NoAddress \/ HeapLimit \in {NoAddress, Null})
      /\ w.cur = NoAddress => w.bytes = -1
      /\ w.cur # NoAddress => w.bytes = 0
      /\ ~w.corrupt /\ ~w.truncated
  <2>1. ASSUME NEW x \in Nat PROVE Walk(x).holes = 0 /\ ~Walk(x).corrupt /\ ~Walk(x).truncated /\ x # NoAddress
    BY DEF Walk, NoWalk, NoAddress
  <2>2. NoWalk.holes = 0 /\ NoWalk.bytes = -1 /\ ~NoWalk.corrupt /\ ~NoWalk.truncated
    BY DEF NoWalk
  <2>. QED BY <1>6, <1>8, <2>1, <2>2, EmptyWalks
<1>10. /\ linear'.blocks = << >> /\ linear'.frees = 0 /\ linear'.holes = 0 /\ linear'.cur = w.cur
       /\ linear'.cur # NoAddress => linear'.bytes = 0
       /\ linear'.cur = NoAddress => linear'.bytes = -1
       /\ ~linear'.corrupt /\ ~linear'.truncated /\ linear'.incomplete = (build.kind = 5)
  BY <1>7, <1>9 DEF WalkOver
<1>11. HolesAreFrees(linear')
  BY <1>10 DEF HolesAreFrees
<1>12. linear'.cur # NoAddress => FreePart(linear')
  <2>1. ASSUME linear'.cur # NoAddress PROVE Adds(<< >>, linear')
    <3>1. FreeOf(linear'.blocks) = {}
      BY <1>10 DEF FreeOf
    <3>2. << >> \in Seq(ListBlock) /\ Len(<< >>) = 0 /\ Distinct(<< >>)
      BY DEF Distinct
    <3>. QED BY <1>10, <2>1, <3>1, <3>2, SumEmpty DEF Adds
  <2>. QED BY <2>1 DEF FreePart
<1>13. linear'.cur = NoAddress <=> (LinearLow' = NoAddress \/ HeapLimit' \in {NoAddress, Null})
  BY <1>2, <1>9, <1>10
<1>. QED BY <1>0, <1>1, <1>2, <1>4, <1>5, <1>10, <1>11, <1>12, <1>13 DEF Trace

\* One more block of the extent, free or not.
LEMMA LinearStepTraced ==
  ASSUME Inv, Trace, LinearStep
  PROVE  Trace'
<1> DEFINE a == linear.cur
           u == Allocated(a)
           s == linear.blocks
<1>0. /\ WalkTypeOK /\ LinearShape /\ Counted /\ at = "linear" /\ at' = "linear"
      /\ UNCHANGED target /\ list' = list /\ check' = check
  BY DEF Inv, LinearStep
<1>1. linear \in WalkOver(Seq(LinearBlock)) /\ s \in Seq(LinearBlock)
  BY <1>0 DEF WalkTypeOK, WalkOver
<1>2. a # NoAddress /\ a \in DOMAIN mem /\ SizeOf(mem[a].raw) > 0
  BY DEF LinearStep, LinearDone, LinearTakes
<1>3. a \in Nat /\ mem[a] \in Header
  BY <1>0, <1>1, <1>2 DEF WalkTypeOK, IsMemory
<1>4. PICK n \in Nat \ {0} : n = SizeOf(mem[a].raw)
  BY <1>2, <1>3, SizeIsNat DEF Header
<1>5. PICK b : b = [address |-> a, size |-> n, allocated |-> u]
  OBVIOUS
<1>6. b \in LinearBlock /\ b.address = a /\ b.size = n /\ b.allocated = u /\ u \in BOOLEAN
  BY <1>3, <1>5 DEF LinearBlock, Allocated, CarriesBit
<1>7. PICK t : t = Append(s, b)
  OBVIOUS
<1>8. PICK k \in Nat : k = Len(s)
  BY <1>1
<1>9. /\ Len(t) = k + 1 /\ (\A i \in 1..k : t[i] = s[i]) /\ t[k + 1] = b
      /\ DOMAIN s = 1..k /\ DOMAIN t = 1..(k + 1)
  BY <1>1, <1>6, <1>7, <1>8, AppendProperties
<1>10. linear.bytes \in Nat /\ LinearLow # NoAddress /\ linear.frees \in Nat /\ linear.holes \in Nat
  BY <1>0, <1>1, <1>2 DEF LinearShape, WalkOver
<1>11. linear' = [linear EXCEPT
          !.cur = a + n, !.blocks = t,
          !.bytes = linear.bytes + (IF u THEN 0 ELSE n),
          !.frees = linear.frees + (IF u THEN 0 ELSE 1),
          !.holes = linear.holes + (IF ~u /\ OpensHole(s) THEN 1 ELSE 0)]
  BY <1>4, <1>5, <1>7 DEF LinearStep
<1> HIDE DEF u, s
<1>12. /\ linear'.blocks = t /\ linear'.cur = a + n
       /\ linear'.bytes = linear.bytes + (IF u THEN 0 ELSE n)
       /\ linear'.frees = linear.frees + (IF u THEN 0 ELSE 1)
       /\ linear'.holes = linear.holes + (IF ~u /\ OpensHole(s) THEN 1 ELSE 0)
       /\ linear'.corrupt = linear.corrupt /\ linear'.truncated = linear.truncated
       /\ linear'.incomplete = linear.incomplete
  BY <1>1, <1>11 DEF WalkOver
<1>13. build' = build /\ mem' = mem /\ heap' = heap /\ LinearLow' = LinearLow /\ HeapLimit' = HeapLimit
  BY <1>0, Halted
<1>14. /\ Walked /\ HolesAreFrees(linear) /\ FreePart(linear)
       /\ linear.cur = NoAddress <=> (LinearLow = NoAddress \/ HeapLimit \in {NoAddress, Null})
  BY <1>0, <1>2 DEF Trace
<1>15. FreeOf(t) = IF u THEN FreeOf(s) ELSE FreeOf(s) \cup {k + 1}
  BY <1>6, <1>9 DEF FreeOf
<1>16. FreeOf(s) \subseteq 1..k
  BY <1>9 DEF FreeOf
<1>17. FreePart(linear')
  <2>1. PICK f : Adds(f, linear)
    BY <1>14 DEF FreePart
  <2>2. /\ f \in Seq(ListBlock) /\ Distinct(f) /\ Len(f) = linear.frees /\ SumIs(f, linear.bytes)
        /\ \A i \in 1..Len(f) : \E j \in FreeOf(s) : f[i] = Plain(s[j])
        /\ \A j \in FreeOf(s) : \E i \in 1..Len(f) : f[i] = Plain(s[j])
    BY <2>1 DEF Adds, s
  <2>3. CASE u
    <3>1. linear'.frees = linear.frees /\ linear'.bytes = linear.bytes
      BY <1>10, <1>12, <2>3
    <3>2. FreeOf(t) = FreeOf(s)
      BY <1>15, <2>3
    <3>3. \A j \in FreeOf(s) : t[j] = s[j]
      BY <1>9, <1>16
    <3>4. Adds(f, linear')
      BY <1>12, <2>2, <3>1, <3>2, <3>3 DEF Adds
    <3>. QED BY <3>4 DEF FreePart
  <2>4. CASE ~u
    <3>1. linear'.frees = linear.frees + 1 /\ linear'.bytes = linear.bytes + n
      BY <1>10, <1>12, <2>4
    <3>2. FreeOf(t) = FreeOf(s) \cup {k + 1}
      BY <1>15, <2>4
    <3>3. PICK e \in ListBlock : e = Plain(b)
      BY <1>3, <1>6 DEF Plain, ListBlock
    <3>4. e.address = a /\ e.size = n
      BY <1>6, <3>3 DEF Plain
    <3>5. PICK g : g = Append(f, e)
      OBVIOUS
    <3>6. PICK m \in Nat : m = Len(f)
      BY <2>2
    <3>7. g \in Seq(ListBlock) /\ Len(g) = m + 1 /\ (\A i \in 1..m : g[i] = f[i]) /\ g[m + 1] = e
      BY <2>2, <3>3, <3>5, <3>6, AppendProperties
    <3>8. SumIs(g, linear.bytes + n)
      <4>1. linear.bytes \in Int
        BY <1>10
      <4>. QED BY <2>2, <3>3, <3>4, <3>5, <4>1, SumAppend
    <3>9. ASSUME NEW i \in 1..m PROVE f[i] # e
      <4>1. PICK j \in FreeOf(s) : f[i] = Plain(s[j])
        BY <2>2, <3>6
      <4>2. j \in DOMAIN linear.blocks /\ s[j] \in LinearBlock
        BY <1>1, <1>9, <1>16 DEF s
      <4>3. s[j].address + s[j].size <= a
        BY <1>0, <4>2 DEF LinearShape, s
      <4>4. s[j].address # a
        BY <1>3, <4>2, <4>3 DEF LinearBlock
      <4>5. f[i].address = s[j].address
        BY <4>1 DEF Plain
      <4>. QED BY <3>4, <4>4, <4>5
    <3>10. Distinct(g)
      <4> SUFFICES ASSUME NEW i \in 1..(m + 1), NEW j \in 1..(m + 1), g[i] = g[j] PROVE i = j
        BY <3>7 DEF Distinct
      <4>1. CASE i \in 1..m /\ j \in 1..m
        BY <2>2, <3>6, <3>7, <4>1 DEF Distinct
      <4>2. CASE i = m + 1 /\ j \in 1..m
        BY <3>7, <3>9, <4>2
      <4>3. CASE i \in 1..m /\ j = m + 1
        BY <3>7, <3>9, <4>3
      <4>. QED BY <4>1, <4>2, <4>3
    <3>11. ASSUME NEW i \in 1..(m + 1) PROVE \E j \in FreeOf(t) : g[i] = Plain(t[j])
      <4>1. CASE i = m + 1
        BY <1>9, <3>2, <3>3, <3>7, <4>1
      <4>2. CASE i # m + 1
        <5>1. i \in 1..m
          BY <4>2
        <5>2. PICK j \in FreeOf(s) : f[i] = Plain(s[j])
          BY <2>2, <3>6, <5>1
        <5>3. t[j] = s[j] /\ j \in FreeOf(t) /\ g[i] = f[i]
          BY <1>9, <1>16, <3>2, <3>7, <5>1
        <5>. QED BY <5>2, <5>3
      <4>. QED BY <4>1, <4>2
    <3>12. ASSUME NEW j \in FreeOf(t) PROVE \E i \in 1..(m + 1) : g[i] = Plain(t[j])
      <4>1. CASE j = k + 1
        <5>1. m + 1 \in 1..(m + 1)
          OBVIOUS
        <5>. QED BY <1>9, <3>3, <3>7, <4>1, <5>1
      <4>2. CASE j # k + 1
        <5>1. j \in FreeOf(s) /\ t[j] = s[j]
          BY <1>9, <1>16, <3>2, <4>2
        <5>2. PICK i \in 1..m : f[i] = Plain(s[j])
          BY <2>2, <3>6, <5>1
        <5>3. i \in 1..(m + 1) /\ g[i] = f[i]
          BY <3>7
        <5>. QED BY <5>1, <5>2, <5>3
      <4>. QED BY <4>1, <4>2
    <3>13. Adds(g, linear')
      <4>1. Len(g) = linear'.frees
        BY <2>2, <3>1, <3>6, <3>7
      <4>. QED BY <1>12, <3>1, <3>7, <3>8, <3>10, <3>11, <3>12, <4>1 DEF Adds
    <3>. QED BY <3>13 DEF FreePart
  <2>. QED BY <2>3, <2>4
<1>18. HolesAreFrees(linear')
  <2> SUFFICES ASSUME \A i \in 1..k : t[i].allocated \/ t[i + 1].allocated
               PROVE  linear'.holes = linear'.frees
    BY <1>9, <1>12 DEF HolesAreFrees
  <2>1. \A i \in 1..(k - 1) : s[i].allocated \/ s[i + 1].allocated
    <3> SUFFICES ASSUME NEW i \in 1..(k - 1) PROVE s[i].allocated \/ s[i + 1].allocated
      OBVIOUS
    <3>1. i \in 1..k /\ i + 1 \in 1..k
      OBVIOUS
    <3>. QED BY <1>9, <3>1
  <2>2. linear.holes = linear.frees
    BY <1>8, <1>14, <2>1 DEF HolesAreFrees, s
  <2>3. CASE u
    BY <1>10, <1>12, <2>2, <2>3
  <2>4. CASE ~u
    <3>1. OpensHole(s)
      <4>1. CASE k = 0
        <5>1. s = << >>
          BY <1>1, <1>8, <4>1, EmptySeq DEF s
        <5>. QED BY <5>1 DEF OpensHole
      <4>2. CASE k # 0
        <5>1. k \in 1..k
          BY <4>2
        <5>2. t[k].allocated \/ b.allocated
          BY <1>9, <5>1
        <5>3. s[k].allocated
          BY <1>6, <1>9, <2>4, <5>1, <5>2
        <5>. QED BY <1>8, <5>3 DEF OpensHole
      <4>. QED BY <4>1, <4>2
    <3>. QED BY <1>10, <1>12, <2>2, <2>4, <3>1
  <2>. QED BY <2>3, <2>4
<1>19. Walked' = Walked /\ ReadsList' = ReadsList /\ (ListEnded => ListEnded')
  BY <1>0, StillSo
<1>20. linear'.cur # NoAddress
  BY <1>3, <1>12 DEF NoAddress
<1>21. linear'.cur = NoAddress <=> (LinearLow' = NoAddress \/ HeapLimit' \in {NoAddress, Null})
  BY <1>2, <1>13, <1>14, <1>20
<1>22. /\ at' # "idle" /\ ReadsList' => Follows(mem, heap, list)'
       /\ ReadsList' => ListEnded'
       /\ ~linear.corrupt /\ ~linear.truncated /\ linear.incomplete = (build.kind = 5)
  BY <1>0, <1>13, <1>19 DEF Trace
<1>23. ~linear'.corrupt /\ ~linear'.truncated /\ linear'.incomplete = (build'.kind = 5)
  BY <1>12, <1>13, <1>22
<1>24. HolesAreFrees(linear)' /\ FreePart(linear)'
  BY <1>17, <1>18
<1>25. (at \in {"list", "linear", "check"} => Walked)'
  BY <1>14, <1>19
<1>. QED BY <1>0, <1>19, <1>20, <1>21, <1>22, <1>23, <1>24, <1>25 DEF Trace

\* The walk of the extent ends for one of four.
LEMMA LinearStopsTraced ==
  ASSUME Inv, Trace, LinearStops
  PROVE  Trace'
<1>0. /\ WalkTypeOK /\ at = "linear" /\ at' = "check" /\ UNCHANGED target /\ list' = list
  BY DEF Inv, LinearStops
<1>1. /\ linear \in WalkOver(Seq(LinearBlock)) /\ Walked
      /\ ~linear.corrupt /\ ~linear.truncated /\ linear.incomplete = (build.kind = 5)
  BY <1>0 DEF WalkTypeOK, Trace
<1>2. build' = build /\ mem' = mem /\ heap' = heap /\ LinearLow' = LinearLow /\ HeapLimit' = HeapLimit
  BY <1>0, Halted
<1>3. /\ Walked' = Walked /\ ReadsList' = ReadsList /\ (ListEnded => ListEnded')
      /\ \A x : RegionEnd(x)' = RegionEnd(x)
      /\ \A x : LinearTakes(x)' = LinearTakes(x)
  BY <1>0, StillSo
<1>4. /\ linear'.blocks = linear.blocks /\ linear'.cur = linear.cur /\ linear'.bytes = linear.bytes
      /\ linear'.frees = linear.frees /\ linear'.holes = linear.holes
      /\ \/ linear.cur = NoAddress /\ linear' = linear
         \/ /\ linear.cur # NoAddress /\ (LinearDone \/ RegionEnd(linear.cur)) /\ ~linear'.truncated
            /\ IF build.kind = 5 THEN ~linear'.corrupt /\ linear'.incomplete = (linear.cur # heap.end)
               ELSE linear'.corrupt = (linear.cur # HeapLimit)
         \/ ~LinearDone /\ Exhausted(linear) /\ linear'.truncated
         \/ /\ ~LinearDone /\ ~Exhausted(linear) /\ linear'.corrupt
            /\ ~LinearTakes(linear.cur) /\ ~RegionEnd(linear.cur)
  <2>1. CASE linear.cur = NoAddress /\ linear' = linear
    BY <2>1
  <2>2. CASE /\ linear.cur # NoAddress /\ (LinearDone \/ RegionEnd(linear.cur))
             /\ linear' = IF build.kind = 5
                          THEN [linear EXCEPT !.incomplete = linear.cur # heap.end]
                          ELSE [linear EXCEPT !.corrupt = linear.cur # HeapLimit]
    <3>1. CASE build.kind = 5
      BY <1>1, <2>2, <3>1 DEF WalkOver
    <3>2. CASE build.kind # 5
      BY <1>1, <2>2, <3>2 DEF WalkOver
    <3>. QED BY <3>1, <3>2
  <2>3. CASE ~LinearDone /\ Exhausted(linear) /\ linear' = [linear EXCEPT !.truncated = TRUE]
    BY <1>1, <2>3 DEF WalkOver
  <2>4. CASE /\ ~LinearDone /\ ~Exhausted(linear) /\ ~LinearTakes(linear.cur) /\ ~RegionEnd(linear.cur)
             /\ linear' = [linear EXCEPT !.corrupt = TRUE]
    BY <1>1, <2>4 DEF WalkOver
  <2>. QED BY <2>1, <2>2, <2>3, <2>4 DEF LinearStops
<1>5. LinearDone' = LinearDone
  BY <1>2, <1>4 DEF LinearDone
<1>6. Exhausted(linear)' = Exhausted(linear)
  BY <1>4 DEF Exhausted
<1>7. PICK c : c = linear.cur
  OBVIOUS
<1>8. /\ RegionEnd(c)' = RegionEnd(c) /\ LinearTakes(c)' = LinearTakes(c)
  BY <1>3
<1>9. RegionEnd(linear.cur)' = RegionEnd(linear.cur) /\ LinearTakes(linear.cur)' = LinearTakes(linear.cur)
  <2>1. linear'.cur = c
    BY <1>4, <1>7
  <2>. QED BY <1>7, <1>8, <2>1 DEF RegionEnd, LinearTakes, Misaligned
<1>10. LinearEnded'
  BY <1>1, <1>2, <1>4, <1>5, <1>6, <1>9 DEF LinearEnded
<1>11. FreePart(linear) => FreePart(linear')
  BY <1>4 DEF FreePart, Adds
<1>12. HolesAreFrees(linear) => HolesAreFrees(linear')
  BY <1>4 DEF HolesAreFrees
<1>13. /\ ReadsList => Follows(mem, heap, list) /\ ListEnded
       /\ linear.cur = NoAddress <=> (LinearLow = NoAddress \/ HeapLimit \in {NoAddress, Null})
       /\ linear.cur = NoAddress => linear.bytes = -1
       /\ linear.cur # NoAddress => FreePart(linear)
       /\ HolesAreFrees(linear)
  BY <1>0, <1>1 DEF Trace
<1>14. FreePart(linear)' = FreePart(linear') /\ HolesAreFrees(linear)' = HolesAreFrees(linear')
  OBVIOUS
<1>15. Follows(mem, heap, list)' = Follows(mem, heap, list)
  BY <1>0, <1>2
<1>. QED BY <1>0, <1>1, <1>2, <1>3, <1>4, <1>10, <1>11, <1>12, <1>13, <1>14, <1>15 DEF Trace

\* The verdict, and what a step that changes neither walk leaves as it is.
LEMMA SameTrace ==
  ASSUME UNCHANGED target, list' = list, linear' = linear, Trace
  PROVE  /\ Walked' = Walked /\ ReadsList' = ReadsList /\ LinearEnded' = LinearEnded
         /\ ListEnded => ListEnded'
         /\ Comparable' = Comparable /\ Agree' = Agree
         /\ Follows(mem, heap, list)' = Follows(mem, heap, list)
         /\ FreePart(linear)' = FreePart(linear) /\ HolesAreFrees(linear)' = HolesAreFrees(linear)
<1>1. build' = build /\ mem' = mem /\ heap' = heap /\ LinearLow' = LinearLow /\ HeapLimit' = HeapLimit /\ Masked' = Masked
  BY Halted
<1>2. /\ Walked' = Walked /\ ReadsList' = ReadsList /\ (ListEnded => ListEnded')
      /\ \A x : RegionEnd(x)' = RegionEnd(x)
      /\ \A x : LinearTakes(x)' = LinearTakes(x)
  BY StillSo
<1>3. PICK c : c = linear.cur
  OBVIOUS
<1>4. RegionEnd(c)' = RegionEnd(c) /\ LinearTakes(c)' = LinearTakes(c) /\ linear'.cur = c
  BY <1>2, <1>3
<1>5. RegionEnd(linear.cur)' = RegionEnd(linear.cur) /\ LinearTakes(linear.cur)' = LinearTakes(linear.cur)
  BY <1>3, <1>4 DEF RegionEnd, LinearTakes, Misaligned
<1>6. LinearDone' = LinearDone /\ Exhausted(linear)' = Exhausted(linear)
  BY <1>1 DEF LinearDone, Exhausted
<1>7. LinearEnded' = LinearEnded
  BY <1>1, <1>5, <1>6 DEF LinearEnded
<1>8. Comparable' = Comparable
  BY <1>1 DEF Comparable
<1>9. Agree' = Agree
  <2>1. PICK l, s : l = linear /\ s = list
    OBVIOUS
  <2>2. linear' = l /\ list' = s
    BY <2>1
  <2>. QED BY <1>1, <2>1, <2>2, Zenon DEF Agree, Addresses, FreeOf
<1>10. /\ Follows(mem, heap, list)' = Follows(mem, heap, list)
       /\ FreePart(linear)' = FreePart(linear) /\ HolesAreFrees(linear)' = HolesAreFrees(linear)
  BY <1>1
<1>. QED BY <1>2, <1>7, <1>8, <1>9, <1>10

\* The verdict is that of what both walks left.
LEMMA CrossValidateTraced ==
  ASSUME Inv, Trace, CrossValidate
  PROVE  Trace'
<1>0. /\ at = "check" /\ at' = "done" /\ UNCHANGED target /\ list' = list /\ linear' = linear /\ Walked
  BY DEF CrossValidate, Trace
<1>1. /\ Walked' = Walked /\ ReadsList' = ReadsList /\ LinearEnded' = LinearEnded
      /\ ListEnded => ListEnded'
      /\ Comparable' = Comparable /\ Agree' = Agree
      /\ Follows(mem, heap, list)' = Follows(mem, heap, list)
      /\ FreePart(linear)' = FreePart(linear) /\ HolesAreFrees(linear)' = HolesAreFrees(linear)
  BY <1>0, SameTrace
<1>2. LinearLow' = LinearLow /\ HeapLimit' = HeapLimit
  BY <1>0, Halted
<1>3. Judged'
  <2>1. check' = IF ~Comparable THEN "unavailable" ELSE IF Agree THEN "ok" ELSE "mismatch"
    BY DEF CrossValidate
  <2>. QED BY <1>0, <1>1, <2>1 DEF Judged
<1>4. /\ ReadsList => Follows(mem, heap, list) /\ ListEnded
      /\ linear.cur = NoAddress <=> (LinearLow = NoAddress \/ HeapLimit \in {NoAddress, Null})
      /\ linear.cur = NoAddress => linear.bytes = -1
      /\ linear.cur # NoAddress => FreePart(linear)
      /\ HolesAreFrees(linear) /\ LinearEnded
  BY <1>0 DEF Trace
<1>. QED BY <1>0, <1>1, <1>2, <1>3, <1>4 DEF Trace

\* Nothing changes.
LEMMA StutterTraced ==
  ASSUME Trace, UNCHANGED walkVars
  PROVE  Trace'
<1>0. /\ at' = at /\ check' = check /\ UNCHANGED target /\ list' = list /\ linear' = linear
  BY DEF walkVars, reader
<1>1. /\ Walked' = Walked /\ ReadsList' = ReadsList /\ LinearEnded' = LinearEnded
      /\ ListEnded => ListEnded'
      /\ Comparable' = Comparable /\ Agree' = Agree
      /\ Follows(mem, heap, list)' = Follows(mem, heap, list)
      /\ FreePart(linear)' = FreePart(linear) /\ HolesAreFrees(linear)' = HolesAreFrees(linear)
  BY <1>0, SameTrace
<1>2. LinearLow' = LinearLow /\ HeapLimit' = HeapLimit /\ build' = build
  BY <1>0, Halted
<1>3. Judged => Judged'
  BY <1>0, <1>1 DEF Judged
<1>4. (at # "idle" /\ ReadsList => Follows(mem, heap, list))'
  BY <1>0, <1>1 DEF Trace
<1>5. (at \in {"linear", "check", "done"} /\ ReadsList => ListEnded)'
  BY <1>0, <1>1 DEF Trace
<1>6. (at \in {"check", "done"} /\ Walked => LinearEnded)'
  BY <1>0, <1>1 DEF Trace
<1>7. (at \in {"linear", "check", "done"} /\ Walked =>
       /\ linear.cur = NoAddress <=> (LinearLow = NoAddress \/ HeapLimit \in {NoAddress, Null})
       /\ linear.cur = NoAddress => linear.bytes = -1
       /\ linear.cur # NoAddress => FreePart(linear)
       /\ HolesAreFrees(linear))'
  BY <1>0, <1>1, <1>2 DEF Trace
<1>8. /\ (at \in {"list", "linear", "check"} => Walked)' /\ (at = "done" => Judged)'
      /\ (at = "list" => ~list.corrupt /\ ~list.truncated)'
      /\ (at = "linear" => ~linear.corrupt /\ ~linear.truncated /\ linear.incomplete = (build.kind = 5))'
  BY <1>0, <1>1, <1>2, <1>3 DEF Trace
<1>. QED BY <1>4, <1>5, <1>6, <1>7, <1>8 DEF Trace

\* What the walks leave behind, at every step of a snapshot.
THEOREM WalksTraced == WalkSpec => []Trace
<1>1. WalkInit => Trace
  BY DEF WalkInit, Trace
<1>2. ASSUME Inv, Trace, [WalkNext]_walkVars PROVE Trace'
  <2>1. ASSUME Resume PROVE Trace'
    <3>1. at' = "idle"
      BY <2>1 DEF Resume
    <3>. QED BY <3>1 DEF Trace
  <2>. QED BY <1>2, <2>1, BeginTraced, ListStopsTraced, ListStepTraced, LinearStepTraced,
              LinearStopsTraced, CrossValidateTraced, StutterTraced DEF WalkNext, Read
<1>. QED BY <1>1, <1>2, WalkInvariant, PTL DEF WalkSpec
-----------------------------------------------------------------------------
\* The kernel's heap.

EndAt(g, i) == g[i][1] + g[i][2]
MarkerOf(b) == IF b.kind = 2 THEN XEnd ELSE EndAt(Regions[b], Len(Regions[b]))
Real(s) == {x \in ToSet(s) : x.size > 0}
Hand(o) == IF o.call = "malloc" THEN {o.block} ELSE {}
InHand(o) == IF o = NoOp THEN 0 ELSE o.block.size
Others(u, f, o) == u \cup f \cup Hand(o)

\* Blocks R that fill the regions g: each lies inside one and is followed by
\* another up to its end; no two overlap.
Inside(x, g) == \E i \in DOMAIN g : g[i][1] <= x.address /\ End(x) <= EndAt(g, i)
Follower(x, R, g) == (\E i \in DOMAIN g : End(x) = EndAt(g, i)) \/ \E y \in R : y.address = End(x)
Laid(R, g) ==
  /\ \A x \in R : x \in ListBlock /\ x.size > 0 /\ Inside(x, g) /\ Follower(x, R, g)
  /\ \E x \in R : x.address = g[1][1]
  /\ \A x, y \in R : x = y \/ End(x) <= y.address \/ End(y) <= x.address

\* The free list: by address, unless it is that of heap_2.
Ordered(s, b) ==
  /\ s \in Seq(ListBlock)
  /\ \A i, j \in 1..Len(s) : s[i].address = s[j].address => i = j
  /\ b.kind # 2 => \A i, j \in 1..Len(s) : i < j => s[i].address < s[j].address
  /\ \A i \in 1..Len(s) : s[i].size = 0 =>
       b.kind = 5 /\ \E k \in 1..(Len(Regions[b]) - 1) : s[i].address = EndAt(Regions[b], k)

\* The free list s and the other blocks O of the heap.
Sound(s, O, b) ==
  /\ Ordered(s, b) /\ Laid(Real(s) \cup O, Regions[b])
  /\ \A x \in ToSet(s) \cup O : OnCell(b, x.address)
  /\ ToSet(s) \cap O = {}

\* heap_4 merges what is adjacent.
Touch(s, i) == i \in 1..(Len(s) - 1) /\ End(s[i]) = s[i + 1].address
Merged(s, b) == b.kind = 4 => \A i \in 1..Len(s) : ~Touch(s, i)

\* A block is allocated, being freed or in the hand of malloc.
Apart(u, f, o) ==
  /\ IsFiniteSet(u) /\ u \cap f = {} /\ (u \cup f) \cap Hand(o) = {}
  /\ \/ o = NoOp
     \/ \E x \in ListBlock, n \in Sizes : n <= x.size /\ o = [call |-> "malloc", block |-> x, want |-> n]
     \/ \E x \in f : o = [call |-> "free", block |-> x]

\* What the memory says of it.
NextIn(s, i, b) == IF i = Len(s) THEN MarkerOf(b) ELSE s[i + 1].address
RawUsed(x, b) == IF b.kind # 2 \/ b.bitSince THEN x.size + Msb ELSE x.size
LinksTrue(m, s, b) == \A i \in 1..Len(s) : m[s[i].address].next = NextIn(s, i, b)
ListedTrue(m, s) == \A i \in 1..Len(s) : m[s[i].address].raw = s[i].size
UsedTrue(m, u, b) == \A x \in u : m[x.address].raw = RawUsed(x, b)
EndsTrue(m, b) == b.kind = 5 => \A i \in DOMAIN Regions[b] : m[EndAt(Regions[b], i)].raw = 0
HeadTrue(h, s, b) == h.head = (IF s = << >> THEN MarkerOf(b) ELSE s[1].address)
BoundsTrue(h, b) ==
  /\ h.end = MarkerOf(b) /\ h.endSize = (IF b.kind = 2 THEN Regions[b][1][2] ELSE 0)
  /\ h.base = Regions[b][1][1] /\ h.high = EndAt(Regions[b], Len(Regions[b])) + 2
Counts(h, s, o) == h.counter >= InHand(o) /\ SumIs(s, h.counter - InHand(o))

-----------------------------------------------------------------------------
\* Regions.

Ground(g) ==
  /\ 1 \in DOMAIN g /\ DOMAIN g = 1..Len(g) /\ Len(g) \in Nat
  /\ \A i \in DOMAIN g : /\ g[i][1] \in Nat /\ g[i][2] \in Nat /\ EndAt(g, i) \in Nat
                         /\ XEnd < g[i][1] /\ g[i][1] < EndAt(g, i) /\ EndAt(g, i) < Msb
  /\ \A i, j \in DOMAIN g : i < j => EndAt(g, i) < g[j][1]

\* What the assumptions say of the regions of an image.
LEMMA GroundIs ==
  ASSUME NEW b \in Builds
  PROVE  /\ Ground(Regions[b]) /\ (b.kind # 5 => Len(Regions[b]) = 1)
         /\ \A i \in DOMAIN Regions[b] : /\ OnCell(b, Regions[b][i][1])
                                         /\ b.kind # 2 => OnCell(b, EndAt(Regions[b], i))
         /\ b.alignment \in Nat
<1>1. PICK g : g = Regions[b]
  OBVIOUS
<1>2. /\ g \in Seq(Nat \X Nat) /\ g # << >> /\ (b.kind # 5 => Len(g) = 1)
      /\ \A i \in DOMAIN g : /\ g[i][1] > XEnd /\ g[i][2] > 0 /\ g[i][1] + g[i][2] < Msb
                             /\ OnCell(b, g[i][1]) /\ (b.kind # 2 => OnCell(b, g[i][1] + g[i][2]))
      /\ \A i, j \in DOMAIN g : i < j => g[i][1] + g[i][2] < g[j][1]
  BY <1>1, HeapAssumption
<1>3. \A i \in DOMAIN g : g[i][1] \in Nat /\ g[i][2] \in Nat
  BY <1>2
<1>4. Len(g) \in Nat /\ DOMAIN g = 1..Len(g)
  BY <1>2
<1>5. 1 \in DOMAIN g
  BY <1>2, <1>4, EmptySeq
<1>6. Ground(g)
  <2>1. ASSUME NEW i \in DOMAIN g
        PROVE /\ EndAt(g, i) \in Nat /\ XEnd < g[i][1] /\ g[i][1] < EndAt(g, i) /\ EndAt(g, i) < Msb
    <3>1. PICK x \in Nat, y \in Nat : x = g[i][1] /\ y = g[i][2]
      BY <1>3
    <3>2. x > XEnd /\ y > 0 /\ x + y < Msb
      BY <1>2, <3>1
    <3>. QED BY <3>1, <3>2 DEF EndAt, XEnd
  <2>. QED BY <1>2, <1>3, <1>4, <1>5, <2>1 DEF Ground, EndAt
<1>7. b \in Build
  BY WalkAssumption
<1>. QED BY <1>1, <1>2, <1>6, <1>7 DEF Build, EndAt

\* Two regions are one, or the one ends before the other.
LEMMA RegionsApart ==
  ASSUME NEW g, Ground(g), NEW i \in DOMAIN g, NEW j \in DOMAIN g
  PROVE  i = j \/ EndAt(g, i) < g[j][1] \/ EndAt(g, j) < g[i][1]
<1>1. i < j \/ j < i \/ i = j
  BY DEF Ground
<1>. QED BY <1>1 DEF Ground

\* A block is its address and its size.
LEMMA BlockIs ==
  /\ \A a, n : Block(a, n).address = a /\ Block(a, n).size = n
  /\ \A a, n \in Nat : Block(a, n) \in ListBlock
  /\ \A x \in ListBlock : x.address \in Nat /\ x.size \in Nat /\ End(x) \in Nat /\ x = Block(x.address, x.size)
  /\ \A x : End(x) = x.address + x.size
BY DEF Block, ListBlock, End

-----------------------------------------------------------------------------
\* Blocks that fill the regions.

\* Blocks a and c take the place of x.
LEMMA SplitLaid ==
  ASSUME NEW g, Ground(g), NEW R, Laid(R, g), NEW x \in R, NEW k \in Nat \ {0}, k < x.size
  PROVE  Laid((R \ {x}) \cup {Block(x.address, k), Block(x.address + k, x.size - k)}, g)
<1>1. PICK a : a = Block(x.address, k)
  OBVIOUS
<1>2. PICK c : c = Block(x.address + k, x.size - k)
  OBVIOUS
<1>3. PICK T : T = (R \ {x}) \cup {a, c}
  OBVIOUS
<1>4. x \in ListBlock /\ Inside(x, g) /\ Follower(x, R, g) /\ x.address \in Nat /\ x.size \in Nat
  BY BlockIs DEF Laid
<1>5. /\ a \in ListBlock /\ c \in ListBlock /\ a.address = x.address /\ a.size = k
      /\ c.address = x.address + k /\ c.size = x.size - k
      /\ End(a) = c.address /\ End(c) = End(x) /\ End(x) = x.address + x.size
      /\ c.size > 0 /\ a.address < c.address /\ c.address < End(x)
  <2>1. x.address + k \in Nat /\ x.size - k \in Nat
    BY <1>4
  <2>2. /\ a \in ListBlock /\ c \in ListBlock /\ a.address = x.address /\ a.size = k
        /\ c.address = x.address + k /\ c.size = x.size - k
    BY <1>1, <1>2, <1>4, <2>1, BlockIs
  <2>. QED BY <1>4, <2>2 DEF End
<1>6. PICK r \in DOMAIN g : g[r][1] <= x.address /\ End(x) <= EndAt(g, r)
  BY <1>4 DEF Inside
<1>7. g[r][1] \in Nat /\ EndAt(g, r) \in Nat
  BY DEF Ground
<1>8. Inside(a, g) /\ Inside(c, g)
  BY <1>4, <1>5, <1>6, <1>7 DEF Inside
<1>9. ASSUME NEW y \in R, Follower(y, R, g) PROVE Follower(y, T, g)
  <2>1. ASSUME NEW z \in R, z.address = End(y) PROVE \E w \in T : w.address = End(y)
    <3>1. CASE z = x
      BY <1>3, <1>5, <2>1, <3>1
    <3>2. CASE z # x
      BY <1>3, <2>1, <3>2
    <3>. QED BY <3>1, <3>2
  <2>. QED BY <1>9, <2>1 DEF Follower
<1>10. Follower(a, T, g)
  BY <1>3, <1>5 DEF Follower
<1>11. Follower(c, T, g)
  BY <1>4, <1>5, <1>9 DEF Follower
<1>12. \A y \in R : y \in ListBlock /\ y.size > 0 /\ Inside(y, g) /\ Follower(y, R, g)
  BY DEF Laid
<1>13. ASSUME NEW y \in T PROVE y \in ListBlock /\ y.size > 0 /\ Inside(y, g) /\ Follower(y, T, g)
  <2>1. CASE y = a
    BY <1>5, <1>8, <1>10, <2>1
  <2>2. CASE y = c
    BY <1>5, <1>8, <1>11, <2>2
  <2>3. CASE y \in R
    BY <1>9, <1>12, <2>3
  <2>. QED BY <1>3, <2>1, <2>2, <2>3
<1>14. \E y \in T : y.address = g[1][1]
  <2>1. PICK z \in R : z.address = g[1][1]
    BY DEF Laid
  <2>2. CASE z = x
    BY <1>3, <1>5, <2>1, <2>2
  <2>3. CASE z # x
    BY <1>3, <2>1, <2>3
  <2>. QED BY <2>2, <2>3
<1>15. ASSUME NEW y \in R, y # x
       PROVE  /\ End(y) <= a.address \/ End(c) <= y.address
              /\ y.address \in Nat /\ End(y) \in Nat
  <2>1. End(y) <= x.address \/ End(x) <= y.address
    BY <1>15 DEF Laid
  <2>. QED BY <1>5, <1>12, <2>1, BlockIs
<1>16. ASSUME NEW y \in R, y # x
       PROVE  /\ End(y) <= a.address \/ End(a) <= y.address
              /\ End(y) <= c.address \/ End(c) <= y.address
  <2>1. PICK e \in Nat, d \in Nat : e = End(y) /\ d = y.address
    BY <1>15, <1>16
  <2>2. PICK m \in Nat, q \in Nat, t \in Nat : m = a.address /\ q = c.address /\ t = End(c)
    BY <1>4, <1>5
  <2>3. (e <= m \/ t <= d) /\ m < q /\ q < t /\ End(a) = q
    BY <1>5, <1>15, <1>16, <2>1, <2>2
  <2>4. (e <= m \/ q <= d) /\ (e <= q \/ t <= d)
    BY <2>3
  <2>. QED BY <2>1, <2>2, <2>3, <2>4
<1>17. ASSUME NEW y \in T, NEW z \in T PROVE y = z \/ End(y) <= z.address \/ End(z) <= y.address
  <2>1. CASE y \in R \ {x} /\ z \in R \ {x}
    BY <2>1 DEF Laid
  <2>2. CASE y \in R \ {x} /\ z \in {a, c}
    BY <1>16, <2>2
  <2>3. CASE y \in {a, c} /\ z \in R \ {x}
    BY <1>16, <2>3
  <2>4. CASE y \in {a, c} /\ z \in {a, c}
    <3>1. c.address <= c.address /\ End(a) <= c.address
      BY <1>4, <1>5
    <3>. QED BY <2>4, <3>1
  <2>. QED BY <1>3, <2>1, <2>2, <2>3, <2>4
<1>18. Laid(T, g)
  BY <1>13, <1>14, <1>17 DEF Laid
<1>. QED BY <1>1, <1>2, <1>3, <1>18

\* Blocks that touch are of one region: one block takes their place.
LEMMA MergeLaid ==
  ASSUME NEW g, Ground(g), NEW R, Laid(R, g), NEW x \in R, NEW y \in R, End(x) = y.address
  PROVE  Laid((R \ {x, y}) \cup {Block(x.address, x.size + y.size)}, g)
<1>1. PICK a : a = Block(x.address, x.size + y.size)
  OBVIOUS
<1>2. PICK T : T = (R \ {x, y}) \cup {a}
  OBVIOUS
<1>3. /\ x \in ListBlock /\ Inside(x, g) /\ x.address \in Nat /\ x.size \in Nat /\ x.size > 0
      /\ y \in ListBlock /\ Inside(y, g) /\ Follower(y, R, g) /\ y.address \in Nat /\ y.size \in Nat /\ y.size > 0
  BY BlockIs DEF Laid
<1>4. /\ a \in ListBlock /\ a.address = x.address /\ a.size = x.size + y.size /\ a.size > 0
      /\ End(a) = End(y) /\ End(y) = y.address + y.size /\ End(x) = x.address + x.size
      /\ x.address < y.address /\ y.address < End(y)
  <2>1. x.size + y.size \in Nat
    BY <1>3
  <2>2. a \in ListBlock /\ a.address = x.address /\ a.size = x.size + y.size
    BY <1>1, <1>3, <2>1, BlockIs
  <2>. QED BY <1>3, <2>2 DEF End
<1>5. Inside(a, g)
  <2>1. PICK r \in DOMAIN g : g[r][1] <= x.address /\ End(x) <= EndAt(g, r)
    BY <1>3 DEF Inside
  <2>2. PICK q \in DOMAIN g : g[q][1] <= y.address /\ End(y) <= EndAt(g, q)
    BY <1>3 DEF Inside
  <2>3. /\ g[r][1] \in Nat /\ EndAt(g, r) \in Nat /\ g[q][1] \in Nat /\ EndAt(g, q) \in Nat
        /\ r = q \/ EndAt(g, r) < g[q][1] \/ EndAt(g, q) < g[r][1]
    BY RegionsApart DEF Ground
  <2>4. r = q
    BY <1>3, <1>4, <2>1, <2>2, <2>3
  <2>. QED BY <1>3, <1>4, <2>1, <2>2, <2>4 DEF Inside
<1>6. \A z \in R : /\ z \in ListBlock /\ z.size > 0 /\ Inside(z, g) /\ Follower(z, R, g)
                   /\ z.address \in Nat /\ z.size \in Nat /\ End(z) \in Nat
                   /\ End(z) = z.address + z.size
  BY BlockIs DEF Laid
<1>7. \A z \in R : z # x => End(z) <= x.address \/ End(x) <= z.address
  BY DEF Laid
<1>8. ASSUME NEW z \in R, z # x, Follower(z, R, g) PROVE Follower(z, T, g)
  <2>1. ASSUME NEW w \in R, w.address = End(z) PROVE \E v \in T : v.address = End(z)
    <3>1. CASE w = x
      BY <1>2, <1>4, <2>1, <3>1
    <3>2. CASE w = y
      <4>1. End(z) = End(x)
        BY <2>1, <3>2
      <4>2. x = z \/ End(x) <= z.address \/ End(z) <= x.address
        BY DEF Laid
      <4>. QED BY <1>3, <1>4, <1>6, <1>8, <4>1, <4>2
    <3>3. CASE w # x /\ w # y
      BY <1>2, <2>1, <3>3
    <3>. QED BY <3>1, <3>2, <3>3
  <2>. QED BY <1>8, <2>1 DEF Follower
<1>9. y # x
  BY <1>4, <1>3
<1>10. Follower(a, T, g)
  <2>1. Follower(y, T, g)
    BY <1>3, <1>8, <1>9
  <2>. QED BY <1>4, <2>1 DEF Follower
<1>11. \A z \in T : z \in ListBlock /\ z.size > 0 /\ Inside(z, g) /\ Follower(z, T, g)
  BY <1>2, <1>4, <1>5, <1>6, <1>8, <1>10
<1>12. \E z \in T : z.address = g[1][1]
  <2>1. PICK z \in R : z.address = g[1][1]
    BY DEF Laid
  <2>2. CASE z = x
    BY <1>2, <1>4, <2>1, <2>2
  <2>3. CASE z = y
    <3>1. PICK r \in DOMAIN g : g[r][1] <= x.address /\ End(x) <= EndAt(g, r)
      BY <1>3 DEF Inside
    <3>2. /\ r = 1 \/ EndAt(g, 1) < g[r][1] \/ EndAt(g, r) < g[1][1]
          /\ g[r][1] \in Nat /\ EndAt(g, r) \in Nat /\ g[1][1] \in Nat /\ EndAt(g, 1) \in Nat /\ g[1][1] < EndAt(g, 1)
      <4>1. 1 \in DOMAIN g
        BY DEF Ground
      <4>. QED BY <4>1, RegionsApart DEF Ground
    <3>3. y.address = g[1][1] /\ End(x) = y.address
      BY <2>1, <2>3
    <3>7. PICK v \in Nat, q \in Nat, w \in Nat, e \in Nat :
             v = x.address /\ q = g[1][1] /\ w = g[r][1] /\ e = EndAt(g, 1)
      BY <1>3, <3>2
    <3>8. v < q
      BY <1>4, <3>3, <3>7
    <3>9. w <= v /\ q < e
      BY <3>1, <3>2, <3>7
    <3>4. ~(r = 1)
      BY <3>7, <3>8, <3>9
    <3>5. ~(EndAt(g, 1) < g[r][1])
      BY <3>7, <3>8, <3>9
    <3>6. ~(EndAt(g, r) < g[1][1])
      BY <1>3, <3>1, <3>2, <3>3
    <3>. QED BY <3>2, <3>4, <3>5, <3>6
  <2>4. CASE z # x /\ z # y
    BY <1>2, <2>1, <2>4
  <2>. QED BY <2>2, <2>3, <2>4
<1>13. ASSUME NEW z \in R, z # x, z # y PROVE End(z) <= a.address \/ End(a) <= z.address
  <2>1. End(z) <= x.address \/ End(x) <= z.address
    BY <1>7, <1>13
  <2>2. End(z) <= y.address \/ End(y) <= z.address
    BY <1>13 DEF Laid
  <2>. QED BY <1>3, <1>4, <1>6, <2>1, <2>2
<1>14. ASSUME NEW v \in T, NEW z \in T PROVE v = z \/ End(v) <= z.address \/ End(z) <= v.address
  <2>1. CASE v = a /\ z = a
    BY <2>1
  <2>2. CASE v = a /\ z # a
    BY <1>2, <1>13, <2>2
  <2>3. CASE v # a /\ z = a
    BY <1>2, <1>13, <2>3
  <2>4. CASE v # a /\ z # a
    BY <1>2, <2>4 DEF Laid
  <2>. QED BY <2>1, <2>2, <2>3, <2>4
<1>15. Laid(T, g)
  BY <1>11, <1>12, <1>14 DEF Laid
<1>. QED BY <1>1, <1>2, <1>15
-----------------------------------------------------------------------------
\* The free list among the blocks.

\* The members of a sequence.
LEMMA InSeq ==
  ASSUME NEW X, NEW s \in Seq(X)
  PROVE  /\ Len(s) \in Nat /\ \A i \in 1..Len(s) : s[i] \in X /\ s[i] \in ToSet(s)
         /\ \A x \in ToSet(s) : \E i \in 1..Len(s) : s[i] = x
BY DEF ToSet

\* A block never spans the end of a region, nor starts there.
LEMMA EndsApart ==
  ASSUME NEW g, Ground(g), NEW x \in ListBlock, x.size > 0, Inside(x, g), NEW k \in DOMAIN g
  PROVE  x.address # EndAt(g, k) /\ (EndAt(g, k) < x.address \/ End(x) <= EndAt(g, k))
<1>1. PICK r \in DOMAIN g : g[r][1] <= x.address /\ End(x) <= EndAt(g, r)
  BY DEF Inside
<1>2. PICK a \in Nat, n \in Nat : a = x.address /\ n = x.size /\ n > 0 /\ End(x) = a + n
  BY BlockIs
<1>3. PICK e \in Nat, f \in Nat, v \in Nat, w \in Nat :
        e = EndAt(g, k) /\ f = EndAt(g, r) /\ v = g[r][1] /\ w = g[k][1] /\ w < e /\ v < f
  BY DEF Ground
<1>4. v <= a /\ a + n <= f
  BY <1>1, <1>2, <1>3
<1>5. r = k \/ e < v \/ f < w
  BY <1>3, RegionsApart
<1>6. r = k => e = f
  BY <1>3
<1>7. a # e /\ (e < a \/ a + n <= e)
  BY <1>2, <1>3, <1>4, <1>5, <1>6
<1>. QED BY <1>2, <1>3, <1>7

\* What is known of each block of a heap.
LEMMA SoundBlocks ==
  ASSUME NEW b \in Builds, NEW s, NEW O, Sound(s, O, b)
  PROVE  /\ s \in Seq(ListBlock) /\ Len(s) \in Nat
         /\ \A x \in ToSet(s) \cup O :
              /\ x \in ListBlock /\ x.address \in Nat /\ x.size \in Nat /\ End(x) = x.address + x.size
              /\ OnCell(b, x.address)
         /\ \A x \in O : x.size > 0
         /\ \A x \in Real(s) \cup O : x \in ToSet(s) \cup O /\ x.size > 0 /\ Inside(x, Regions[b])
         /\ \A x \in ToSet(s) : x \in Real(s) \/ (x.size = 0 /\ b.kind = 5 /\ \E k \in DOMAIN Regions[b] : x.address = EndAt(Regions[b], k))
         /\ \A x, y \in ToSet(s) \cup O : x.address = y.address => x = y
<1>1. s \in Seq(ListBlock) /\ Len(s) \in Nat /\ Laid(Real(s) \cup O, Regions[b]) /\ Ground(Regions[b]) /\ Ordered(s, b)
  BY GroundIs DEF Sound, Ordered
<1>2. \A x \in ToSet(s) : x \in ListBlock /\ \E i \in 1..Len(s) : s[i] = x
  BY <1>1, InSeq
<1>3. \A x \in Real(s) \cup O : x \in ListBlock /\ x.size > 0 /\ Inside(x, Regions[b])
  BY <1>1 DEF Laid
<1>4. Real(s) \subseteq ToSet(s)
  BY DEF Real
<1>5. ASSUME NEW x \in ToSet(s), x \notin Real(s)
      PROVE  x.size = 0 /\ b.kind = 5 /\ \E k \in DOMAIN Regions[b] : x.address = EndAt(Regions[b], k)
  <2>0. x.size \in Nat /\ ~(x.size > 0)
    BY <1>2, <1>5 DEF Real, ListBlock
  <2>1. x.size = 0
    BY <2>0
  <2>2. PICK i \in 1..Len(s) : s[i] = x
    BY <1>2
  <2>3. b.kind = 5 /\ \E k \in 1..(Len(Regions[b]) - 1) : x.address = EndAt(Regions[b], k)
    BY <1>1, <2>1, <2>2 DEF Ordered
  <2>. QED BY <1>1, <2>1, <2>3 DEF Ground
<1>6. ASSUME NEW x \in Real(s) \cup O, NEW y \in Real(s) \cup O, x.address = y.address PROVE x = y
  <2>1. x = y \/ End(x) <= y.address \/ End(y) <= x.address
    BY <1>1 DEF Laid
  <2>2. /\ x.address \in Nat /\ x.size \in Nat /\ x.size > 0 /\ End(x) = x.address + x.size
        /\ y.address \in Nat /\ y.size \in Nat /\ y.size > 0 /\ End(y) = y.address + y.size
    BY <1>3, BlockIs
  <2>. QED BY <1>6, <2>1, <2>2
<1>7. ASSUME NEW x \in ToSet(s) \cup O, NEW y \in ToSet(s) \cup O, x.address = y.address PROVE x = y
  <2>1. CASE x \in ToSet(s) /\ y \in ToSet(s)
    <3>1. PICK i \in 1..Len(s), j \in 1..Len(s) : s[i] = x /\ s[j] = y
      BY <1>2, <2>1
    <3>. QED BY <1>1, <1>7, <3>1 DEF Ordered
  <2>2. CASE x \in O /\ y \in ToSet(s) \ Real(s)
    BY <1>1, <1>3, <1>5, <1>7, <2>2, EndsApart
  <2>3. CASE y \in O /\ x \in ToSet(s) \ Real(s)
    BY <1>1, <1>3, <1>5, <1>7, <2>3, EndsApart
  <2>4. CASE x \in Real(s) \cup O /\ y \in Real(s) \cup O
    BY <1>6, <1>7, <2>4
  <2>. QED BY <2>1, <2>2, <2>3, <2>4
<1>8. \A x \in ToSet(s) \cup O : x \in ListBlock /\ OnCell(b, x.address)
  BY <1>2, <1>3 DEF Sound
<1>9. \A x \in ToSet(s) \cup O : x.address \in Nat /\ x.size \in Nat /\ End(x) = x.address + x.size
  BY <1>8, BlockIs
<1>. QED BY <1>1, <1>3, <1>4, <1>5, <1>7, <1>8, <1>9

\* A block that was apart is put on the list, at its place.
LEMMA InsertSound ==
  ASSUME NEW b \in Builds, NEW s, NEW O, NEW x, x \notin O, Sound(s, O \cup {x}, b), NEW p \in 1..(Len(s) + 1),
         b.kind # 2 => /\ \A i \in 1..Len(s) : i < p => s[i].address < x.address
                       /\ \A i \in 1..Len(s) : i >= p => x.address < s[i].address
  PROVE  Sound(InsertAt(s, p, x), O, b)
<1>1. /\ s \in Seq(ListBlock) /\ Len(s) \in Nat /\ x \in ListBlock /\ x.size > 0
      /\ \A y \in ToSet(s) : y.address # x.address
  <2>1. \A y \in ToSet(s) : y # x
    BY DEF Sound
  <2>. QED BY <2>1, SoundBlocks
<1>2. PICK n \in Nat : n = Len(s)
  BY <1>1
<1>3. PICK r : r = InsertAt(s, p, x)
  OBVIOUS
<1>4. r \in Seq(ListBlock)
  BY <1>1, <1>3, InsertAtIs
<1>5. Len(r) = n + 1 /\ \A j \in 1..(n + 1) : r[j] = IF j < p THEN s[j] ELSE IF j = p THEN x ELSE s[j - 1]
  BY <1>1, <1>2, <1>3, InsertAtIs
<1>6. p \in 1..(n + 1)
  BY <1>2
<1>7. ASSUME NEW j \in 1..(n + 1), j # p PROVE \E i \in 1..n : r[j] = s[i] /\ (j < p => i = j /\ i < p) /\ (j > p => i = j - 1 /\ i >= p)
  <2>1. CASE j < p
    <3>1. j \in 1..n
      BY <1>6, <2>1
    <3>. QED BY <1>5, <1>6, <2>1, <3>1
  <2>2. CASE j > p
    <3>1. j - 1 \in 1..n /\ j - 1 >= p /\ ~(j < p)
      BY <1>6, <2>2
    <3>2. r[j] = s[j - 1]
      BY <1>5, <1>7, <3>1
    <3>. QED BY <1>6, <2>2, <3>1, <3>2
  <2>. QED BY <1>6, <1>7, <2>1, <2>2
<1>8. r[p] = x
  BY <1>5, <1>6
<1>9. ToSet(r) = ToSet(s) \cup {x}
  <2>1. ASSUME NEW y \in ToSet(r) PROVE y \in ToSet(s) \cup {x}
    <3>1. PICK j \in 1..(n + 1) : r[j] = y
      BY <1>4, <1>5, InSeq
    <3>. QED BY <1>1, <1>2, <1>7, <1>8, <3>1, InSeq
  <2>2. x \in ToSet(r)
    BY <1>4, <1>5, <1>6, <1>8, InSeq
  <2>3. ASSUME NEW y \in ToSet(s) PROVE y \in ToSet(r)
    <3>1. PICK i \in 1..n : s[i] = y
      BY <1>1, <1>2, InSeq
    <3>2. CASE i < p
      <4>1. i \in 1..(n + 1) /\ r[i] = s[i]
        BY <1>5, <3>2
      <4>. QED BY <1>4, <1>5, <3>1, <4>1, InSeq
    <3>3. CASE i >= p
      <4>1. i + 1 \in 1..(n + 1) /\ ~(i + 1 < p) /\ i + 1 # p /\ (i + 1) - 1 = i
        BY <1>6, <3>3
      <4>2. r[i + 1] = s[i]
        BY <1>5, <4>1
      <4>. QED BY <1>4, <1>5, <3>1, <4>1, <4>2, InSeq
    <3>. QED BY <1>6, <3>2, <3>3
  <2>. QED BY <2>1, <2>2, <2>3
<1>10. Real(r) \cup O = Real(s) \cup (O \cup {x})
  BY <1>1, <1>9 DEF Real
<1>11. ToSet(r) \cup O = ToSet(s) \cup (O \cup {x}) /\ ToSet(r) \cap O = {}
  BY <1>9 DEF Sound
<1>12. Ordered(s, b)
  BY DEF Sound
<1>13. \A i \in 1..n : s[i].address # x.address /\ s[i].address \in Nat
  BY <1>1, <1>2, InSeq, SizesAre
<1>14. ASSUME NEW i \in 1..(n + 1), NEW j \in 1..(n + 1), r[i].address = r[j].address PROVE i = j
  <2>1. CASE i = p \/ j = p
    <3>1. ASSUME i # p PROVE FALSE
      <4>1. PICK k \in 1..n : r[i] = s[k]
        BY <1>7, <3>1
      <4>. QED BY <1>8, <1>13, <1>14, <2>1, <3>1, <4>1
    <3>2. ASSUME j # p PROVE FALSE
      <4>1. PICK k \in 1..n : r[j] = s[k]
        BY <1>7, <3>2
      <4>. QED BY <1>8, <1>13, <1>14, <2>1, <3>2, <4>1
    <3>. QED BY <3>1, <3>2
  <2>2. CASE i # p /\ j # p
    <3>1. PICK k \in 1..n : r[i] = s[k] /\ (i < p => k = i /\ k < p) /\ (i > p => k = i - 1 /\ k >= p)
      BY <1>7, <2>2
    <3>2. PICK m \in 1..n : r[j] = s[m] /\ (j < p => m = j /\ m < p) /\ (j > p => m = j - 1 /\ m >= p)
      BY <1>7, <2>2
    <3>3. k = m
      BY <1>2, <1>12, <1>14, <3>1, <3>2 DEF Ordered
    <3>. QED BY <1>6, <2>2, <3>1, <3>2, <3>3
  <2>. QED BY <2>1, <2>2
<1>15. ASSUME b.kind # 2, NEW i \in 1..(n + 1), NEW j \in 1..(n + 1), i < j PROVE r[i].address < r[j].address
  <2>0. (\A k \in 1..n : k < p => s[k].address < x.address) /\ (\A k \in 1..n : k >= p => x.address < s[k].address)
    BY <1>2, <1>15
  <2>1. CASE i = p
    <3>1. PICK m \in 1..n : r[j] = s[m] /\ m >= p
      BY <1>6, <1>7, <1>15, <2>1
    <3>. QED BY <1>8, <2>0, <2>1, <3>1
  <2>2. CASE j = p
    <3>1. PICK m \in 1..n : r[i] = s[m] /\ m < p
      BY <1>6, <1>7, <1>15, <2>2
    <3>. QED BY <1>8, <2>0, <2>2, <3>1
  <2>3. CASE i # p /\ j # p
    <3>1. PICK k \in 1..n : r[i] = s[k] /\ (i < p => k = i /\ k < p) /\ (i > p => k = i - 1 /\ k >= p)
      BY <1>7, <2>3
    <3>2. PICK m \in 1..n : r[j] = s[m] /\ (j < p => m = j /\ m < p) /\ (j > p => m = j - 1 /\ m >= p)
      BY <1>7, <2>3
    <3>3. k < m
      BY <1>6, <1>15, <2>3, <3>1, <3>2
    <3>. QED BY <1>2, <1>12, <1>15, <3>1, <3>2, <3>3 DEF Ordered
  <2>. QED BY <2>1, <2>2, <2>3
<1>16. ASSUME NEW i \in 1..(n + 1), r[i].size = 0
       PROVE  b.kind = 5 /\ \E k \in 1..(Len(Regions[b]) - 1) : r[i].address = EndAt(Regions[b], k)
  <2>1. i # p
    BY <1>1, <1>8, <1>16
  <2>2. PICK k \in 1..n : r[i] = s[k]
    BY <1>7, <2>1
  <2>. QED BY <1>2, <1>12, <1>16, <2>2 DEF Ordered
<1>17. Ordered(r, b)
  BY <1>4, <1>5, <1>14, <1>15, <1>16 DEF Ordered
<1>18. Sound(r, O, b)
  BY <1>10, <1>11, <1>17 DEF Sound
<1>. QED BY <1>3, <1>18

\* A block is taken off the list.
LEMMA RemoveSound ==
  ASSUME NEW b \in Builds, NEW s, NEW O, Sound(s, O, b), NEW i \in 1..Len(s), s[i].size > 0
  PROVE  Sound(RemoveAt(s, i), O \cup {s[i]}, b)
<1>1. s \in Seq(ListBlock) /\ Ordered(s, b)
  BY DEF Sound, Ordered
<1>2. PICK n \in Nat : n = Len(s)
  BY <1>1
<1>3. PICK r : r = RemoveAt(s, i)
  OBVIOUS
<1>4. r \in Seq(ListBlock)
  BY <1>1, <1>3, RemoveAtIs
<1>5. Len(r) = n - 1 /\ \A j \in 1..(n - 1) : r[j] = IF j < i THEN s[j] ELSE s[j + 1]
  BY <1>1, <1>2, <1>3, RemoveAtIs
<1>6. i \in 1..n
  BY <1>2
<1>7. ASSUME NEW j \in 1..(n - 1) PROVE \E k \in 1..n : r[j] = s[k] /\ k # i /\ (j < i => k = j) /\ (j >= i => k = j + 1)
  <2>1. CASE j < i
    <3>1. j \in 1..n
      BY <1>6
    <3>. QED BY <1>5, <1>6, <2>1, <3>1
  <2>2. CASE j >= i
    <3>1. j + 1 \in 1..n /\ ~(j < i)
      BY <1>6, <2>2
    <3>2. r[j] = s[j + 1]
      BY <1>5, <3>1
    <3>. QED BY <1>6, <2>2, <3>1, <3>2
  <2>. QED BY <1>6, <2>1, <2>2
<1>8. \A k \in 1..n, j \in 1..n : s[k].address = s[j].address => k = j
  BY <1>1, <1>2 DEF Ordered
<1>9. ToSet(r) = ToSet(s) \ {s[i]}
  <2>1. ASSUME NEW y \in ToSet(r) PROVE y \in ToSet(s) \ {s[i]}
    <3>1. PICK j \in 1..(n - 1) : r[j] = y
      BY <1>4, <1>5, InSeq
    <3>2. PICK k \in 1..n : y = s[k] /\ k # i
      BY <1>7, <3>1
    <3>3. s[k] # s[i]
      BY <1>6, <1>8, <3>2
    <3>. QED BY <1>1, <1>2, <3>2, <3>3, InSeq
  <2>2. ASSUME NEW y \in ToSet(s), y # s[i] PROVE y \in ToSet(r)
    <3>1. PICK k \in 1..n : s[k] = y
      BY <1>1, <1>2, InSeq
    <3>2. CASE k < i
      <4>1. k \in 1..(n - 1) /\ r[k] = s[k]
        BY <1>5, <1>6, <3>2
      <4>. QED BY <1>4, <1>5, <3>1, <4>1, InSeq
    <3>3. CASE k > i
      <4>1. k - 1 \in 1..(n - 1) /\ ~(k - 1 < i) /\ (k - 1) + 1 = k
        BY <1>6, <3>3
      <4>2. r[k - 1] = s[k]
        BY <1>5, <4>1
      <4>. QED BY <1>4, <1>5, <3>1, <4>1, <4>2, InSeq
    <3>4. k # i
      BY <2>2, <3>1
    <3>. QED BY <1>6, <3>2, <3>3, <3>4
  <2>. QED BY <2>1, <2>2
<1>10. s[i] \in ToSet(s)
  BY <1>1, InSeq
<1>11. Real(r) \cup (O \cup {s[i]}) = Real(s) \cup O
  BY <1>9, <1>10 DEF Real
<1>12. ToSet(r) \cup (O \cup {s[i]}) = ToSet(s) \cup O /\ ToSet(r) \cap (O \cup {s[i]}) = {}
  BY <1>9, <1>10 DEF Sound
<1>13. ASSUME NEW j \in 1..(n - 1), NEW k \in 1..(n - 1), r[j].address = r[k].address PROVE j = k
  <2>1. PICK v \in 1..n : r[j] = s[v] /\ v # i /\ (j < i => v = j) /\ (j >= i => v = j + 1)
    BY <1>7
  <2>2. PICK w \in 1..n : r[k] = s[w] /\ w # i /\ (k < i => w = k) /\ (k >= i => w = k + 1)
    BY <1>7
  <2>3. v = w
    BY <1>8, <1>13, <2>1, <2>2
  <2>. QED BY <1>6, <2>1, <2>2, <2>3
<1>14. ASSUME b.kind # 2, NEW j \in 1..(n - 1), NEW k \in 1..(n - 1), j < k PROVE r[j].address < r[k].address
  <2>1. PICK v \in 1..n : r[j] = s[v] /\ v # i /\ (j < i => v = j) /\ (j >= i => v = j + 1)
    BY <1>7
  <2>2. PICK w \in 1..n : r[k] = s[w] /\ w # i /\ (k < i => w = k) /\ (k >= i => w = k + 1)
    BY <1>7
  <2>3. v < w
    BY <1>6, <1>14, <2>1, <2>2
  <2>. QED BY <1>1, <1>2, <1>14, <2>1, <2>2, <2>3 DEF Ordered
<1>15. ASSUME NEW j \in 1..(n - 1), r[j].size = 0
       PROVE  b.kind = 5 /\ \E k \in 1..(Len(Regions[b]) - 1) : r[j].address = EndAt(Regions[b], k)
  <2>1. PICK v \in 1..n : r[j] = s[v]
    BY <1>7
  <2>. QED BY <1>1, <1>2, <1>15, <2>1 DEF Ordered
<1>16. Ordered(r, b)
  BY <1>4, <1>5, <1>13, <1>14, <1>15 DEF Ordered
<1>17. Sound(r, O \cup {s[i]}, b)
  BY <1>11, <1>12, <1>16 DEF Sound
<1>. QED BY <1>3, <1>17
-----------------------------------------------------------------------------
\* Merging.

\* What merging at i does, where there is something to merge or not.
LEMMA MergedAtIs ==
  ASSUME NEW s \in Seq(ListBlock), NEW i \in Int
  PROVE  /\ ~Touch(s, i) => MergedAt(s, i) = s
         /\ Touch(s, i) =>
              /\ i \in 1..(Len(s) - 1) /\ End(s[i]) = s[i + 1].address
              /\ MergedAt(s, i) \in Seq(ListBlock) /\ Len(MergedAt(s, i)) = Len(s) - 1
              /\ \A j \in 1..(Len(s) - 1) :
                   MergedAt(s, i)[j] = IF j < i THEN s[j]
                                       ELSE IF j = i THEN Block(s[i].address, s[i].size + s[i + 1].size)
                                       ELSE s[j + 1]
<1>1. ~Touch(s, i) => MergedAt(s, i) = s
  BY DEF Touch, MergedAt
<1>2. ASSUME Touch(s, i)
      PROVE  /\ i \in 1..(Len(s) - 1) /\ End(s[i]) = s[i + 1].address
             /\ MergedAt(s, i) \in Seq(ListBlock) /\ Len(MergedAt(s, i)) = Len(s) - 1
             /\ \A j \in 1..(Len(s) - 1) :
                  MergedAt(s, i)[j] = IF j < i THEN s[j]
                                      ELSE IF j = i THEN Block(s[i].address, s[i].size + s[i + 1].size)
                                      ELSE s[j + 1]
  <2>1. i \in 1..(Len(s) - 1) /\ End(s[i]) = s[i + 1].address
    BY <1>2 DEF Touch
  <2>2. PICK n \in Nat : n = Len(s)
    OBVIOUS
  <2>3. i \in 1..n /\ i + 1 \in 1..n /\ i \in 1..(n - 1)
    BY <2>1, <2>2
  <2>4. PICK a : a = Block(s[i].address, s[i].size + s[i + 1].size)
    OBVIOUS
  <2>5. a \in ListBlock
    <3>1. s[i].address \in Nat /\ s[i].size \in Nat /\ s[i + 1].size \in Nat
      BY <2>2, <2>3, SizesAre
    <3>2. s[i].size + s[i + 1].size \in Nat
      BY <3>1
    <3>. QED BY <2>4, <3>1, <3>2, BlockIs
  <2>6. PICK t : t = [s EXCEPT ![i] = a]
    OBVIOUS
  <2>7. t \in Seq(ListBlock) /\ Len(t) = n /\ \A j \in 1..n : t[j] = IF j = i THEN a ELSE s[j]
    BY <2>2, <2>3, <2>5, <2>6, ExceptSeq
  <2>8. PICK r : r = RemoveAt(t, i + 1)
    OBVIOUS
  <2>9. i + 1 \in 1..Len(t)
    BY <2>3, <2>7
  <2>10. r \in Seq(ListBlock)
    BY <2>7, <2>8, <2>9, RemoveAtIs
  <2>11. Len(r) = n - 1 /\ \A j \in 1..(n - 1) : r[j] = IF j < i + 1 THEN t[j] ELSE t[j + 1]
    BY <2>7, <2>8, <2>9, RemoveAtIs
  <2>12. ASSUME NEW j \in 1..(n - 1) PROVE r[j] = IF j < i THEN s[j] ELSE IF j = i THEN a ELSE s[j + 1]
    <3>0. j \in 1..n /\ j + 1 \in 1..n
      OBVIOUS
    <3>1. CASE j < i
      <4>1. j < i + 1 /\ j # i
        BY <2>3, <3>1
      <4>. QED BY <2>7, <2>11, <3>0, <3>1, <4>1
    <3>2. CASE j = i
      <4>1. j < i + 1 /\ ~(j < i)
        BY <2>3, <3>2
      <4>. QED BY <2>7, <2>11, <3>0, <3>2, <4>1
    <3>3. CASE j > i
      <4>1. ~(j < i + 1) /\ ~(j < i) /\ j # i /\ j + 1 # i
        BY <2>3, <3>3
      <4>. QED BY <2>7, <2>11, <3>0, <4>1
    <3>. QED BY <2>3, <3>1, <3>2, <3>3
  <2>13. MergedAt(s, i) = r
    BY <2>1, <2>4, <2>6, <2>8 DEF MergedAt
  <2>. QED BY <2>1, <2>2, <2>4, <2>10, <2>11, <2>12, <2>13
<1>. QED BY <1>1, <1>2, Zenon

\* Merging loses no byte.
LEMMA MergedSum ==
  ASSUME NEW s \in Seq(ListBlock), NEW i \in Int, NEW t \in Int, SumIs(s, t)
  PROVE  SumIs(MergedAt(s, i), t)
<1>1. CASE ~Touch(s, i)
  BY <1>1, MergedAtIs
<1>2. CASE Touch(s, i)
  <2>1. i \in 1..(Len(s) - 1) /\ End(s[i]) = s[i + 1].address
    BY <1>2 DEF Touch
  <2>2. i \in 1..Len(s) /\ i + 1 \in 1..Len(s) /\ i + 1 # i
    BY <2>1
  <2>3. PICK x \in Nat, y \in Nat : x = s[i].size /\ y = s[i + 1].size
    BY <2>2, SizesAre
  <2>4. PICK a : a = Block(s[i].address, s[i].size + s[i + 1].size)
    OBVIOUS
  <2>5. a \in ListBlock /\ a.size = x + y
    <3>1. s[i].address \in Nat /\ x + y \in Nat
      BY <2>2, <2>3, SizesAre
    <3>. QED BY <2>3, <2>4, <3>1, BlockIs
  <2>6. PICK r : r = [s EXCEPT ![i] = a]
    OBVIOUS
  <2>7. r \in Seq(ListBlock) /\ Len(r) = Len(s) /\ r[i + 1] = s[i + 1]
    BY <2>2, <2>5, <2>6, ExceptSeq
  <2>8. SumIs(r, t - s[i].size + a.size)
    BY <2>2, <2>5, <2>6, SumReplace
  <2>9. t - s[i].size + a.size = t + y /\ t + y \in Int
    BY <2>3, <2>5
  <2>10. SumIs(RemoveAt(r, i + 1), (t + y) - r[i + 1].size)
    BY <2>2, <2>7, <2>8, <2>9, SumRemove
  <2>11. (t + y) - r[i + 1].size = t
    BY <2>3, <2>7
  <2>12. MergedAt(s, i) = RemoveAt(r, i + 1)
    BY <2>1, <2>4, <2>6 DEF MergedAt
  <2>. QED BY <2>10, <2>11, <2>12
<1>. QED BY <1>1, <1>2

\* Merging at i leaves nothing to merge there.
LEMMA MergedTouch ==
  ASSUME NEW s \in Seq(ListBlock), NEW i \in Int, NEW K, K \subseteq {i - 1},
         \A j \in Int : Touch(s, j) => j = i \/ j \in K
  PROVE  \A j \in Int : Touch(MergedAt(s, i), j) => j \in K
<1>1. CASE ~Touch(s, i)
  BY <1>1, MergedAtIs
<1>2. CASE Touch(s, i)
  <2>1. PICK n \in Nat : n = Len(s)
    OBVIOUS
  <2>2. PICK r : r = MergedAt(s, i)
    OBVIOUS
  <2>3. PICK a : a = Block(s[i].address, s[i].size + s[i + 1].size)
    OBVIOUS
  <2>4. /\ i \in 1..(n - 1) /\ End(s[i]) = s[i + 1].address /\ Len(r) = n - 1
        /\ \A j \in 1..(n - 1) : r[j] = IF j < i THEN s[j] ELSE IF j = i THEN a ELSE s[j + 1]
    <3>1. i \in 1..(n - 1) /\ End(s[i]) = s[i + 1].address
      BY <1>2, <2>1 DEF Touch
    <3>2. Len(r) = n - 1
      BY <1>2, <2>1, <2>2, MergedAtIs
    <3>3. \A j \in 1..(n - 1) : r[j] = IF j < i THEN s[j] ELSE IF j = i THEN a ELSE s[j + 1]
      BY <1>2, <2>1, <2>2, <2>3, MergedAtIs
    <3>. QED BY <3>1, <3>2, <3>3
  <2>5. a.address = s[i].address /\ End(a) = End(s[i + 1])
    <3>0. i \in 1..n /\ i + 1 \in 1..n
      BY <2>4
    <3>1. PICK u \in Nat, x \in Nat, y \in Nat, v \in Nat :
            u = s[i].address /\ x = s[i].size /\ y = s[i + 1].size /\ v = s[i + 1].address
      BY <2>1, <3>0, SizesAre
    <3>2. u + x = v
      BY <2>4, <3>1, BlockIs
    <3>3. a.address = u /\ a.size = x + y
      BY <2>3, <3>1, BlockIs
    <3>4. u + (x + y) = v + y
      BY <3>2
    <3>. QED BY <3>1, <3>3, <3>4, BlockIs
  <2>6. ASSUME NEW j \in Int, Touch(r, j) PROVE j \in K
    <3>1. j \in 1..(n - 2) /\ End(r[j]) = r[j + 1].address
      BY <2>4, <2>6 DEF Touch
    <3>2. j \in 1..(n - 1) /\ j + 1 \in 1..(n - 1) /\ j + 1 \in Int /\ (j + 1) + 1 = j + 2
      BY <3>1
    <3>3. CASE j < i - 1
      <4>1. j < i /\ j + 1 < i /\ j # i /\ j # i - 1
        BY <2>4, <3>2, <3>3
      <4>2. r[j] = s[j] /\ r[j + 1] = s[j + 1]
        BY <2>4, <3>2, <4>1
      <4>3. Touch(s, j)
        BY <2>1, <3>1, <3>2, <4>2 DEF Touch
      <4>. QED BY <2>6, <4>1, <4>3
    <3>4. CASE j = i - 1
      <4>1. j < i /\ j + 1 = i /\ ~(j + 1 < i)
        BY <2>4, <3>4
      <4>2. r[j] = s[j] /\ r[j + 1] = a
        BY <2>4, <3>2, <4>1
      <4>3. End(s[j]) = s[j + 1].address
        BY <2>5, <3>1, <4>1, <4>2
      <4>4. Touch(s, j)
        BY <2>1, <3>2, <4>3 DEF Touch
      <4>. QED BY <2>6, <4>1, <4>4
    <3>5. CASE j = i
      <4>1. ~(j < i) /\ ~(j + 1 < i) /\ j + 1 # i
        BY <2>4, <3>5
      <4>2. r[j] = a /\ r[j + 1] = s[j + 2]
        BY <2>4, <3>2, <3>5, <4>1
      <4>3. End(s[j + 1]) = s[(j + 1) + 1].address
        BY <2>5, <3>1, <3>2, <3>5, <4>2
      <4>4. j + 1 \in 1..(n - 1)
        BY <3>2
      <4>5. Touch(s, j + 1)
        BY <2>1, <4>3, <4>4 DEF Touch
      <4>6. j + 1 = i \/ j + 1 \in K
        BY <2>6, <3>2, <4>5
      <4>7. j + 1 # i /\ j + 1 # i - 1
        BY <2>4, <3>5
      <4>. QED BY <4>6, <4>7
    <3>6. CASE j > i
      <4>1. ~(j < i) /\ ~(j + 1 < i) /\ j # i /\ j + 1 # i /\ j + 1 # i - 1
        BY <2>4, <3>2, <3>6
      <4>2. r[j] = s[j + 1] /\ r[j + 1] = s[(j + 1) + 1]
        BY <2>4, <3>2, <4>1
      <4>3. Touch(s, j + 1)
        BY <2>1, <3>1, <3>2, <4>2 DEF Touch
      <4>. QED BY <2>6, <3>2, <4>1, <4>3
    <3>. QED BY <2>4, <3>1, <3>3, <3>4, <3>5, <3>6
  <2>. QED BY <2>2, <2>6
<1>. QED BY <1>1, <1>2

\* Merging leaves a sound heap.
LEMMA MergedSound ==
  ASSUME NEW b \in Builds, b.kind # 2, NEW s, NEW O, Sound(s, O, b), NEW i \in Int
  PROVE  Sound(MergedAt(s, i), O, b)
<1>0. s \in Seq(ListBlock) /\ Ordered(s, b)
  BY DEF Sound, Ordered
<1>1. CASE ~Touch(s, i)
  BY <1>0, <1>1, MergedAtIs
<1>2. CASE Touch(s, i)
  <2>1. PICK n \in Nat : n = Len(s)
    BY <1>0
  <2>2. PICK r : r = MergedAt(s, i)
    OBVIOUS
  <2>3. PICK x, y : x = s[i] /\ y = s[i + 1]
    OBVIOUS
  <2>4. PICK a : a = Block(x.address, x.size + y.size)
    OBVIOUS
  <2>5. /\ i \in 1..(n - 1) /\ End(x) = y.address /\ r \in Seq(ListBlock) /\ Len(r) = n - 1
        /\ \A j \in 1..(n - 1) : r[j] = IF j < i THEN s[j] ELSE IF j = i THEN a ELSE s[j + 1]
    <3>1. /\ i \in 1..(Len(s) - 1) /\ End(s[i]) = s[i + 1].address
          /\ MergedAt(s, i) \in Seq(ListBlock) /\ Len(MergedAt(s, i)) = Len(s) - 1
      BY <1>0, <1>2, MergedAtIs, Zenon
    <3>2. \A j \in 1..(Len(s) - 1) :
             MergedAt(s, i)[j] = IF j < i THEN s[j]
                                 ELSE IF j = i THEN Block(s[i].address, s[i].size + s[i + 1].size)
                                 ELSE s[j + 1]
      BY <1>0, <1>2, MergedAtIs, Zenon
    <3>3. a = Block(s[i].address, s[i].size + s[i + 1].size)
      BY <2>3, <2>4
    <3>. QED BY <2>1, <2>2, <2>3, <3>1, <3>2, <3>3
  <2>6. i \in 1..n /\ i + 1 \in 1..n /\ i # i + 1
    BY <2>5
  <2>7. /\ x \in ToSet(s) /\ y \in ToSet(s) /\ x \in ListBlock /\ y \in ListBlock
        /\ x.address \in Nat /\ x.size \in Nat /\ y.address \in Nat /\ y.size \in Nat
        /\ End(x) = x.address + x.size
    BY <1>0, <2>1, <2>3, <2>6, InSeq, BlockIs
  <2>8. \A k \in 1..n, j \in 1..n : s[k].address = s[j].address => k = j
    BY <1>0, <2>1 DEF Ordered
  <2>9. x.address # y.address /\ x.size > 0 /\ x # y
    <3>1. x.address # y.address
      BY <2>3, <2>6, <2>8
    <3>2. PICK u \in Nat, v \in Nat, k \in Nat : u = x.address /\ k = x.size /\ v = y.address
      BY <2>7
    <3>3. u + k = v /\ u # v
      BY <2>5, <2>7, <3>1, <3>2
    <3>4. k > 0
      BY <3>3
    <3>. QED BY <3>1, <3>2, <3>4
  <2>10. a \in ListBlock /\ a.address = x.address /\ a.size = x.size + y.size /\ a.size > 0
    <3>1. x.size + y.size \in Nat /\ x.size + y.size > 0
      BY <2>7, <2>9
    <3>2. a.address = x.address /\ a.size = x.size + y.size
      BY <2>4, BlockIs
    <3>3. a \in ListBlock
      BY <2>4, <2>7, <3>1, BlockIs
    <3>. QED BY <3>1, <3>2, <3>3
  <2>11. ASSUME NEW j \in 1..(n - 1)
         PROVE  \E k \in 1..n : /\ r[j].address = s[k].address /\ k # i + 1
                                /\ (j <= i => k = j) /\ (j > i => k = j + 1)
                                /\ (k # i => r[j] = s[k]) /\ (k = i => r[j] = a)
    <3>1. CASE j < i
      <4>1. j \in 1..n /\ r[j] = s[j] /\ j # i + 1 /\ ~(j > i) /\ j # i
        BY <2>5, <3>1
      <4>. QED BY <4>1
    <3>2. CASE j = i
      <4>1. j \in 1..n /\ r[j] = a /\ j # i + 1 /\ ~(j > i) /\ ~(j < i)
        BY <2>5, <3>2
      <4>. QED BY <2>3, <2>10, <3>2, <4>1
    <3>3. CASE j > i
      <4>1. j + 1 \in 1..n /\ ~(j < i) /\ j # i /\ j + 1 # i + 1 /\ ~(j <= i) /\ j + 1 # i
        BY <2>5, <3>3
      <4>2. r[j] = s[j + 1]
        BY <2>5, <4>1
      <4>. QED BY <4>1, <4>2
    <3>. QED BY <2>5, <3>1, <3>2, <3>3
  <2>12. ToSet(r) = (ToSet(s) \ {x, y}) \cup {a}
    <3>1. ASSUME NEW z \in ToSet(r), z # a PROVE z \in ToSet(s) \ {x, y}
      <4>1. PICK j \in 1..(n - 1) : r[j] = z
        BY <2>5, InSeq
      <4>2. PICK k \in 1..n : k # i + 1 /\ (k # i => r[j] = s[k]) /\ (k = i => r[j] = a)
        BY <2>11
      <4>3. k # i /\ z = s[k]
        BY <3>1, <4>1, <4>2
      <4>4. s[k] # s[i] /\ s[k] # s[i + 1]
        BY <2>6, <2>8, <4>2, <4>3
      <4>. QED BY <1>0, <2>1, <2>3, <4>3, <4>4, InSeq
    <3>2. a \in ToSet(r)
      <4>1. r[i] = a /\ i \in 1..(n - 1)
        BY <2>5
      <4>. QED BY <2>5, <4>1, InSeq
    <3>3. ASSUME NEW z \in ToSet(s), z # x, z # y PROVE z \in ToSet(r)
      <4>1. PICK k \in 1..n : s[k] = z
        BY <1>0, <2>1, InSeq
      <4>2. k # i /\ k # i + 1
        BY <2>3, <3>3, <4>1
      <4>3. CASE k < i
        <5>1. k \in 1..(n - 1) /\ r[k] = s[k]
          BY <2>5, <4>3
        <5>. QED BY <2>5, <4>1, <5>1, InSeq
      <4>4. CASE k > i
        <5>1. k - 1 \in 1..(n - 1) /\ ~(k - 1 < i) /\ k - 1 # i /\ (k - 1) + 1 = k
          BY <2>5, <4>2, <4>4
        <5>2. r[k - 1] = s[k]
          BY <2>5, <5>1
        <5>. QED BY <2>5, <4>1, <5>1, <5>2, InSeq
      <4>. QED BY <2>5, <4>2, <4>3, <4>4
    <3>. QED BY <3>1, <3>2, <3>3
  <2>13. PICK g : g = Regions[b] /\ Ground(g)
    BY GroundIs
  <2>14. PICK R : R = Real(s) \cup O
    OBVIOUS
  <2>15. Laid(R, g) /\ x \in R /\ x \notin O /\ y \notin O
    BY <2>7, <2>9, <2>13, <2>14 DEF Sound, Real
  <2>16. Laid(Real(r) \cup O, g) /\ a \notin O
    <3>1. CASE y.size = 0
      <4>1. a = x
        <5>1. x.size + y.size = x.size
          BY <2>7, <3>1
        <5>. QED BY <2>4, <2>7, <5>1, BlockIs
      <4>2. Real(r) = Real(s)
        BY <2>7, <2>9, <2>12, <3>1, <4>1 DEF Real
      <4>. QED BY <2>14, <2>15, <4>1, <4>2
    <3>2. CASE y.size # 0
      <4>1. y \in R /\ y.size > 0
        BY <2>7, <2>14, <3>2 DEF Real
      <4>2. Laid((R \ {x, y}) \cup {a}, g)
        BY <2>4, <2>5, <2>13, <2>15, <4>1, MergeLaid
      <4>3. Real(r) \cup O = (R \ {x, y}) \cup {a}
        BY <2>10, <2>12, <2>14, <2>15 DEF Real
      <4>4. a \notin O
        <5>1. ASSUME a \in O PROVE a = x
          <6>1. a \in R
            BY <2>14, <5>1
          <6>2. a = x \/ End(a) <= x.address \/ End(x) <= a.address
            BY <2>15, <6>1 DEF Laid
          <6>3. End(a) = a.address + a.size /\ a.address \in Nat /\ a.size \in Nat
            BY <2>10, BlockIs
          <6>. QED BY <2>7, <2>9, <2>10, <6>2, <6>3
        <5>. QED BY <2>15, <5>1
      <4>. QED BY <4>2, <4>3, <4>4
    <3>. QED BY <3>1, <3>2
  <2>17. ToSet(r) \cap O = {}
    BY <2>12, <2>16 DEF Sound
  <2>18. \A z \in ToSet(r) \cup O : OnCell(b, z.address)
    <3>1. OnCell(b, a.address)
      BY <2>7, <2>10 DEF Sound
    <3>. QED BY <2>12, <3>1 DEF Sound
  <2>19. ASSUME NEW j \in 1..(n - 1), NEW k \in 1..(n - 1)
         PROVE  (r[j].address = r[k].address => j = k) /\ (j < k => r[j].address < r[k].address)
    <3>1. PICK v \in 1..n : r[j].address = s[v].address /\ (j <= i => v = j) /\ (j > i => v = j + 1)
      BY <2>11
    <3>2. PICK w \in 1..n : r[k].address = s[w].address /\ (k <= i => w = k) /\ (k > i => w = k + 1)
      BY <2>11
    <3>3. (v = w => j = k) /\ (j < k => v < w)
      BY <2>5, <3>1, <3>2
    <3>4. (s[v].address = s[w].address => v = w) /\ (v < w => s[v].address < s[w].address)
      BY <1>0, <2>1 DEF Ordered
    <3>. QED BY <3>1, <3>2, <3>3, <3>4
  <2>20. ASSUME NEW j \in 1..(n - 1), r[j].size = 0
         PROVE  b.kind = 5 /\ \E k \in 1..(Len(Regions[b]) - 1) : r[j].address = EndAt(Regions[b], k)
    <3>1. PICK v \in 1..n : (v # i => r[j] = s[v]) /\ (v = i => r[j] = a)
      BY <2>11
    <3>2. r[j] = s[v]
      BY <2>10, <2>20, <3>1
    <3>. QED BY <1>0, <2>1, <2>20, <3>2 DEF Ordered
  <2>21. Ordered(r, b)
    BY <2>5, <2>19, <2>20 DEF Ordered
  <2>22. Sound(r, O, b)
    BY <2>13, <2>16, <2>17, <2>18, <2>21 DEF Sound
  <2>. QED BY <2>2, <2>22
<1>. QED BY <1>1, <1>2

-----------------------------------------------------------------------------
\* Inserting.
LEMMA InsertedSound ==
  ASSUME NEW b \in Builds, build = b, NEW s, NEW O, NEW x, x \notin O, Sound(s, O \cup {x}, b),
         Merged(s, b), NEW t \in Int, SumIs(s, t)
  PROVE  Sound(Inserted(s, x), O, b) /\ Merged(Inserted(s, x), b) /\ SumIs(Inserted(s, x), t + x.size)
<1>1. /\ s \in Seq(ListBlock) /\ Len(s) \in Nat /\ x \in ListBlock /\ x.address \in Nat /\ x.size \in Nat
      /\ \A i \in 1..Len(s) : s[i].address # x.address /\ s[i].address \in Nat
  <2>1. s \in Seq(ListBlock) /\ Len(s) \in Nat /\ x \in ListBlock /\ x.address \in Nat /\ x.size \in Nat
    BY SoundBlocks
  <2>2. \A y \in ToSet(s) : y # x
    BY DEF Sound
  <2>3. \A y \in ToSet(s) : y.address # x.address
    BY <2>2, SoundBlocks
  <2>. QED BY <2>1, <2>3, InSeq, SizesAre
<1>2. t + x.size \in Int
  BY <1>1
<1>3. CASE b.kind = 2
  <2>1. PICK p : p = PlaceIn(s, {i \in DOMAIN s : s[i].size >= x.size})
    OBVIOUS
  <2>2. p \in 1..(Len(s) + 1)
    BY <1>1, <2>1, PlaceFound
  <2>3. Inserted(s, x) = InsertAt(s, p, x)
    BY <1>3, <2>1 DEF Inserted, BySize
  <2>4. Sound(InsertAt(s, p, x), O, b)
    BY <1>3, <2>2, InsertSound
  <2>5. SumIs(InsertAt(s, p, x), t + x.size)
    BY <1>1, <2>2, SumInsert
  <2>. QED BY <1>3, <2>3, <2>4, <2>5 DEF Merged
<1>4. CASE b.kind # 2
  <2>1. PICK ahead : ahead = {i \in DOMAIN s : s[i].address >= x.address}
    OBVIOUS
  <2>2. PICK p : p = PlaceIn(s, ahead)
    OBVIOUS
  <2>3. /\ p \in 1..(Len(s) + 1) /\ (p \in ahead \/ p = Len(s) + 1)
        /\ \A i \in 1..(p - 1) : i \notin ahead
    BY <1>1, <2>2, PlaceFound
  <2>4. PICK r : r = InsertAt(s, p, x)
    OBVIOUS
  <2>5. Inserted(s, x) = MergedAt(MergedAt(r, p), p - 1)
    BY <1>4, <2>1, <2>2, <2>4 DEF Inserted, ByAddress
  <2>6. \A i \in 1..Len(s) : i < p => s[i].address < x.address
    <3> SUFFICES ASSUME NEW i \in 1..Len(s), i < p PROVE s[i].address < x.address
      OBVIOUS
    <3>1. i \in 1..(p - 1) /\ i \in DOMAIN s
      BY <1>1, <2>3
    <3>. QED BY <1>1, <2>1, <2>3, <3>1
  <2>7. \A i \in 1..Len(s) : i >= p => x.address < s[i].address
    <3> SUFFICES ASSUME NEW i \in 1..Len(s), i >= p PROVE x.address < s[i].address
      OBVIOUS
    <3>1. p \in ahead /\ p \in 1..Len(s)
      BY <1>1, <2>3
    <3>2. x.address < s[p].address
      BY <1>1, <2>1, <3>1
    <3>3. p = i \/ s[p].address < s[i].address
      BY <1>4, <3>1 DEF Sound, Ordered
    <3>. QED BY <1>1, <3>1, <3>2, <3>3
  <2>8. Sound(r, O, b)
    BY <2>3, <2>4, <2>6, <2>7, InsertSound
  <2>9. SumIs(r, t + x.size)
    BY <1>1, <2>3, <2>4, SumInsert
  <2>10. r \in Seq(ListBlock) /\ p \in Int /\ p - 1 \in Int
    BY <2>3, <2>8, SoundBlocks
  <2>11. PICK q : q = MergedAt(r, p)
    OBVIOUS
  <2>12. Sound(q, O, b) /\ SumIs(q, t + x.size)
    BY <1>2, <1>4, <2>8, <2>9, <2>10, <2>11, MergedSound, MergedSum
  <2>13. q \in Seq(ListBlock)
    BY <2>12, SoundBlocks
  <2>14. Sound(MergedAt(q, p - 1), O, b) /\ SumIs(MergedAt(q, p - 1), t + x.size)
    BY <1>2, <1>4, <2>10, <2>12, <2>13, MergedSound, MergedSum
  <2>15. ASSUME b.kind = 4 PROVE \A j \in Int : ~Touch(MergedAt(q, p - 1), j)
    <3>1. PICK n \in Nat : n = Len(s)
      BY <1>1
    <3>2. Len(r) = n + 1 /\ \A j \in 1..(n + 1) : r[j] = IF j < p THEN s[j] ELSE IF j = p THEN x ELSE s[j - 1]
      BY <1>1, <2>3, <2>4, <3>1, InsertAtIs
    <3>3. \A i \in 1..n : ~Touch(s, i)
      BY <2>15, <3>1 DEF Merged
    <3>4. ASSUME NEW j \in Int, Touch(r, j) PROVE j = p \/ j \in {p - 1}
      <4>1. j \in 1..n /\ End(r[j]) = r[j + 1].address /\ j \in 1..(n + 1) /\ j + 1 \in 1..(n + 1)
        BY <3>2, <3>4 DEF Touch
      <4>2. CASE j < p - 1
        <5>1. j < p /\ j + 1 < p /\ j \in 1..(n - 1)
          BY <2>3, <3>1, <4>1, <4>2
        <5>2. r[j] = s[j] /\ r[j + 1] = s[j + 1]
          BY <3>2, <4>1, <5>1
        <5>3. Touch(s, j)
          BY <3>1, <4>1, <5>1, <5>2 DEF Touch
        <5>. QED BY <3>3, <4>1, <5>3
      <4>3. CASE j > p
        <5>1. ~(j < p) /\ j # p /\ ~(j + 1 < p) /\ j + 1 # p /\ (j + 1) - 1 = j /\ j - 1 \in 1..(n - 1) /\ j - 1 \in 1..n /\ (j - 1) + 1 = j
          BY <2>3, <3>1, <4>1, <4>3
        <5>2. r[j] = s[j - 1] /\ r[j + 1] = s[j]
          BY <3>2, <4>1, <5>1
        <5>3. Touch(s, j - 1)
          BY <3>1, <4>1, <5>1, <5>2 DEF Touch
        <5>. QED BY <3>3, <5>1, <5>3
      <4>. QED BY <2>3, <4>1, <4>2, <4>3
    <3>5. \A j \in Int : Touch(q, j) => j \in {p - 1}
      BY <2>10, <2>11, <3>4, MergedTouch
    <3>6. \A j \in Int : Touch(q, j) => j = p - 1 \/ j \in {}
      BY <3>5
    <3>7. {} \subseteq {(p - 1) - 1}
      OBVIOUS
    <3>8. \A j \in Int : Touch(MergedAt(q, p - 1), j) => j \in {}
      <4>1. PICK i \in Int : i = p - 1
        BY <2>10
      <4>0. PICK K : K = {}
        OBVIOUS
      <4>2. K \subseteq {i - 1} /\ \A j \in Int : Touch(q, j) => j = i \/ j \in K
        BY <3>6, <4>0, <4>1
      <4>3. \A j \in Int : Touch(MergedAt(q, i), j) => j \in K
        BY <2>13, <4>2, MergedTouch
      <4>. QED BY <4>0, <4>1, <4>3
    <3>. QED BY <3>8
  <2>16. Merged(MergedAt(q, p - 1), b)
    BY <2>15 DEF Merged
  <2>. QED BY <2>5, <2>11, <2>14, <2>16
<1>. QED BY <1>3, <1>4
-----------------------------------------------------------------------------
\* The memory under the heap.

\* The end marker is that of the image.
LEMMA MarkerIs ==
  ASSUME build \in Builds
  PROVE  EndMarker = MarkerOf(build) /\ MarkerOf(build) \in Nat /\ MarkerOf(build) # Null
<1>1. PICK g : g = Regions[build]
  OBVIOUS
<1>2. Ground(g)
  BY <1>1, GroundIs
<1>3. Len(g) \in DOMAIN g
  BY <1>2 DEF Ground
<1>4. EndAt(g, Len(g)) \in Nat /\ EndAt(g, Len(g)) # 0
  <2>1. PICK k \in DOMAIN g : k = Len(g)
    BY <1>3
  <2>2. EndAt(g, k) \in Nat /\ g[k][1] \in Nat /\ XEnd < g[k][1] /\ g[k][1] < EndAt(g, k)
    BY <1>2 DEF Ground
  <2>. QED BY <2>1, <2>2 DEF XEnd
<1>. QED BY <1>1, <1>4 DEF EndMarker, MarkerOf, LastRegion, MyRegions, EndAt, XEnd, Null

\* Headers and end markers are in cells.
LEMMA InCells ==
  ASSUME build \in Builds, NEW a \in Nat, OnCell(build, a),
         NEW i \in DOMAIN Regions[build], Regions[build][i][1] <= a, a <= EndAt(Regions[build], i)
  PROVE  a \in Cells
<1>1. PICK g : g = Regions[build] /\ Ground(g)
  BY GroundIs
<1>2. PICK r : r = g[i]
  OBVIOUS
<1>3. r \in ToSet(MyRegions)
  BY <1>1, <1>2 DEF ToSet, MyRegions
<1>4. r[1] \in Nat /\ r[1] + r[2] \in Nat /\ r[1] <= a /\ a <= r[1] + r[2]
  <2>1. r[1] \in Nat /\ EndAt(g, i) \in Nat /\ EndAt(g, i) = r[1] + r[2]
    BY <1>1, <1>2 DEF Ground, EndAt
  <2>. QED BY <1>1, <1>2, <2>1
<1>5. a \in r[1]..(r[1] + r[2]) /\ a % 2 = 0
  BY <1>4 DEF OnCell
<1>. QED BY <1>3, <1>5 DEF Cells

\* The header of each block is in a cell.
LEMMA BlocksInCells ==
  ASSUME build \in Builds, NEW s, NEW O, Sound(s, O, build)
  PROVE  \A x \in ToSet(s) \cup O : x.address \in Cells
<1>1. PICK g : g = Regions[build] /\ Ground(g)
  BY GroundIs
<1>2. ASSUME NEW x \in Real(s) \cup O PROVE x.address \in Cells
  <2>1. /\ x.address \in Nat /\ x.size \in Nat /\ End(x) = x.address + x.size
        /\ OnCell(build, x.address) /\ Inside(x, g)
    BY <1>1, SoundBlocks
  <2>2. PICK i \in DOMAIN g : g[i][1] <= x.address /\ End(x) <= EndAt(g, i)
    BY <2>1 DEF Inside
  <2>3. x.address <= EndAt(g, i)
    BY <1>1, <2>1, <2>2 DEF Ground
  <2>. QED BY <1>1, <2>1, <2>2, <2>3, InCells
<1>3. ASSUME NEW x \in ToSet(s), x \notin Real(s) PROVE x.address \in Cells
  <2>1. PICK k \in DOMAIN g : x.address = EndAt(g, k)
    BY <1>1, <1>3, SoundBlocks
  <2>2. OnCell(build, x.address) /\ x.address \in Nat
    BY SoundBlocks
  <2>3. g[k][1] <= x.address /\ x.address <= EndAt(g, k)
    BY <1>1, <2>1 DEF Ground
  <2>. QED BY <1>1, <2>2, <2>3, InCells
<1>. QED BY <1>2, <1>3

\* So is the end of each region, and the end marker.
LEMMA EndsInCells ==
  ASSUME build \in Builds
  PROVE  /\ EndMarker \in Cells
         /\ build.kind # 2 => \A k \in DOMAIN Regions[build] : EndAt(Regions[build], k) \in Cells
<1>1. PICK g : g = Regions[build] /\ Ground(g)
  BY GroundIs
<1>2. ASSUME build.kind # 2, NEW k \in DOMAIN g PROVE EndAt(g, k) \in Cells
  <2>1. OnCell(build, EndAt(g, k))
    BY <1>1, <1>2, GroundIs
  <2>2. EndAt(g, k) \in Nat /\ g[k][1] <= EndAt(g, k) /\ EndAt(g, k) <= EndAt(g, k)
    BY <1>1 DEF Ground
  <2>. QED BY <1>1, <2>1, <2>2, InCells
<1>3. CASE build.kind = 2
  BY <1>3 DEF EndMarker, Cells
<1>4. CASE build.kind # 2
  <2>1. Len(g) \in DOMAIN g
    BY <1>1 DEF Ground
  <2>. QED BY <1>1, <1>2, <1>4, <2>1, MarkerIs DEF MarkerOf
<1>. QED BY <1>1, <1>2, <1>3, <1>4

\* Cells are addresses.
LEMMA CellsAreNat == build \in Builds => Cells \subseteq Nat
<1> SUFFICES ASSUME build \in Builds, NEW a \in Cells PROVE a \in Nat
  OBVIOUS
<1>1. PICK g : g = Regions[build] /\ Ground(g)
  BY GroundIs
<1>2. CASE a = XEnd
  BY <1>2 DEF XEnd
<1>3. ASSUME NEW r \in ToSet(MyRegions), a \in r[1]..(r[1] + r[2]) PROVE a \in Nat
  <2>1. PICK i \in DOMAIN g : r = g[i]
    BY <1>1, <1>3 DEF ToSet, MyRegions
  <2>2. r[1] \in Nat /\ EndAt(g, i) \in Nat /\ EndAt(g, i) = r[1] + r[2]
    BY <1>1, <2>1 DEF Ground, EndAt
  <2>. QED BY <1>3, <2>2
<1>. QED BY <1>2, <1>3 DEF Cells

\* What is written for the free list, and nothing else.
LEMMA LinkedIs ==
  ASSUME NEW m, NEW s \in Seq(ListBlock), \A i, j \in 1..Len(s) : s[i].address = s[j].address => i = j,
         \A i \in 1..Len(s) : s[i].address \in DOMAIN m
  PROVE  /\ DOMAIN Linked(m, s) = DOMAIN m
         /\ Linked(m, s) = [a \in DOMAIN m |-> Linked(m, s)[a]]
         /\ \A i \in 1..Len(s) : Linked(m, s)[s[i].address] =
              [next |-> IF i = Len(s) THEN EndMarker ELSE s[i + 1].address, raw |-> s[i].size]
         /\ \A a \in DOMAIN m : (\A i \in 1..Len(s) : s[i].address # a) => Linked(m, s)[a] = m[a]
<1>1. PICK n \in Nat : n = Len(s) /\ DOMAIN s = 1..n
  OBVIOUS
<1>2. DOMAIN Linked(m, s) = DOMAIN m /\ Linked(m, s) = [a \in DOMAIN m |-> Linked(m, s)[a]]
  BY DEF Linked
<1>3. ASSUME NEW a \in DOMAIN m, \A i \in 1..n : s[i].address # a PROVE Linked(m, s)[a] = m[a]
  <2>1. {i \in DOMAIN s : s[i].address = a} = {}
    BY <1>1, <1>3
  <2>. QED BY <2>1 DEF Linked
<1>4. ASSUME NEW i \in 1..n
      PROVE  Linked(m, s)[s[i].address] =
               [next |-> IF i = Len(s) THEN EndMarker ELSE s[i + 1].address, raw |-> s[i].size]
  <2>1. PICK a \in DOMAIN m : a = s[i].address
    BY <1>1
  <2>2. PICK here : here = {j \in DOMAIN s : s[j].address = a}
    OBVIOUS
  <2>3. here = {i}
    BY <1>1, <2>1, <2>2
  <2>4. (CHOOSE x \in here : TRUE) = i /\ here # {}
    BY <2>3
  <2>5. Linked(m, s)[a] = [next |-> IF i = Len(s) THEN EndMarker ELSE s[i + 1].address, raw |-> s[i].size]
    BY <2>2, <2>4 DEF Linked
  <2>. QED BY <2>1, <2>5
<1>. QED BY <1>1, <1>2, <1>3, <1>4

\* Writing the free list makes its links and sizes true, and leaves the others so.
LEMMA LinkedTrue ==
  ASSUME build \in Builds, NEW m, IsMemory(m), DOMAIN m = Cells,
         NEW s, NEW O, Sound(s, O, build), NEW u, u \subseteq O, UsedTrue(m, u, build), EndsTrue(m, build)
  PROVE  /\ IsMemory(Linked(m, s)) /\ DOMAIN Linked(m, s) = Cells
         /\ LinksTrue(Linked(m, s), s, build) /\ ListedTrue(Linked(m, s), s)
         /\ UsedTrue(Linked(m, s), u, build) /\ EndsTrue(Linked(m, s), build)
<1>1. s \in Seq(ListBlock) /\ Len(s) \in Nat /\ \A i, j \in 1..Len(s) : s[i].address = s[j].address => i = j
  BY SoundBlocks DEF Sound, Ordered
<1>2. \A i \in 1..Len(s) : s[i] \in ToSet(s) /\ s[i].address \in DOMAIN m /\ s[i].address \in Nat /\ s[i].size \in Nat
  BY <1>1, InSeq, BlocksInCells, SizesAre
<1>3. PICK w : w = Linked(m, s)
  OBVIOUS
<1>4. DOMAIN w = Cells /\ w = [a \in DOMAIN w |-> w[a]]
  BY <1>1, <1>2, <1>3, LinkedIs
<1>5. \A i \in 1..Len(s) : w[s[i].address] =
        [next |-> IF i = Len(s) THEN EndMarker ELSE s[i + 1].address, raw |-> s[i].size]
  BY <1>1, <1>2, <1>3, LinkedIs
<1>6. \A a \in Cells : (\A i \in 1..Len(s) : s[i].address # a) => w[a] = m[a]
  BY <1>1, <1>2, <1>3, LinkedIs
<1>7. EndMarker \in Nat /\ EndMarker = MarkerOf(build)
  BY MarkerIs
<1>8. IsMemory(w)
  <2>1. ASSUME NEW a \in Cells PROVE w[a] \in Header
    <3>1. CASE \A i \in 1..Len(s) : s[i].address # a
      BY <1>6, <3>1 DEF IsMemory
    <3>2. ASSUME NEW i \in 1..Len(s), s[i].address = a PROVE w[a] \in Header
      <4>1. PICK e : e = IF i = Len(s) THEN EndMarker ELSE s[i + 1].address
        OBVIOUS
      <4>2. e \in Nat
        <5>1. i # Len(s) => i + 1 \in 1..Len(s)
          BY <1>1
        <5>. QED BY <1>2, <1>7, <4>1, <5>1
      <4>3. w[a] = [next |-> e, raw |-> s[i].size]
        BY <1>5, <3>2, <4>1
      <4>. QED BY <1>2, <4>2, <4>3 DEF Header
    <3>. QED BY <3>1, <3>2
  <2>. QED BY <1>4, <2>1, CellsAreNat DEF IsMemory
<1>13. ASSUME NEW i \in 1..Len(s)
       PROVE  /\ w[s[i].address].next = (IF i = Len(s) THEN EndMarker ELSE s[i + 1].address)
              /\ w[s[i].address].raw = s[i].size
  <2>1. PICK h : h = w[s[i].address]
    OBVIOUS
  <2>2. h = [next |-> IF i = Len(s) THEN EndMarker ELSE s[i + 1].address, raw |-> s[i].size]
    BY <1>5, <2>1
  <2>3. h.next = (IF i = Len(s) THEN EndMarker ELSE s[i + 1].address) /\ h.raw = s[i].size
    BY <2>2
  <2>. QED BY <2>1, <2>3
<1>9. LinksTrue(w, s, build)
  BY <1>7, <1>13 DEF LinksTrue, NextIn
<1>10. ListedTrue(w, s)
  BY <1>13 DEF ListedTrue
<1>11. UsedTrue(w, u, build)
  <2> SUFFICES ASSUME NEW x \in u PROVE w[x.address].raw = RawUsed(x, build)
    BY DEF UsedTrue
  <2>1. x \in O /\ x \notin ToSet(s)
    BY DEF Sound
  <2>2. \A i \in 1..Len(s) : s[i].address # x.address
    <3> SUFFICES ASSUME NEW i \in 1..Len(s), s[i].address = x.address PROVE FALSE
      OBVIOUS
    <3>1. s[i] \in ToSet(s) /\ s[i] = x
      BY <1>2, <2>1, SoundBlocks
    <3>. QED BY <2>1, <3>1
  <2>3. x.address \in Cells
    BY <2>1, BlocksInCells
  <2>. QED BY <1>6, <2>2, <2>3 DEF UsedTrue
<1>12. EndsTrue(w, build)
  <2> SUFFICES ASSUME build.kind = 5, NEW k \in DOMAIN Regions[build] PROVE w[EndAt(Regions[build], k)].raw = 0
    BY DEF EndsTrue
  <2>1. PICK a : a = EndAt(Regions[build], k)
    OBVIOUS
  <2>2. a \in Cells /\ m[a].raw = 0
    BY <2>1, EndsInCells DEF EndsTrue
  <2>3. ASSUME NEW i \in 1..Len(s), s[i].address = a PROVE w[a].raw = 0
    <3>1. s[i] \notin Real(s)
      <4> SUFFICES ASSUME s[i] \in Real(s) PROVE FALSE
        OBVIOUS
      <4>1. s[i] \in ListBlock /\ s[i].size > 0 /\ Inside(s[i], Regions[build])
        BY SoundBlocks
      <4>. QED BY <2>1, <2>3, <4>1, EndsApart, GroundIs
    <3>2. s[i].size = 0
      BY <1>2, <3>1, SoundBlocks
    <3>. QED BY <1>13, <2>3, <3>2
  <2>. QED BY <1>6, <2>1, <2>2, <2>3
<1>. QED BY <1>3, <1>4, <1>8, <1>9, <1>10, <1>11, <1>12

\* Blocks a and c take the place of x, off the list.
LEMMA SplitSound ==
  ASSUME NEW b \in Builds, NEW s, NEW O, NEW x, x \notin O, Sound(s, O \cup {x}, b),
         NEW k \in Nat \ {0}, k < x.size, OnCell(b, k)
  PROVE  /\ Sound(s, O \cup {Block(x.address, k), Block(x.address + k, x.size - k)}, b)
         /\ Block(x.address + k, x.size - k) \notin O \cup {Block(x.address, k)}
         /\ Block(x.address, k) \notin O
<1>1. PICK g : g = Regions[b] /\ Ground(g)
  BY GroundIs
<1>2. PICK R : R = Real(s) \cup (O \cup {x})
  OBVIOUS
<1>3. /\ Laid(R, g) /\ x \in R /\ Ordered(s, b) /\ ToSet(s) \cap (O \cup {x}) = {}
      /\ \A y \in ToSet(s) \cup (O \cup {x}) : OnCell(b, y.address)
  BY <1>1, <1>2 DEF Sound
<1>4. x.address \in Nat /\ x.size \in Nat /\ End(x) = x.address + x.size
  BY SoundBlocks
<1>5. PICK a, c : a = Block(x.address, k) /\ c = Block(x.address + k, x.size - k)
  OBVIOUS
<1>6. Laid((R \ {x}) \cup {a, c}, g)
  BY <1>1, <1>3, <1>5, SplitLaid
<1>7. a.address = x.address /\ a.size = k /\ c.address = x.address + k /\ c.size = x.size - k
  BY <1>5, BlockIs
<1>8. OnCell(b, a.address) /\ OnCell(b, c.address)
  BY <1>3, <1>4, <1>7, CellSum, GroundIs
<1>9. ASSUME NEW y \in ToSet(s) \cup O PROVE y # a /\ y # c
  <2>1. y # x /\ y.address # x.address /\ y.address \in Nat /\ y.size \in Nat /\ End(y) = y.address + y.size
    <3>1. y # x
      BY <1>3
    <3>. QED BY <3>1, SoundBlocks
  <2>2. y # a
    BY <1>7, <2>1
  <2>3. ASSUME y = c PROVE FALSE
    <3>1. y.size > 0
      BY <1>4, <1>7, <2>3
    <3>2. y \in R
      BY <1>2, <3>1 DEF Real
    <3>3. End(y) <= x.address \/ End(x) <= y.address
      BY <1>3, <2>1, <3>2 DEF Laid
    <3>. QED BY <1>4, <1>7, <2>1, <2>3, <3>3
  <2>. QED BY <2>2, <2>3
<1>10. a # c
  BY <1>4, <1>7
<1>11. Real(s) \cup (O \cup {a, c}) = (R \ {x}) \cup {a, c}
  <2>1. x \notin Real(s)
    BY <1>3 DEF Real
  <2>. QED BY <1>2, <2>1
<1>12. ToSet(s) \cap (O \cup {a, c}) = {}
  BY <1>3, <1>9
<1>13. \A y \in ToSet(s) \cup (O \cup {a, c}) : OnCell(b, y.address)
  BY <1>3, <1>8
<1>14. Sound(s, O \cup {a, c}, b)
  BY <1>1, <1>3, <1>6, <1>11, <1>12, <1>13 DEF Sound
<1>. QED BY <1>5, <1>9, <1>10, <1>14

\* Taking a block off the list leaves nothing to merge.
LEMMA RemoveMerged ==
  ASSUME NEW b \in Builds, NEW s, NEW O, Sound(s, O, b), Merged(s, b), NEW i \in 1..Len(s), s[i].size > 0
  PROVE  Merged(RemoveAt(s, i), b)
<1> SUFFICES ASSUME b.kind = 4 PROVE \A j \in 1..Len(RemoveAt(s, i)) : ~Touch(RemoveAt(s, i), j)
  BY DEF Merged
<1>1. s \in Seq(ListBlock) /\ Ordered(s, b)
  BY DEF Sound, Ordered
<1>2. PICK n \in Nat : n = Len(s)
  BY <1>1
<1>3. PICK r : r = RemoveAt(s, i)
  OBVIOUS
<1>4. Len(r) = n - 1 /\ \A j \in 1..(n - 1) : r[j] = IF j < i THEN s[j] ELSE s[j + 1]
  BY <1>1, <1>2, <1>3, RemoveAtIs
<1>5. \A j \in 1..n : ~Touch(s, j)
  BY <1>2 DEF Merged
<1>6. ASSUME NEW j \in 1..(n - 2), End(r[j]) = r[j + 1].address PROVE FALSE
  <2>0. j \in 1..(n - 1) /\ j + 1 \in 1..(n - 1) /\ (j + 1) + 1 = j + 2 /\ i \in 1..n
    BY <1>2
  <2>1. CASE j + 1 < i
    <3>1. j < i
      BY <2>0, <2>1
    <3>2. r[j] = s[j] /\ r[j + 1] = s[j + 1]
      BY <1>4, <2>0, <2>1, <3>1
    <3>3. Touch(s, j)
      BY <1>2, <1>6, <2>0, <3>2 DEF Touch
    <3>. QED BY <1>5, <2>0, <3>3
  <2>2. CASE j + 1 = i
    <3>1. j < i /\ ~(j + 1 < i)
      BY <2>0, <2>2
    <3>2. r[j] = s[j] /\ r[j + 1] = s[j + 2]
      BY <1>4, <2>0, <3>1
    <3>3. j \in 1..n /\ j + 1 \in 1..n /\ j + 2 \in 1..n /\ j < j + 1 /\ j + 1 < j + 2
      BY <2>0
    <3>4. s[j].address < s[j + 1].address /\ s[j + 1].address < s[j + 2].address
      BY <1>1, <1>2, <3>3 DEF Ordered
    <3>5. s[j].size > 0 => s[j] \in Real(s) \cup O /\ s[j + 1] \in Real(s) \cup O
      <4>1. s[j] \in ToSet(s) /\ s[j + 1] \in ToSet(s)
        BY <1>1, <1>2, <3>3, InSeq
      <4>. QED BY <2>2, <4>1 DEF Real
    <3>6. PICK u \in Nat, v \in Nat, w \in Nat, k \in Nat, l \in Nat :
            /\ u = s[j].address /\ v = s[j + 1].address /\ w = s[j + 2].address
            /\ k = s[j].size /\ l = s[j + 1].size
      BY <1>1, <1>2, <3>3, SizesAre
    <3>7. u + k = w /\ u < v /\ v < w
      BY <1>6, <3>2, <3>4, <3>6, BlockIs
    <3>8. k > 0 /\ l > 0
      BY <2>2, <3>6, <3>7
    <3>9. s[j] = s[j + 1] \/ End(s[j]) <= s[j + 1].address \/ End(s[j + 1]) <= s[j].address
      BY <3>5, <3>6, <3>8 DEF Sound, Laid
    <3>11. End(s[j]) = u + k /\ End(s[j + 1]) = v + l
      BY <3>6 DEF End
    <3>12. s[j] # s[j + 1]
      BY <3>6, <3>7
    <3>10. u + k <= v \/ v + l <= u
      BY <3>6, <3>9, <3>11, <3>12
    <3>. QED BY <3>7, <3>10
  <2>3. CASE j >= i
    <3>1. ~(j < i) /\ ~(j + 1 < i)
      BY <2>0, <2>3
    <3>2. r[j] = s[j + 1] /\ r[j + 1] = s[(j + 1) + 1]
      BY <1>4, <2>0, <3>1
    <3>3. Touch(s, j + 1)
      BY <1>2, <1>6, <2>0, <3>2 DEF Touch
    <3>4. j + 1 \in 1..n
      BY <2>0
    <3>. QED BY <1>5, <3>3, <3>4
  <2>. QED BY <2>0, <2>1, <2>2, <2>3
<1>. QED BY <1>3, <1>4, <1>6 DEF Touch
-----------------------------------------------------------------------------
\* The kernel's invariant.

Placed ==
  /\ Sound(chain, Others(used, freeing, op), build) /\ Merged(chain, build)
  /\ Apart(used, freeing, op) /\ BoundsTrue(heap, build)

\* All that the memory and the kernel's data say is true ...
Raws == ListedTrue(mem, chain) /\ UsedTrue(mem, used, build) /\ EndsTrue(mem, build)
Links == Counts(heap, chain, op) /\ HeadTrue(heap, chain, build) /\ LinksTrue(mem, chain, build)

\* ... and after one fault every size, or all but one size.
ListedBut(m, s, a) == \A i \in 1..Len(s) : s[i].address # a => m[s[i].address].raw = s[i].size
OneOff == Raws \/ (Links /\ \E a : ListedBut(mem, chain, a))

KernelSound ==
  IF Walked THEN Placed /\ (faults = 0 => Raws /\ Links) /\ (faults = 1 => OneOff)
  ELSE /\ chain = << >> /\ used = {} /\ freeing = {} /\ op = NoOp
       /\ \A a \in DOMAIN mem : mem[a].raw = 0

HeapTypes ==
  /\ build \in Builds /\ IsMemory(mem) /\ DOMAIN mem = Cells /\ heap \in Statics
  /\ faults \in Nat /\ writes \in Nat
  /\ at = "idle" => list = NoWalk /\ linear = NoWalk /\ check = "none"

KernelInv == HeapTypes /\ KernelSound

\* The regions stay.
LEMMA SameGround ==
  ASSUME build' = build
  PROVE  Cells' = Cells /\ MarkerOf(build') = MarkerOf(build)
BY DEF Cells, MyRegions

\* A step of the target leaves the reader alone.
LEMMA TypesKept ==
  ASSUME HeapTypes, UNCHANGED <<build, reader>>, IsMemory(mem'), DOMAIN mem' = DOMAIN mem, heap' \in Statics,
         faults' \in Nat, writes' \in Nat
  PROVE  HeapTypes'
BY SameGround DEF HeapTypes, reader, IsMemory

\* The states a step leads to where there is a heap.
LEMMA StaysSound ==
  ASSUME build \in Builds, HasBlocks, build' = build, BoundsTrue(heap', build),
         Sound(chain', Others(used', freeing', op'), build), Merged(chain', build),
         Apart(used', freeing', op'),
         faults' = 0 =>
           /\ ListedTrue(mem', chain') /\ UsedTrue(mem', used', build) /\ EndsTrue(mem', build)
           /\ Counts(heap', chain', op') /\ HeadTrue(heap', chain', build) /\ LinksTrue(mem', chain', build),
         faults' # 1
  PROVE  KernelSound'
<1>1. Placed'
  BY DEF Placed
<1>2. (faults = 0 => Raws /\ Links)'
  BY DEF Raws, Links
<1>3. Walked'
  <2>1. PICK g : g = Regions[build] /\ Ground(g)
    BY GroundIs
  <2>2. 1 \in DOMAIN g
    BY <2>1 DEF Ground
  <2>3. g[1][2] # 0
    BY <2>1, <2>2 DEF Ground, EndAt
  <2>4. heap'.end = MarkerOf(build) /\ heap'.endSize = (IF build.kind = 2 THEN g[1][2] ELSE 0)
    BY <2>1 DEF BoundsTrue
  <2>. QED BY <2>3, <2>4, MarkerIs DEF Walked, Initialised, HasBlocks
<1>. QED BY <1>1, <1>2, <1>3 DEF KernelSound

\* Blocks of different places, as a step sees them.
LEMMA UsedApart ==
  ASSUME build \in Builds, NEW s, NEW O, Sound(s, O, build), NEW x \in O
  PROVE  /\ x \in ListBlock /\ x.address \in Nat /\ x.size \in Nat /\ x.size > 0 /\ x.address \in Cells
         /\ \A i \in 1..Len(s) : s[i].address # x.address
         /\ \A y \in O : y # x => y.address # x.address
         /\ \A k \in DOMAIN Regions[build] : EndAt(Regions[build], k) # x.address
<1>1. x \in ListBlock /\ x.address \in Nat /\ x.size \in Nat /\ x.size > 0 /\ s \in Seq(ListBlock) /\ Inside(x, Regions[build])
  BY SoundBlocks
<1>2. x.address \in Cells
  BY BlocksInCells
<1>3. \A y \in ToSet(s) \cup O : y # x => y.address # x.address
  BY SoundBlocks
<1>4. \A i \in 1..Len(s) : s[i] \in ToSet(s) /\ s[i] # x
  BY <1>1, InSeq DEF Sound
<1>5. \A k \in DOMAIN Regions[build] : EndAt(Regions[build], k) # x.address
  BY <1>1, EndsApart, GroundIs
<1>. QED BY <1>1, <1>2, <1>3, <1>4, <1>5

\* malloc has taken a block off the list.
LEMMA MallocTakesKeeps ==
  ASSUME KernelInv, NEW n \in Sizes, MallocTakes(n)
  PROVE  KernelInv'
<1>1. PICK i \in DOMAIN chain :
        /\ Calls /\ Initialised /\ chain[i].size >= n
        /\ op' = [call |-> "malloc", block |-> chain[i], want |-> n]
        /\ chain' = RemoveAt(chain, i) /\ mem' = Linked(mem, RemoveAt(chain, i))
        /\ heap' = [heap EXCEPT !.head = HeadOf(chain')]
        /\ UNCHANGED <<build, reader, used, freeing, faults, writes>>
  BY DEF MallocTakes
<1>2. Walked
  <2>1. chain # << >>
    BY <1>1
  <2>. QED BY <2>1 DEF KernelInv, KernelSound
<1>3. HeapTypes /\ Placed /\ Raws /\ Links /\ faults = 0 /\ op = NoOp /\ build \in Builds /\ HasBlocks
  BY <1>1, <1>2 DEF KernelInv, KernelSound, Calls, Runs, HeapTypes, Walked
<1>4. PICK O : O = used \cup freeing
  OBVIOUS
<1>5. Others(used, freeing, op) = O
  BY <1>3, <1>4 DEF Others, Hand, NoOp
<1>6. Sound(chain, O, build) /\ Merged(chain, build) /\ chain \in Seq(ListBlock) /\ i \in 1..Len(chain) /\ Len(chain) \in Nat
  BY <1>1, <1>3, <1>5 DEF Placed, Sound, Ordered
<1>7. PICK x : x = chain[i]
  OBVIOUS
<1>8. x \in ListBlock /\ x.size \in Nat /\ x.size >= n /\ n \in Nat /\ n > 0 /\ x.size > 0
  BY <1>1, <1>6, <1>7, SizesAre, HeapAssumption
<1>9. PICK s : s = RemoveAt(chain, i)
  OBVIOUS
<1>10. Sound(s, O \cup {x}, build) /\ Merged(s, build)
  BY <1>3, <1>6, <1>7, <1>8, <1>9, RemoveSound, RemoveMerged
<1>11. op' = [call |-> "malloc", block |-> x, want |-> n]
  BY <1>1, <1>7
<1>12. Others(used, freeing, op') = O \cup {x}
  BY <1>4, <1>11 DEF Others, Hand
<1>13. x \notin O
  BY <1>6, <1>7, InSeq DEF Sound
<1>14. Apart(used, freeing, op')
  <2>1. Hand(op') = {x}
    BY <1>11 DEF Hand
  <2>. QED BY <1>3, <1>4, <1>8, <1>11, <1>13, <2>1 DEF Apart, Placed
<1>15. /\ IsMemory(mem') /\ DOMAIN mem' = Cells /\ LinksTrue(mem', s, build) /\ ListedTrue(mem', s)
       /\ UsedTrue(mem', used, build) /\ EndsTrue(mem', build)
  <2>1. used \subseteq O \cup {x}
    BY <1>4
  <2>2. IsMemory(mem) /\ DOMAIN mem = Cells /\ UsedTrue(mem, used, build) /\ EndsTrue(mem, build)
    BY <1>3 DEF HeapTypes, Raws
  <2>. QED BY <1>1, <1>3, <1>9, <1>10, <2>1, <2>2, LinkedTrue
<1>16. heap' \in Statics /\ BoundsTrue(heap', build) /\ HeadTrue(heap', s, build) /\ heap'.counter = heap.counter
  <2>1. HeadOf(s) \in Nat
    <3>2. s \in Seq(ListBlock)
      BY <1>3, <1>10, SoundBlocks
    <3>1. s # << >> => 1 \in 1..Len(s) /\ s \in Seq(ListBlock)
      BY <3>2, EmptySeq
    <3>. QED BY <1>3, <3>1, SizesAre, MarkerIs DEF HeadOf
  <2>2. HeadOf(s) = IF s = << >> THEN MarkerOf(build) ELSE s[1].address
    BY <1>3, MarkerIs DEF HeadOf
  <2>3. HeadOf(chain') = HeadOf(s)
    BY <1>1, <1>9 DEF HeadOf, EndMarker, MyRegions, LastRegion
  <2>. QED BY <1>1, <1>3, <2>1, <2>2, <2>3 DEF HeapTypes, Statics, Placed, BoundsTrue, HeadTrue
<1>17. Counts(heap', s, op')
  <2>1. PICK t \in Int : t = heap.counter
    BY <1>3 DEF HeapTypes, Statics
  <2>2. SumIs(chain, t)
    <3>1. t - 0 = t
      OBVIOUS
    <3>. QED BY <1>3, <2>1, <3>1 DEF Links, Counts, InHand
  <2>3. SumIs(s, t - x.size) /\ x.size <= t
    BY <1>6, <1>7, <1>9, <2>2, SumRemove, SumCovers
  <2>4. InHand(op') = x.size
    BY <1>11 DEF InHand, NoOp
  <2>. QED BY <1>8, <1>16, <2>1, <2>3, <2>4 DEF Counts
<1>18. HeapTypes'
  BY <1>1, <1>3, <1>15, <1>16, TypesKept DEF HeapTypes
<1>19. KernelSound'
  BY <1>1, <1>3, <1>9, <1>10, <1>12, <1>14, <1>15, <1>16, <1>17, StaysSound
<1>. QED BY <1>18, <1>19 DEF KernelInv

\* The head of a list of blocks.
LEMMA HeadIs ==
  ASSUME build \in Builds, NEW s \in Seq(ListBlock)
  PROVE  HeadOf(s) \in Nat /\ HeadOf(s) = (IF s = << >> THEN MarkerOf(build) ELSE s[1].address)
<1>1. s # << >> => 1 \in 1..Len(s)
  BY EmptySeq
<1>2. s # << >> => s[1].address \in Nat
  BY <1>1, SizesAre
<1>. QED BY <1>2, MarkerIs DEF HeadOf

\* The state a step of the kernel finds where there is a heap.
LEMMA RunsSound ==
  ASSUME KernelInv, Runs, chain # << >> \/ used # {} \/ freeing # {} \/ op # NoOp
  PROVE  /\ HeapTypes /\ Walked /\ Placed /\ Raws /\ Links /\ faults = 0 /\ build \in Builds /\ HasBlocks
         /\ chain \in Seq(ListBlock) /\ heap.counter \in Nat
         /\ IsMemory(mem) /\ DOMAIN mem = Cells /\ UsedTrue(mem, used, build) /\ EndsTrue(mem, build)
         /\ ListedTrue(mem, chain) /\ HeadTrue(heap, chain, build) /\ LinksTrue(mem, chain, build)
         /\ Sound(chain, Others(used, freeing, op), build) /\ Merged(chain, build)
<1>1. Walked /\ HeapTypes
  BY DEF KernelInv, KernelSound
<1>2. Placed /\ Raws /\ Links /\ faults = 0 /\ build \in Builds /\ HasBlocks
  BY <1>1 DEF KernelInv, KernelSound, Runs, HeapTypes, Walked
<1>3. chain \in Seq(ListBlock)
  BY <1>2 DEF Placed, Sound, Ordered
<1>. QED BY <1>1, <1>2, <1>3 DEF HeapTypes, Statics, Placed, Raws, Links

\* malloc has put back what it does not need.
LEMMA MallocFinishesKeeps ==
  ASSUME KernelInv, MallocFinishes
  PROVE  KernelInv'
<1>0. op # NoOp
  BY DEF MallocFinishes, NoOp
<1>1. /\ HeapTypes /\ Walked /\ Placed /\ faults = 0 /\ build \in Builds /\ HasBlocks
      /\ chain \in Seq(ListBlock) /\ heap.counter \in Nat
      /\ IsMemory(mem) /\ DOMAIN mem = Cells /\ UsedTrue(mem, used, build) /\ EndsTrue(mem, build)
      /\ Sound(chain, Others(used, freeing, op), build) /\ Merged(chain, build)
  BY <1>0, RunsSound DEF MallocFinishes
<1>2. PICK x \in ListBlock, n \in Sizes : n <= x.size /\ op = [call |-> "malloc", block |-> x, want |-> n]
  <2>1. op.call = "malloc"
    BY DEF MallocFinishes
  <2>2. Apart(used, freeing, op)
    BY <1>1 DEF Placed
  <2>3. \A y : op # [call |-> "free", block |-> y]
    BY <2>1
  <2>. QED BY <1>0, <2>2, <2>3 DEF Apart
<1>3. op.block = x /\ op.want = n /\ Hand(op) = {x} /\ InHand(op) = x.size
  BY <1>0, <1>2 DEF Hand, InHand
<1>4. PICK U : U = used \cup freeing
  OBVIOUS
<1>5. Sound(chain, U \cup {x}, build) /\ x \notin U /\ used \cap freeing = {} /\ IsFiniteSet(used)
  BY <1>1, <1>3, <1>4 DEF Others, Placed, Apart
<1>6. x.address \in Nat /\ x.size \in Nat /\ n \in Nat \ {0} /\ OnCell(build, n)
  BY <1>1, HeapAssumption DEF ListBlock
<1>7. PICK b : b = Block(x.address, n)
  OBVIOUS
<1>8. PICK c : c = Block(x.address + n, x.size - n)
  OBVIOUS
<1>9. b.address = x.address /\ b.size = n /\ c.size = x.size - n /\ c.size \in Nat /\ c = Block(End(b), x.size - n)
  <2>1. b.address = x.address /\ b.size = n /\ c.size = x.size - n
    BY <1>7, <1>8, BlockIs
  <2>2. End(b) = x.address + n
    BY <2>1 DEF End
  <2>3. x.size - n \in Nat
    BY <1>2, <1>6
  <2>. QED BY <1>8, <2>1, <2>2, <2>3
<1>10. PICK s : s = IF c.size = 0 THEN chain ELSE Inserted(chain, c)
  OBVIOUS
<1>11. /\ chain' = s /\ used' = used \cup {b} /\ mem' = Taken(Linked(mem, s), b)
       /\ heap' = [heap EXCEPT !.head = HeadOf(s), !.counter = heap.counter - b.size]
       /\ op' = NoOp /\ UNCHANGED <<build, reader, freeing, faults, writes>>
  BY <1>3, <1>7, <1>9, <1>10 DEF MallocFinishes
<1>12. SumIs(chain, heap.counter - x.size) /\ heap.counter >= x.size
  BY <1>1, <1>3 DEF KernelInv, KernelSound, Links, Counts
<1>13. /\ Sound(s, U \cup {b}, build) /\ Merged(s, build) /\ b \notin U
       /\ SumIs(s, heap.counter - n) /\ heap.counter - n \in Nat
  <2>1. CASE c.size = 0
    <3>1. x.size = n
      BY <1>6, <1>9, <2>1
    <3>2. b = x
      BY <1>2, <1>7, <3>1, BlockIs
    <3>. QED BY <1>1, <1>5, <1>6, <1>10, <1>12, <2>1, <3>1, <3>2
  <2>2. CASE c.size # 0
    <3>1. n < x.size
      BY <1>2, <1>6, <1>9, <2>2
    <3>2. Sound(chain, U \cup {b, c}, build) /\ c \notin U \cup {b} /\ b \notin U
      BY <1>1, <1>5, <1>6, <1>7, <1>8, <3>1, SplitSound
    <3>3. PICK O : O = U \cup {b}
      OBVIOUS
    <3>4. Sound(chain, O \cup {c}, build) /\ c \notin O
      <4>1. O \cup {c} = U \cup {b, c}
        BY <3>3
      <4>. QED BY <3>2, <3>3, <4>1
    <3>5. PICK t \in Int : t = heap.counter - x.size
      BY <1>1, <1>6
    <3>6. SumIs(chain, t)
      BY <1>12, <3>5
    <3>7. Sound(Inserted(chain, c), O, build) /\ Merged(Inserted(chain, c), build) /\ SumIs(Inserted(chain, c), t + c.size)
      BY <1>1, <3>4, <3>6, InsertedSound
    <3>8. t + c.size = heap.counter - n /\ heap.counter - n \in Nat
      BY <1>1, <1>6, <1>9, <1>12, <3>1, <3>5
    <3>. QED BY <1>10, <2>2, <3>2, <3>3, <3>7, <3>8
  <2>. QED BY <2>1, <2>2
<1>14. Others(used', freeing', op') = U \cup {b}
  BY <1>4, <1>11 DEF Others, Hand, NoOp
<1>15. Apart(used', freeing', op')
  <2>1. Hand(op') = {} /\ op' = NoOp
    BY <1>11 DEF Hand, NoOp
  <2>2. IsFiniteSet(used')
    BY <1>5, <1>11, FS_AddElement
  <2>. QED BY <1>4, <1>5, <1>11, <1>13, <2>1, <2>2 DEF Apart
<1>16. PICK m : m = Linked(mem, s)
  OBVIOUS
<1>17. /\ IsMemory(m) /\ DOMAIN m = Cells /\ LinksTrue(m, s, build) /\ ListedTrue(m, s)
       /\ UsedTrue(m, used, build) /\ EndsTrue(m, build)
  <2>1. used \subseteq U \cup {b}
    BY <1>4
  <2>. QED BY <1>1, <1>13, <1>16, <2>1, LinkedTrue
<1>18. /\ b \in ListBlock /\ b.address \in Nat /\ b.size \in Nat /\ b.address \in Cells
       /\ \A i \in 1..Len(s) : s[i].address # b.address
       /\ \A y \in U : y.address # b.address
       /\ \A k \in DOMAIN Regions[build] : EndAt(Regions[build], k) # b.address
  <2>1. PICK O : O = U \cup {b}
    OBVIOUS
  <2>2. Sound(s, O, build) /\ b \in O
    BY <1>13, <2>1
  <2>3. /\ b \in ListBlock /\ b.address \in Nat /\ b.size \in Nat /\ b.address \in Cells
        /\ \A i \in 1..Len(s) : s[i].address # b.address
        /\ \A y \in O : y # b => y.address # b.address
        /\ \A k \in DOMAIN Regions[build] : EndAt(Regions[build], k) # b.address
    BY <1>1, <2>2, UsedApart
  <2>. QED BY <1>13, <2>1, <2>3
<1>19. PICK e : /\ e \in Header /\ e.raw = RawUsed(b, build) /\ mem' = [m EXCEPT ![b.address] = e]
  <2>1. PICK e : e = IF Masked THEN [next |-> Null, raw |-> b.size + Msb]
                     ELSE [next |-> m[b.address].next, raw |-> b.size]
    OBVIOUS
  <2>2. mem' = [m EXCEPT ![b.address] = e]
    BY <1>11, <1>16, <2>1 DEF Taken
  <2>3. m[b.address].next \in Nat
    BY <1>17, <1>18 DEF IsMemory, Header
  <2>4. b.size + Msb \in Nat
    BY <1>18, WalkAssumption
  <2>5. e.raw = RawUsed(b, build)
    BY <2>1 DEF RawUsed, Masked
  <2>6. e \in Header
    BY <1>18, <2>1, <2>3, <2>4 DEF Header, Null
  <2>. QED BY <2>2, <2>5, <2>6
<1>20. DOMAIN mem' = Cells /\ mem'[b.address] = e /\ \A a \in Cells : a # b.address => mem'[a] = m[a]
  BY <1>17, <1>18, <1>19
<1>21. IsMemory(mem')
  <2>1. \A a \in Cells : mem'[a] \in Header
    BY <1>17, <1>19, <1>20 DEF IsMemory
  <2>2. mem' = [a \in DOMAIN mem' |-> mem'[a]]
    BY <1>17, <1>19
  <2>. QED BY <1>1, <1>20, <2>1, <2>2, CellsAreNat DEF IsMemory
<1>22. s \in Seq(ListBlock) /\ \A i \in 1..Len(s) : s[i].address \in Cells
  <2>1. s \in Seq(ListBlock)
    BY <1>1, <1>13, SoundBlocks
  <2>. QED BY <1>1, <1>13, <2>1, BlocksInCells, InSeq
<1>23. LinksTrue(mem', s, build) /\ ListedTrue(mem', s)
  BY <1>17, <1>18, <1>20, <1>22 DEF LinksTrue, ListedTrue
<1>24. UsedTrue(mem', used \cup {b}, build)
  <2>1. ASSUME NEW y \in used PROVE mem'[y.address].raw = RawUsed(y, build)
    <3>1. y.address \in Cells /\ y.address # b.address
      BY <1>1, <1>4, <1>13, <1>18, BlocksInCells
    <3>. QED BY <1>17, <1>20, <3>1 DEF UsedTrue
  <2>. QED BY <1>19, <1>20, <2>1 DEF UsedTrue
<1>25. EndsTrue(mem', build)
  <2> SUFFICES ASSUME build.kind = 5, NEW k \in DOMAIN Regions[build] PROVE mem'[EndAt(Regions[build], k)].raw = 0
    BY DEF EndsTrue
  <2>1. EndAt(Regions[build], k) \in Cells /\ EndAt(Regions[build], k) # b.address
    BY <1>1, <1>18, EndsInCells
  <2>. QED BY <1>17, <1>20, <2>1 DEF EndsTrue
<1>26. /\ heap' \in Statics /\ BoundsTrue(heap', build) /\ HeadTrue(heap', s, build)
       /\ heap'.counter = heap.counter - n
  <2>1. HeadOf(s) \in Nat /\ HeadOf(s) = (IF s = << >> THEN MarkerOf(build) ELSE s[1].address)
    BY <1>1, <1>22, HeadIs
  <2>2. heap' = [heap EXCEPT !.head = HeadOf(s), !.counter = heap.counter - n]
    BY <1>9, <1>11
  <2>. QED BY <1>1, <1>13, <2>1, <2>2 DEF HeapTypes, Statics, Placed, BoundsTrue, HeadTrue
<1>27. Counts(heap', s, op')
  <2>1. InHand(op') = 0
    BY <1>11 DEF InHand
  <2>2. PICK t \in Nat : t = heap'.counter
    BY <1>13, <1>26
  <2>3. t - 0 = t /\ t >= 0 /\ SumIs(s, t)
    BY <1>13, <1>26, <2>2
  <2>. QED BY <2>1, <2>2, <2>3 DEF Counts
<1>28. HeapTypes'
  BY <1>1, <1>11, <1>20, <1>21, <1>26, TypesKept DEF HeapTypes
<1>29. KernelSound'
  <2>1. /\ Sound(chain', Others(used', freeing', op'), build) /\ Merged(chain', build)
        /\ build' = build /\ faults' = 0
    BY <1>1, <1>11, <1>13, <1>14
  <2>2. /\ ListedTrue(mem', chain') /\ UsedTrue(mem', used', build) /\ EndsTrue(mem', build)
        /\ Counts(heap', chain', op') /\ HeadTrue(heap', chain', build) /\ LinksTrue(mem', chain', build)
    BY <1>11, <1>23, <1>24, <1>25, <1>26, <1>27
  <2>. QED BY <1>1, <1>15, <1>26, <2>1, <2>2, StaysSound
<1>. QED BY <1>28, <1>29 DEF KernelInv
\* A cell that is no header of the free list or of u, nor an end of a region.
LEMMA CellWritten ==
  ASSUME build \in Builds, NEW m, IsMemory(m), DOMAIN m = Cells, NEW s, NEW O, Sound(s, O, build),
         NEW u, u \subseteq O, NEW a \in Cells, NEW e \in Header,
         LinksTrue(m, s, build), ListedTrue(m, s), UsedTrue(m, u, build), EndsTrue(m, build),
         \A i \in 1..Len(s) : s[i].address # a, \A y \in u : y.address # a,
         build.kind = 5 => \A k \in DOMAIN Regions[build] : EndAt(Regions[build], k) # a
  PROVE  LET w == [m EXCEPT ![a] = e]
         IN /\ IsMemory(w) /\ DOMAIN w = Cells
            /\ LinksTrue(w, s, build) /\ ListedTrue(w, s) /\ UsedTrue(w, u, build) /\ EndsTrue(w, build)
<1>1. PICK w : w = [m EXCEPT ![a] = e]
  OBVIOUS
<1>2. DOMAIN w = Cells /\ w[a] = e /\ \A c \in Cells : c # a => w[c] = m[c]
  BY <1>1
<1>3. IsMemory(w)
  <2>1. \A c \in Cells : w[c] \in Header
    BY <1>2 DEF IsMemory
  <2>2. w = [c \in DOMAIN w |-> w[c]]
    BY <1>1
  <2>. QED BY <1>2, <2>1, <2>2, CellsAreNat DEF IsMemory
<1>4. s \in Seq(ListBlock) /\ \A i \in 1..Len(s) : s[i].address \in Cells
  <2>1. s \in Seq(ListBlock)
    BY SoundBlocks
  <2>. QED BY <2>1, BlocksInCells, InSeq
<1>5. LinksTrue(w, s, build) /\ ListedTrue(w, s)
  BY <1>2, <1>4 DEF LinksTrue, ListedTrue
<1>6. UsedTrue(w, u, build)
  <2>1. \A y \in u : y.address \in Cells
    BY BlocksInCells
  <2>. QED BY <1>2, <2>1 DEF UsedTrue
<1>7. EndsTrue(w, build)
  <2> SUFFICES ASSUME build.kind = 5, NEW k \in DOMAIN Regions[build] PROVE w[EndAt(Regions[build], k)].raw = 0
    BY DEF EndsTrue
  <2>1. EndAt(Regions[build], k) \in Cells
    BY EndsInCells
  <2>. QED BY <1>2, <2>1 DEF EndsTrue
<1>. QED BY <1>1, <1>2, <1>3, <1>5, <1>6, <1>7

\* free has cleared the bit of a block.
LEMMA FreeClearsKeeps ==
  ASSUME KernelInv, NEW x \in used, FreeClears(x)
  PROVE  KernelInv'
<1>1. /\ HeapTypes /\ Walked /\ Placed /\ Raws /\ Links /\ faults = 0 /\ build \in Builds /\ HasBlocks
      /\ chain \in Seq(ListBlock) /\ heap.counter \in Nat
      /\ IsMemory(mem) /\ DOMAIN mem = Cells /\ UsedTrue(mem, used, build) /\ EndsTrue(mem, build)
      /\ ListedTrue(mem, chain) /\ HeadTrue(heap, chain, build) /\ LinksTrue(mem, chain, build)
      /\ Sound(chain, Others(used, freeing, op), build) /\ Merged(chain, build)
  BY RunsSound DEF FreeClears
<1>2. /\ used' = used \ {x} /\ freeing' = freeing \cup {x} /\ mem' = [mem EXCEPT ![x.address].raw = x.size]
      /\ UNCHANGED <<build, heap, reader, chain, op, faults, writes>>
  BY DEF FreeClears
<1>3. Others(used', freeing', op') = Others(used, freeing, op)
  BY <1>2 DEF Others
<1>4. Apart(used', freeing', op')
  <2>1. IsFiniteSet(used) /\ used \cap freeing = {} /\ (used \cup freeing) \cap Hand(op) = {}
    BY <1>1 DEF Placed, Apart
  <2>2. IsFiniteSet(used')
    BY <1>2, <2>1, FS_RemoveElement
  <2>3. used' \cup freeing' = used \cup freeing /\ used' \cap freeing' = {} /\ op' = op
    BY <1>2, <2>1
  <2>4. (used' \cup freeing') \cap Hand(op') = {}
    BY <2>1, <2>3
  <2>. QED BY <1>1, <1>2, <2>2, <2>3, <2>4 DEF Apart, Placed
<1>5. PICK O : O = Others(used, freeing, op)
  OBVIOUS
<1>6. x \in O /\ used' \subseteq O /\ \A y \in used' : y # x /\ y \in O
  BY <1>2, <1>5 DEF Others
<1>7. /\ x.size \in Nat /\ x.address \in Cells
      /\ \A i \in 1..Len(chain) : chain[i].address # x.address
      /\ \A y \in O : y # x => y.address # x.address
      /\ \A k \in DOMAIN Regions[build] : EndAt(Regions[build], k) # x.address
  BY <1>1, <1>5, <1>6, UsedApart
<1>8. PICK e : e = [mem[x.address] EXCEPT !.raw = x.size]
  OBVIOUS
<1>9. e \in Header /\ mem' = [mem EXCEPT ![x.address] = e]
  <2>1. mem[x.address] \in Header
    BY <1>1, <1>7 DEF IsMemory
  <2>2. e \in Header
    BY <1>7, <1>8, <2>1 DEF Header
  <2>. QED BY <1>1, <1>2, <1>7, <1>8, <2>2
<1>10. UsedTrue(mem, used', build)
  BY <1>1, <1>2 DEF UsedTrue
<1>11. PICK a \in Cells : a = x.address
  BY <1>7
<1>12. /\ \A i \in 1..Len(chain) : chain[i].address # a
       /\ \A y \in used' : y.address # a
       /\ \A k \in DOMAIN Regions[build] : EndAt(Regions[build], k) # a
  BY <1>6, <1>7, <1>11
<1>13. /\ IsMemory(mem') /\ DOMAIN mem' = Cells
       /\ LinksTrue(mem', chain, build) /\ ListedTrue(mem', chain)
       /\ UsedTrue(mem', used', build) /\ EndsTrue(mem', build)
  BY <1>1, <1>5, <1>6, <1>9, <1>10, <1>11, <1>12, CellWritten
<1>14. HeapTypes'
  BY <1>1, <1>2, <1>13, TypesKept DEF HeapTypes
<1>15. KernelSound'
  <2>1. /\ Sound(chain', Others(used', freeing', op'), build) /\ Merged(chain', build)
        /\ build' = build /\ faults' = 0 /\ BoundsTrue(heap', build)
    BY <1>1, <1>2, <1>3 DEF Placed
  <2>2. /\ ListedTrue(mem', chain') /\ UsedTrue(mem', used', build) /\ EndsTrue(mem', build)
        /\ Counts(heap', chain', op') /\ HeadTrue(heap', chain', build) /\ LinksTrue(mem', chain', build)
    BY <1>1, <1>2, <1>13 DEF Links
  <2>. QED BY <1>1, <1>4, <2>1, <2>2, StaysSound
<1>. QED BY <1>14, <1>15 DEF KernelInv

\* free has counted it.
LEMMA FreeCountsKeeps ==
  ASSUME KernelInv, NEW x \in freeing, FreeCounts(x)
  PROVE  KernelInv'
<1>1. /\ HeapTypes /\ Walked /\ Placed /\ Raws /\ Links /\ faults = 0 /\ build \in Builds /\ HasBlocks
      /\ heap.counter \in Nat
      /\ IsMemory(mem) /\ DOMAIN mem = Cells /\ UsedTrue(mem, used, build) /\ EndsTrue(mem, build)
      /\ ListedTrue(mem, chain) /\ HeadTrue(heap, chain, build) /\ LinksTrue(mem, chain, build)
      /\ Sound(chain, Others(used, freeing, op), build) /\ Merged(chain, build)
  BY RunsSound DEF FreeCounts, Calls
<1>2. /\ op = NoOp /\ op' = [call |-> "free", block |-> x]
      /\ heap' = [heap EXCEPT !.counter = heap.counter + x.size]
      /\ UNCHANGED <<build, mem, reader, chain, used, freeing, faults, writes>>
  BY DEF FreeCounts, Calls
<1>3. Hand(op) = {} /\ Hand(op') = {} /\ op' # NoOp /\ InHand(op) = 0 /\ InHand(op') = x.size
  BY <1>2 DEF Hand, NoOp, InHand
<1>4. Others(used', freeing', op') = Others(used, freeing, op) /\ x \in Others(used, freeing, op)
  BY <1>2, <1>3 DEF Others
<1>5. x.size \in Nat
  BY <1>1, <1>4, UsedApart
<1>6. Apart(used', freeing', op')
  <2>1. IsFiniteSet(used) /\ used \cap freeing = {}
    BY <1>1 DEF Placed, Apart
  <2>2. \E y \in freeing' : op' = [call |-> "free", block |-> y]
    BY <1>2
  <2>. QED BY <1>2, <1>3, <2>1, <2>2 DEF Apart
<1>7. PICK t \in Nat, k \in Nat : t = heap.counter /\ k = x.size
  BY <1>1, <1>5
<1>8. heap' \in Statics /\ BoundsTrue(heap', build) /\ HeadTrue(heap', chain, build) /\ heap'.counter = t + k
  <2>1. t + k \in Nat
    OBVIOUS
  <2>. QED BY <1>1, <1>2, <1>7, <2>1 DEF HeapTypes, Statics, Placed, BoundsTrue, HeadTrue
<1>9. Counts(heap', chain, op')
  <2>1. SumIs(chain, t)
    <3>1. t - 0 = t
      OBVIOUS
    <3>. QED BY <1>1, <1>3, <1>7, <3>1 DEF Links, Counts
  <2>2. (t + k) - k = t /\ t + k >= k
    OBVIOUS
  <2>. QED BY <1>3, <1>7, <1>8, <2>1, <2>2 DEF Counts
<1>14. HeapTypes'
  BY <1>1, <1>2, <1>8, TypesKept DEF HeapTypes
<1>15. KernelSound'
  <2>1. /\ Sound(chain', Others(used', freeing', op'), build) /\ Merged(chain', build)
        /\ build' = build /\ faults' = 0
    BY <1>1, <1>2, <1>4
  <2>2. /\ ListedTrue(mem', chain') /\ UsedTrue(mem', used', build) /\ EndsTrue(mem', build)
        /\ Counts(heap', chain', op') /\ HeadTrue(heap', chain', build) /\ LinksTrue(mem', chain', build)
    BY <1>1, <1>2, <1>8, <1>9
  <2>. QED BY <1>1, <1>6, <1>8, <2>1, <2>2, StaysSound
<1>. QED BY <1>14, <1>15 DEF KernelInv

\* free has inserted it.
LEMMA FreeInsertsKeeps ==
  ASSUME KernelInv, FreeInserts
  PROVE  KernelInv'
<1>0. op # NoOp
  BY DEF FreeInserts, NoOp
<1>1. /\ HeapTypes /\ Walked /\ Placed /\ Raws /\ Links /\ faults = 0 /\ build \in Builds /\ HasBlocks
      /\ chain \in Seq(ListBlock) /\ heap.counter \in Nat
      /\ IsMemory(mem) /\ DOMAIN mem = Cells /\ UsedTrue(mem, used, build) /\ EndsTrue(mem, build)
      /\ Sound(chain, Others(used, freeing, op), build) /\ Merged(chain, build)
  BY <1>0, RunsSound DEF FreeInserts
<1>2. PICK x \in freeing : op = [call |-> "free", block |-> x]
  <2>1. op.call = "free"
    BY DEF FreeInserts
  <2>2. Apart(used, freeing, op)
    BY <1>1 DEF Placed
  <2>3. \A y, n : op # [call |-> "malloc", block |-> y, want |-> n]
    BY <2>1
  <2>. QED BY <1>0, <2>2, <2>3 DEF Apart
<1>3. op.block = x /\ Hand(op) = {} /\ InHand(op) = x.size
  BY <1>0, <1>2 DEF Hand, InHand
<1>4. PICK s : s = Inserted(chain, x)
  OBVIOUS
<1>5. /\ chain' = s /\ mem' = Linked(mem, chain') /\ heap' = [heap EXCEPT !.head = HeadOf(chain')]
      /\ freeing' = freeing \ {x} /\ op' = NoOp /\ UNCHANGED <<build, reader, used, faults, writes>>
  BY <1>3, <1>4 DEF FreeInserts
<1>6. PICK O : O = used \cup (freeing \ {x})
  OBVIOUS
<1>7. x \notin O /\ O \cup {x} = Others(used, freeing, op) /\ Others(used', freeing', op') = O
  <2>1. used \cap freeing = {}
    BY <1>1 DEF Placed, Apart
  <2>2. Hand(op') = {}
    BY <1>5 DEF Hand, NoOp
  <2>. QED BY <1>3, <1>5, <1>6, <2>1, <2>2 DEF Others
<1>8. Sound(chain, O \cup {x}, build)
  BY <1>1, <1>7
<1>9. x.size \in Nat
  <2>1. PICK P : P = O \cup {x}
    OBVIOUS
  <2>2. Sound(chain, P, build) /\ x \in P
    BY <1>8, <2>1
  <2>. QED BY <1>1, <2>2, UsedApart
<1>10. PICK t \in Nat, k \in Nat : t = heap.counter /\ k = x.size /\ t >= k
  BY <1>1, <1>3, <1>9 DEF Links, Counts
<1>11. SumIs(chain, t - k) /\ t - k \in Int /\ (t - k) + k = t
  BY <1>1, <1>3, <1>10 DEF Links, Counts
<1>12. Sound(s, O, build) /\ Merged(s, build) /\ SumIs(s, t)
  <2>1. PICK v \in Int : v = t - k
    BY <1>11
  <2>2. SumIs(chain, v) /\ v + x.size = t
    BY <1>10, <1>11, <2>1
  <2>3. Sound(s, O, build) /\ Merged(s, build) /\ SumIs(s, v + x.size)
    BY <1>1, <1>4, <1>7, <1>8, <2>2, InsertedSound
  <2>. QED BY <2>2, <2>3
<1>13. /\ IsMemory(mem') /\ DOMAIN mem' = Cells /\ LinksTrue(mem', s, build) /\ ListedTrue(mem', s)
       /\ UsedTrue(mem', used, build) /\ EndsTrue(mem', build)
  <2>1. used \subseteq O
    BY <1>6
  <2>. QED BY <1>1, <1>5, <1>12, <2>1, LinkedTrue
<1>14. /\ heap' \in Statics /\ BoundsTrue(heap', build) /\ HeadTrue(heap', s, build)
       /\ heap'.counter = t
  <2>0. s \in Seq(ListBlock)
    BY <1>1, <1>12, SoundBlocks
  <2>1. HeadOf(s) \in Nat /\ HeadOf(s) = (IF s = << >> THEN MarkerOf(build) ELSE s[1].address)
    BY <1>1, <2>0, HeadIs
  <2>3. HeadOf(chain') = HeadOf(s)
    BY <1>5 DEF HeadOf, EndMarker, MyRegions, LastRegion
  <2>. QED BY <1>1, <1>5, <1>10, <2>1, <2>3 DEF HeapTypes, Statics, Placed, BoundsTrue, HeadTrue
<1>15. Counts(heap', s, op')
  <2>1. InHand(op') = 0 /\ t - 0 = t
    BY <1>5 DEF InHand
  <2>. QED BY <1>12, <1>14, <2>1 DEF Counts
<1>16. Apart(used', freeing', op')
  <2>1. Hand(op') = {} /\ op' = NoOp
    BY <1>5 DEF Hand, NoOp
  <2>2. IsFiniteSet(used) /\ used \cap freeing = {}
    BY <1>1 DEF Placed, Apart
  <2>. QED BY <1>5, <2>1, <2>2 DEF Apart
<1>17. HeapTypes'
  BY <1>1, <1>5, <1>13, <1>14, TypesKept DEF HeapTypes
<1>18. KernelSound'
  <2>1. /\ Sound(chain', Others(used', freeing', op'), build) /\ Merged(chain', build)
        /\ build' = build /\ faults' = 0
    BY <1>1, <1>5, <1>7, <1>12
  <2>2. /\ ListedTrue(mem', chain') /\ UsedTrue(mem', used', build) /\ EndsTrue(mem', build)
        /\ Counts(heap', chain', op') /\ HeadTrue(heap', chain', build) /\ LinksTrue(mem', chain', build)
    BY <1>5, <1>13, <1>14, <1>15
  <2>. QED BY <1>1, <1>14, <1>16, <2>1, <2>2, StaysSound
<1>. QED BY <1>17, <1>18 DEF KernelInv

\* A task has written its own memory, where no header is.
LEMMA TaskWritesKeeps ==
  ASSUME KernelInv, NEW x \in used, NEW a \in DOMAIN mem, NEW h \in Forged, TaskWrites(x, a, h)
  PROVE  KernelInv'
<1>1. /\ HeapTypes /\ Walked /\ Placed /\ Raws /\ Links /\ faults = 0 /\ build \in Builds /\ HasBlocks
      /\ chain \in Seq(ListBlock)
      /\ IsMemory(mem) /\ DOMAIN mem = Cells /\ UsedTrue(mem, used, build) /\ EndsTrue(mem, build)
      /\ ListedTrue(mem, chain) /\ HeadTrue(heap, chain, build) /\ LinksTrue(mem, chain, build)
      /\ Sound(chain, Others(used, freeing, op), build) /\ Merged(chain, build)
  BY RunsSound DEF TaskWrites
<1>2. /\ a > x.address /\ a < End(x) /\ mem' = [mem EXCEPT ![a] = h] /\ writes' = writes + 1
      /\ UNCHANGED <<build, heap, reader, chain, used, freeing, op, faults>>
  BY DEF TaskWrites, kernel
<1>3. PICK O : O = Others(used, freeing, op)
  OBVIOUS
<1>4. x \in O /\ used \subseteq O /\ Sound(chain, O, build)
  BY <1>1, <1>3 DEF Others
<1>5. PICK g : g = Regions[build] /\ Ground(g)
  BY <1>1, GroundIs
<1>6. a \in Nat /\ a \in Cells
  BY <1>1 DEF IsMemory
<1>7. x \in ListBlock /\ x.address \in Nat /\ x.size \in Nat /\ End(x) = x.address + x.size /\ Inside(x, g) /\ x.size > 0
  BY <1>1, <1>4, <1>5, SoundBlocks
<1>8. \A k \in DOMAIN g : EndAt(g, k) # a
  <2> SUFFICES ASSUME NEW k \in DOMAIN g, EndAt(g, k) = a PROVE FALSE
    OBVIOUS
  <2>1. EndAt(g, k) < x.address \/ End(x) <= EndAt(g, k)
    BY <1>5, <1>7, EndsApart
  <2>. QED BY <1>2, <1>6, <1>7, <2>1
<1>9. ASSUME NEW y \in ToSet(chain) \cup O, y.address = a PROVE FALSE
  <2>1. y.address \in Nat /\ y.size \in Nat /\ End(y) = y.address + y.size
    BY <1>1, <1>4, SoundBlocks
  <2>2. CASE y \in Real(chain) \cup O
    <3>1. y = x \/ End(y) <= x.address \/ End(x) <= y.address
      BY <1>4, <2>2 DEF Sound, Laid
    <3>. QED BY <1>2, <1>6, <1>7, <1>9, <2>1, <3>1
  <2>3. CASE y \notin Real(chain) \cup O
    <3>1. PICK k \in DOMAIN g : y.address = EndAt(g, k)
      BY <1>1, <1>4, <1>5, <2>3, SoundBlocks
    <3>. QED BY <1>8, <1>9, <3>1
  <2>. QED BY <2>2, <2>3
<1>10. (\A i \in 1..Len(chain) : chain[i].address # a) /\ (\A y \in used : y.address # a)
  BY <1>1, <1>4, <1>9, InSeq
<1>11. h \in Header
  BY HeapAssumption
<1>12. /\ IsMemory(mem') /\ DOMAIN mem' = Cells
       /\ LinksTrue(mem', chain, build) /\ ListedTrue(mem', chain)
       /\ UsedTrue(mem', used, build) /\ EndsTrue(mem', build)
  BY <1>1, <1>2, <1>4, <1>5, <1>6, <1>8, <1>10, <1>11, CellWritten
<1>14. HeapTypes'
  BY <1>1, <1>2, <1>12, TypesKept DEF HeapTypes
<1>15. KernelSound'
  <2>1. /\ Sound(chain', Others(used', freeing', op'), build) /\ Merged(chain', build)
        /\ build' = build /\ faults' = 0 /\ BoundsTrue(heap', build) /\ Apart(used', freeing', op')
    BY <1>1, <1>2 DEF Placed
  <2>2. /\ ListedTrue(mem', chain') /\ UsedTrue(mem', used', build) /\ EndsTrue(mem', build)
        /\ Counts(heap', chain', op') /\ HeadTrue(heap', chain', build) /\ LinksTrue(mem', chain', build)
    BY <1>1, <1>2, <1>12 DEF Links
  <2>. QED BY <1>1, <2>1, <2>2, StaysSound
<1>. QED BY <1>14, <1>15 DEF KernelInv

\* One word overwritten: what was true stays so, but for that word.
LEMMA OverwritesKeeps ==
  ASSUME KernelInv, NEW w \in Words, Overwrites(w)
  PROVE  KernelInv'
<1>1. /\ op = NoOp /\ freeing = {} /\ Initialised /\ faults' = faults + 1
      /\ UNCHANGED <<build, reader, chain, used, freeing, op, writes>>
  BY DEF Overwrites, kernel
<1>2. HeapTypes /\ build \in Builds /\ IsMemory(mem) /\ DOMAIN mem = Cells /\ heap \in Statics /\ faults \in Nat
  BY DEF KernelInv, HeapTypes
<1>3. w \in Nat
  BY HeapAssumption
<1>4. \/ \E a \in Structure : mem' = [mem EXCEPT ![a].next = w] /\ heap' = heap
      \/ \E a \in Structure : mem' = [mem EXCEPT ![a].raw = w] /\ heap' = heap
      \/ heap' = [heap EXCEPT !.head = w] /\ mem' = mem
      \/ heap' = [heap EXCEPT !.counter = w] /\ mem' = mem
  BY DEF Overwrites
<1>5. ASSUME Walked PROVE Structure \subseteq Cells /\ (\A i \in 1..Len(chain) : chain[i].address \in Cells)
                          /\ (\A y \in used : y.address \in Cells)
  <2>1. Sound(chain, Others(used, freeing, op), build) /\ chain \in Seq(ListBlock)
    BY <1>5 DEF KernelInv, KernelSound, Placed, Sound, Ordered
  <2>2. \A x \in ToSet(chain) \cup Others(used, freeing, op) : x.address \in Cells
    BY <1>2, <2>1, BlocksInCells
  <2>. QED BY <2>1, <2>2, InSeq DEF Structure, Others
<1>6. ASSUME ~Walked PROVE Structure = {} /\ chain = << >>
  BY <1>6 DEF KernelInv, KernelSound, Structure, ToSet
<1>7. Structure \subseteq DOMAIN mem
  BY <1>2, <1>5, <1>6
<1>8. heap' \in Statics /\ (BoundsTrue(heap, build) => BoundsTrue(heap', build))
      /\ heap'.end = heap.end /\ heap'.endSize = heap.endSize
  BY <1>2, <1>3, <1>4 DEF Statics, BoundsTrue
<1>9. IsMemory(mem') /\ DOMAIN mem' = DOMAIN mem
  <2>1. CASE mem' = mem
    BY <1>2, <2>1
  <2>2. ASSUME NEW a \in Structure, mem' = [mem EXCEPT ![a].next = w] \/ mem' = [mem EXCEPT ![a].raw = w]
        PROVE  IsMemory(mem') /\ DOMAIN mem' = DOMAIN mem
    <3>1. mem[a] \in Header /\ a \in DOMAIN mem
      BY <1>2, <1>7 DEF IsMemory
    <3>2. PICK e : e \in Header /\ mem' = [mem EXCEPT ![a] = e]
      <4>1. CASE mem' = [mem EXCEPT ![a].next = w]
        <5>1. PICK e : e = [mem[a] EXCEPT !.next = w]
          OBVIOUS
        <5>2. e \in Header
          BY <1>3, <3>1, <5>1 DEF Header
        <5>. QED BY <4>1, <5>1, <5>2
      <4>2. CASE mem' = [mem EXCEPT ![a].raw = w]
        <5>1. PICK e : e = [mem[a] EXCEPT !.raw = w]
          OBVIOUS
        <5>2. e \in Header
          BY <1>3, <3>1, <5>1 DEF Header
        <5>. QED BY <4>2, <5>1, <5>2
      <4>. QED BY <2>2, <4>1, <4>2
    <3>3. DOMAIN mem' = DOMAIN mem /\ \A c \in DOMAIN mem : mem'[c] \in Header
      BY <1>2, <3>1, <3>2 DEF IsMemory
    <3>4. mem' = [c \in DOMAIN mem' |-> mem'[c]]
      BY <3>2, <1>2 DEF IsMemory
    <3>. QED BY <1>2, <3>3, <3>4 DEF IsMemory
  <2>. QED BY <1>4, <2>1, <2>2
<1>10. HeapTypes'
  <2>1. faults + 1 \in Nat /\ writes \in Nat
    BY <1>2 DEF HeapTypes
  <2>. QED BY <1>1, <1>2, <1>8, <1>9, <2>1, TypesKept
<1>11. Walked' = Walked
  BY <1>1, <1>8 DEF Walked, HasBlocks, Initialised
<1>12. ASSUME ~Walked PROVE KernelSound'
  <2>1. mem' = mem
    BY <1>4, <1>6, <1>12
  <2>. QED BY <1>1, <1>11, <1>12, <2>1 DEF KernelInv, KernelSound
<1>13. ASSUME Walked PROVE KernelSound'
  <2>1. Placed /\ (faults = 0 => Raws /\ Links)
    BY <1>13 DEF KernelInv, KernelSound
  <2>2. Placed'
    <3>1. Sound(chain', Others(used', freeing', op'), build') /\ Merged(chain', build') /\ Apart(used', freeing', op')
      BY <1>1, <2>1 DEF Placed
    <3>2. BoundsTrue(heap', build')
      BY <1>1, <1>8, <2>1 DEF Placed
    <3>. QED BY <3>1, <3>2 DEF Placed
  <2>3. faults' # 0 /\ (faults' = 1 => faults = 0)
    BY <1>1, <1>2
  <2>4. ASSUME faults = 0 PROVE OneOff'
    <3>0. Raws /\ Links /\ chain' = chain /\ used' = used /\ op' = op /\ build' = build
      BY <1>1, <2>1, <2>4
    <3>1. CASE mem' = mem
      <4>1. Raws'
        BY <3>0, <3>1 DEF Raws
      <4>. QED BY <4>1 DEF OneOff
    <3>2. ASSUME NEW a \in Structure, mem' = [mem EXCEPT ![a].next = w] PROVE OneOff'
      <4>1. \A c \in Cells : mem'[c].raw = mem[c].raw
        <5> SUFFICES ASSUME NEW c \in Cells PROVE mem'[c].raw = mem[c].raw
          OBVIOUS
        <5>1. mem[c] \in Header
          BY <1>2 DEF IsMemory
        <5>2. mem'[c] = mem[c] \/ mem'[c] = [mem[c] EXCEPT !.next = w]
          BY <1>2, <1>7, <3>2
        <5>. QED BY <5>1, <5>2 DEF Header
      <4>2. ListedTrue(mem', chain) /\ UsedTrue(mem', used, build)
        BY <1>5, <1>13, <3>0, <4>1 DEF Raws, ListedTrue, UsedTrue
      <4>3. EndsTrue(mem', build)
        <5> SUFFICES ASSUME build.kind = 5, NEW k \in DOMAIN Regions[build] PROVE mem'[EndAt(Regions[build], k)].raw = 0
          BY DEF EndsTrue
        <5>1. EndAt(Regions[build], k) \in Cells /\ mem[EndAt(Regions[build], k)].raw = 0
          BY <1>2, <3>0, EndsInCells DEF Raws, EndsTrue
        <5>. QED BY <4>1, <5>1
      <4>4. Raws'
        BY <3>0, <4>2, <4>3 DEF Raws
      <4>. QED BY <4>4 DEF OneOff
    <3>3. ASSUME NEW a \in Structure, mem' = [mem EXCEPT ![a].raw = w], heap' = heap PROVE OneOff'
      <4>1. \A c \in Cells : mem'[c].next = mem[c].next /\ (c # a => mem'[c].raw = mem[c].raw)
        <5> SUFFICES ASSUME NEW c \in Cells PROVE mem'[c].next = mem[c].next /\ (c # a => mem'[c].raw = mem[c].raw)
          OBVIOUS
        <5>1. mem[c] \in Header
          BY <1>2 DEF IsMemory
        <5>2. (c # a => mem'[c] = mem[c]) /\ (c = a => mem'[c] = [mem[c] EXCEPT !.raw = w])
          BY <1>2, <1>7, <3>3
        <5>. QED BY <5>1, <5>2 DEF Header
      <4>2. LinksTrue(mem', chain, build) /\ ListedBut(mem', chain, a)
        BY <1>5, <1>13, <3>0, <4>1 DEF Raws, Links, LinksTrue, ListedTrue, ListedBut
      <4>3. Links'
        BY <3>0, <3>3, <4>2 DEF Links
      <4>4. ListedBut(mem', chain', a)
        BY <3>0, <4>2
      <4>. QED BY <4>3, <4>4 DEF OneOff
    <3>. QED BY <1>4, <3>1, <3>2, <3>3
  <2>5. (IF Walked THEN Placed /\ (faults = 0 => Raws /\ Links) /\ (faults = 1 => OneOff) ELSE TRUE)'
    BY <2>2, <2>3, <2>4
  <2>. QED BY <1>11, <1>13, <2>5 DEF KernelSound
<1>. QED BY <1>10, <1>12, <1>13 DEF KernelInv

\* While GDB reads, the target is halted.
LEMMA ReaderKeeps ==
  ASSUME KernelInv, Read, UNCHANGED <<kernel, faults, writes>>
  PROVE  KernelInv'
<1>1. at' # "idle" /\ UNCHANGED target
  BY DEF Read, BeginSnapshot, ListStops, ListStep, LinearStops, LinearStep, CrossValidate
<1>2. build' = build /\ mem' = mem /\ heap' = heap
  BY <1>1 DEF target
<1>3. chain' = chain /\ used' = used /\ freeing' = freeing /\ op' = op /\ faults' = faults /\ writes' = writes
  BY DEF kernel
<1>4. HeapTypes'
  BY <1>1, <1>2, <1>3, SameGround DEF KernelInv, HeapTypes, IsMemory
<1>5. Walked' = Walked /\ Placed' = Placed /\ Raws' = Raws /\ Links' = Links /\ OneOff' = OneOff
  BY <1>2, <1>3 DEF Walked, HasBlocks, Initialised, Placed, Raws, Links, OneOff
<1>. QED BY <1>2, <1>3, <1>4, <1>5 DEF KernelInv, KernelSound

\* The target goes on.
LEMMA ContinueKeeps ==
  ASSUME KernelInv, Continue
  PROVE  KernelInv'
<1>2. build' = build /\ mem' = mem /\ heap' = heap /\ list' = NoWalk /\ linear' = NoWalk /\ check' = "none"
  BY DEF Continue, target
<1>3. chain' = chain /\ used' = used /\ freeing' = freeing /\ op' = op /\ faults' = faults /\ writes' = writes
  BY DEF Continue, kernel
<1>4. HeapTypes'
  BY <1>2, <1>3, SameGround DEF KernelInv, HeapTypes, IsMemory
<1>5. Walked' = Walked /\ Placed' = Placed /\ Raws' = Raws /\ Links' = Links /\ OneOff' = OneOff
  BY <1>2, <1>3 DEF Walked, HasBlocks, Initialised, Placed, Raws, Links, OneOff
<1>. QED BY <1>2, <1>3, <1>4, <1>5 DEF KernelInv, KernelSound

\* Nothing changes.
LEMMA StutterKeptKernel ==
  ASSUME KernelInv, UNCHANGED vars
  PROVE  KernelInv'
<1>2. /\ build' = build /\ mem' = mem /\ heap' = heap
      /\ at' = at /\ list' = list /\ linear' = linear /\ check' = check
  BY DEF vars, walkVars, target, reader
<1>3. chain' = chain /\ used' = used /\ freeing' = freeing /\ op' = op /\ faults' = faults /\ writes' = writes
  BY DEF vars, kernel
<1>4. HeapTypes'
  BY <1>2, <1>3, SameGround DEF KernelInv, HeapTypes, IsMemory
<1>5. Walked' = Walked /\ Placed' = Placed /\ Raws' = Raws /\ Links' = Links /\ OneOff' = OneOff
  BY <1>2, <1>3 DEF Walked, HasBlocks, Initialised, Placed, Raws, Links, OneOff
<1>. QED BY <1>2, <1>3, <1>4, <1>5 DEF KernelInv, KernelSound
-----------------------------------------------------------------------------
\* The heap as it is first defined.

\* The bytes of the first regions.
LEMMA TotalIs ==
  ASSUME build \in Builds
  PROVE  \E f \in [0..Len(MyRegions) -> Nat] :
           /\ f[0] = 0 /\ (\A i \in 1..Len(MyRegions) : f[i] = f[i - 1] + MyRegions[i][2])
           /\ TotalBytes = f[Len(MyRegions)]
<1>1. PICK g : g = MyRegions /\ Ground(g)
  BY GroundIs DEF MyRegions
<1>2. PICK n \in Nat : n = Len(g) /\ DOMAIN g = 1..n
  BY <1>1 DEF Ground
<1>3. \A i \in 1..n : g[i][2] \in Nat
  BY <1>1, <1>2 DEF Ground
<1>4. PICK S : S = {m \in 0..n : \E f \in [0..m -> Nat] : f[0] = 0 /\ \A i \in 1..m : f[i] = f[i - 1] + g[i][2]}
  OBVIOUS
<1>5. 0 \in S
  <2>1. PICK f : f = [i \in 0..0 |-> 0]
    OBVIOUS
  <2>2. f \in [0..0 -> Nat] /\ f[0] = 0
    BY <2>1
  <2>. QED BY <1>4, <2>2
<1>6. ASSUME NEW m \in 1..n, m - 1 \in S PROVE m \in S
  <2>1. PICK f \in [0..(m - 1) -> Nat] : f[0] = 0 /\ \A i \in 1..(m - 1) : f[i] = f[i - 1] + g[i][2]
    BY <1>4, <1>6
  <2>2. PICK h : h = [i \in 0..m |-> IF i = m THEN f[m - 1] + g[m][2] ELSE f[i]]
    OBVIOUS
  <2>3. f[m - 1] \in Nat /\ f[m - 1] + g[m][2] \in Nat
    BY <1>3, <2>1
  <2>4. h \in [0..m -> Nat]
    <3>1. \A i \in 0..m : i # m => f[i] \in Nat
      BY <2>1
    <3>. QED BY <2>2, <2>3, <3>1
  <2>5. \A i \in 0..(m - 1) : h[i] = f[i]
    BY <2>2
  <2>6. h[m] = h[m - 1] + g[m][2]
    BY <2>2
  <2>7. \A i \in 1..m : h[i] = h[i - 1] + g[i][2]
    <3> SUFFICES ASSUME NEW i \in 1..m, i # m PROVE h[i] = h[i - 1] + g[i][2]
      BY <2>6
    <3>1. i \in 1..(m - 1) /\ i \in 0..(m - 1) /\ i - 1 \in 0..(m - 1)
      OBVIOUS
    <3>. QED BY <2>1, <2>5, <3>1
  <2>8. h[0] = 0
    BY <2>1, <2>5
  <2>9. \E e \in [0..m -> Nat] : e[0] = 0 /\ \A i \in 1..m : e[i] = e[i - 1] + g[i][2]
    BY <2>4, <2>7, <2>8
  <2>10. m \in 0..n
    OBVIOUS
  <2>. QED BY <1>4, <2>9, <2>10, Zenon
<1>7. n \in S
  BY <1>5, <1>6, UpTo
<1>8. PICK f \in [0..n -> Nat] : f[0] = 0 /\ \A i \in 1..n : f[i] = f[i - 1] + g[i][2]
  BY <1>4, <1>7
<1> DEFINE Body(h) == [i \in 0..Len(MyRegions) |-> IF i = 0 THEN 0 ELSE h[i - 1] + MyRegions[i][2]]
<1>9. f = Body(f)
  <2>1. \A i \in 0..n : f[i] = IF i = 0 THEN 0 ELSE f[i - 1] + g[i][2]
    BY <1>8
  <2>. QED BY <1>1, <1>2, <1>8, <2>1
<1>10. PICK h : h = Body(h) /\ TotalBytes = h[Len(MyRegions)]
  <2>1. PICK h : h = CHOOSE e : e = Body(e)
    OBVIOUS
  <2>2. h = Body(h)
    BY <1>9, <2>1
  <2>3. TotalBytes = h[Len(MyRegions)]
    BY <2>1 DEF TotalBytes
  <2>. QED BY <2>2, <2>3
<1>11. \A i \in 0..n : h[i] = IF i = 0 THEN 0 ELSE h[i - 1] + g[i][2]
  <2>1. PICK k : k = Body(h)
    OBVIOUS
  <2>2. \A i \in 0..n : k[i] = IF i = 0 THEN 0 ELSE h[i - 1] + g[i][2]
    BY <1>1, <1>2, <2>1
  <2>. QED BY <1>10, <2>1, <2>2
<1>12. PICK T : T = {m \in 0..n : h[m] = f[m]}
  OBVIOUS
<1>13. 0 \in T
  BY <1>8, <1>11, <1>12
<1>14. ASSUME NEW m \in 1..n, m - 1 \in T PROVE m \in T
  BY <1>8, <1>11, <1>12, <1>14
<1>15. n \in T
  <2>1. 0..n \subseteq T
    BY <1>13, <1>14, UpTo
  <2>. QED BY <2>1
<1>16. TotalBytes = f[n]
  BY <1>1, <1>2, <1>10, <1>12, <1>15
<1>. QED BY <1>1, <1>2, <1>8, <1>16

\* A block per region, and the empty blocks between them.
LEMMA FirstIs ==
  ASSUME build \in Builds, NEW g, g = MyRegions, NEW n \in Nat, n = Len(g)
  PROVE  /\ FirstChain \in Seq(ListBlock) /\ Len(FirstChain) = 2 * n - 1 /\ n >= 1
         /\ \A j \in 1..n : FirstChain[2 * j - 1] = Block(g[j][1], g[j][2])
         /\ \A j \in 1..(n - 1) : FirstChain[2 * j] = Block(EndAt(g, j), 0)
         /\ \A i \in 1..(2 * n - 1) : \/ \E j \in 1..n : i = 2 * j - 1
                                      \/ \E j \in 1..(n - 1) : i = 2 * j
<1>1. Ground(g) /\ DOMAIN g = 1..n /\ n >= 1
  BY GroundIs DEF MyRegions, Ground
<1>2. \A j \in 1..n : g[j][1] \in Nat /\ g[j][2] \in Nat /\ EndAt(g, j) \in Nat /\ EndAt(g, j) = g[j][1] + g[j][2]
  BY <1>1 DEF Ground, EndAt
<1>3. PICK s : s = FirstChain
  OBVIOUS
<1>4. s = [i \in 1..(2 * n - 1) |-> IF i % 2 = 1 THEN Block(g[(i + 1) \div 2][1], g[(i + 1) \div 2][2])
                                    ELSE Block(g[(i + 1) \div 2][1] + g[(i + 1) \div 2][2], 0)]
  BY <1>3 DEF FirstChain
<1>5. \A i \in 1..(2 * n - 1) : \/ \E j \in 1..n : i = 2 * j - 1
                                \/ \E j \in 1..(n - 1) : i = 2 * j
  <2> SUFFICES ASSUME NEW i \in 1..(2 * n - 1)
               PROVE  (\E j \in 1..n : i = 2 * j - 1) \/ (\E j \in 1..(n - 1) : i = 2 * j)
    OBVIOUS
  <2>1. PICK q \in Int : q = i \div 2
    OBVIOUS
  <2>2. i = 2 * q \/ i = 2 * q + 1
    BY <2>1
  <2>3. CASE i = 2 * q
    <3>1. q \in 1..(n - 1)
      BY <2>3
    <3>. QED BY <2>3, <3>1
  <2>4. CASE i = 2 * q + 1
    <3>1. q + 1 \in 1..n /\ i = 2 * (q + 1) - 1
      BY <2>4
    <3>. QED BY <3>1
  <2>. QED BY <2>2, <2>3, <2>4
<1>6. ASSUME NEW j \in 1..n PROVE s[2 * j - 1] = Block(g[j][1], g[j][2])
  <2>1. PICK i \in 1..(2 * n - 1) : i = 2 * j - 1
    OBVIOUS
  <2>2. i % 2 = 1 /\ (i + 1) \div 2 = j
    BY <2>1
  <2>. QED BY <1>4, <2>1, <2>2
<1>7. ASSUME NEW j \in 1..(n - 1) PROVE s[2 * j] = Block(EndAt(g, j), 0)
  <2>1. PICK i \in 1..(2 * n - 1) : i = 2 * j
    OBVIOUS
  <2>2. i % 2 # 1 /\ (i + 1) \div 2 = j /\ j \in 1..n
    BY <2>1
  <2>. QED BY <1>2, <1>4, <2>1, <2>2
<1>8. \A i \in 1..(2 * n - 1) : s[i] \in ListBlock
  <2> SUFFICES ASSUME NEW i \in 1..(2 * n - 1) PROVE s[i] \in ListBlock
    OBVIOUS
  <2>1. ASSUME NEW j \in 1..n, i = 2 * j - 1 PROVE s[i] \in ListBlock
    <3>1. s[i] = Block(g[j][1], g[j][2])
      BY <1>6, <2>1
    <3>2. g[j][1] \in Nat /\ g[j][2] \in Nat
      BY <1>2
    <3>. QED BY <3>1, <3>2, BlockIs
  <2>2. ASSUME NEW j \in 1..(n - 1), i = 2 * j PROVE s[i] \in ListBlock
    <3>1. EndAt(g, j) \in Nat /\ 0 \in Nat
      BY <1>2
    <3>. QED BY <1>7, <2>2, <3>1, BlockIs
  <2>. QED BY <1>5, <2>1, <2>2
<1>9. s \in Seq(ListBlock) /\ Len(s) = 2 * n - 1
  <2>1. 2 * n - 1 \in Nat
    BY <1>1
  <2>. QED BY <1>4, <1>8, <2>1
<1>. QED BY <1>1, <1>3, <1>5, <1>6, <1>7, <1>9

\* The counter starts at the bytes of the regions.
LEMMA FirstSum == build \in Builds => SumIs(FirstChain, TotalBytes) /\ TotalBytes \in Nat
<1> SUFFICES ASSUME build \in Builds PROVE SumIs(FirstChain, TotalBytes) /\ TotalBytes \in Nat
  OBVIOUS
<1>1. PICK g : g = MyRegions /\ Ground(g)
  BY GroundIs DEF MyRegions
<1>2. PICK n \in Nat : n = Len(g) /\ n >= 1
  <2>1. 1 \in 1..Len(g) /\ Len(g) \in Nat
    BY <1>1 DEF Ground
  <2>2. Len(g) >= 1
    BY <2>1
  <2>. QED BY <2>1, <2>2
<1>3. PICK f \in [0..n -> Nat] : f[0] = 0 /\ (\A j \in 1..n : f[j] = f[j - 1] + g[j][2]) /\ TotalBytes = f[n]
  BY <1>1, <1>2, TotalIs
<1>4. PICK s : s = FirstChain
  OBVIOUS
<1>5. /\ Len(s) = 2 * n - 1
      /\ \A j \in 1..n : s[2 * j - 1] = Block(g[j][1], g[j][2])
      /\ \A j \in 1..(n - 1) : s[2 * j] = Block(EndAt(g, j), 0)
      /\ \A i \in 1..(2 * n - 1) : (\E j \in 1..n : i = 2 * j - 1) \/ \E j \in 1..(n - 1) : i = 2 * j
  BY <1>1, <1>2, <1>4, FirstIs
<1>6. PICK p : p = [i \in 0..(2 * n - 1) |-> f[(i + 1) \div 2]]
  OBVIOUS
<1>7. ASSUME NEW i \in 0..(2 * n - 1) PROVE (i + 1) \div 2 \in 0..n
  OBVIOUS
<1>8. p \in [0..(2 * n - 1) -> Int]
  BY <1>3, <1>6, <1>7
<1>9. \A j \in 0..n : 2 * j \in 0..(2 * n - 1) => p[2 * j] = f[j]
  <2> SUFFICES ASSUME NEW j \in 0..n, 2 * j \in 0..(2 * n - 1) PROVE p[2 * j] = f[j]
    OBVIOUS
  <2>1. (2 * j + 1) \div 2 = j
    OBVIOUS
  <2>. QED BY <1>6, <2>1
<1>10. \A j \in 1..n : p[2 * j - 1] = f[j]
  <2> SUFFICES ASSUME NEW j \in 1..n PROVE p[2 * j - 1] = f[j]
    OBVIOUS
  <2>1. PICK i \in 0..(2 * n - 1) : i = 2 * j - 1
    OBVIOUS
  <2>2. (i + 1) \div 2 = j
    BY <2>1
  <2>. QED BY <1>6, <2>1, <2>2
<1>11. p[0] = 0
  <2>1. 0 \in 0..n /\ 2 * 0 \in 0..(2 * n - 1)
    BY <1>2
  <2>. QED BY <1>3, <1>9, <2>1
<1>12. p[2 * n - 1] = TotalBytes
  BY <1>2, <1>3, <1>10
<1>13. ASSUME NEW i \in 1..(2 * n - 1) PROVE p[i] = p[i - 1] + s[i].size
  <2>1. ASSUME NEW j \in 1..n, i = 2 * j - 1 PROVE p[i] = p[i - 1] + s[i].size
    <3>5. s[i] = Block(g[j][1], g[j][2])
      BY <1>5, <2>1
    <3>1. s[i].size = g[j][2]
      BY <3>5 DEF Block
    <3>2. j - 1 \in 0..n /\ 2 * (j - 1) = i - 1 /\ i - 1 \in 0..(2 * n - 1)
      BY <2>1
    <3>3. p[i - 1] = f[j - 1]
      BY <1>9, <3>2
    <3>4. p[i] = f[j]
      BY <1>10, <2>1
    <3>. QED BY <1>3, <3>1, <3>3, <3>4
  <2>2. ASSUME NEW j \in 1..(n - 1), i = 2 * j PROVE p[i] = p[i - 1] + s[i].size
    <3>6. s[i] = Block(EndAt(g, j), 0)
      BY <1>5, <2>2
    <3>1. s[i].size = 0
      BY <3>6, BlockIs
    <3>2. j \in 0..n /\ 2 * j \in 0..(2 * n - 1) /\ j \in 1..n
      BY <2>2
    <3>3. p[i] = f[j]
      BY <1>9, <2>2, <3>2
    <3>4. p[i - 1] = f[j]
      BY <1>10, <2>2, <3>2
    <3>5. f[j] \in Nat
      BY <1>3, <3>2
    <3>. QED BY <3>1, <3>3, <3>4, <3>5
  <2>. QED BY <1>5, <2>1, <2>2
<1>14. SumIs(s, TotalBytes)
  BY <1>5, <1>8, <1>11, <1>12, <1>13 DEF SumIs
<1>15. TotalBytes \in Nat
  BY <1>3
<1>. QED BY <1>4, <1>14, <1>15

\* The first free list is sound: it is all there is.
LEMMA FirstSound ==
  ASSUME build \in Builds, HasBlocks
  PROVE  Sound(FirstChain, {}, build) /\ Merged(FirstChain, build) /\ FirstChain # << >>
<1>1. PICK g : g = MyRegions /\ g = Regions[build] /\ Ground(g)
  BY GroundIs DEF MyRegions
<1>2. PICK n \in Nat : n = Len(g) /\ n >= 1 /\ DOMAIN g = 1..n
  BY <1>1 DEF Ground
<1>3. PICK s : s = FirstChain
  OBVIOUS
<1>4. /\ s \in Seq(ListBlock) /\ Len(s) = 2 * n - 1
      /\ \A j \in 1..n : s[2 * j - 1] = Block(g[j][1], g[j][2])
      /\ \A j \in 1..(n - 1) : s[2 * j] = Block(EndAt(g, j), 0)
      /\ \A i \in 1..(2 * n - 1) : (\E j \in 1..n : i = 2 * j - 1) \/ \E j \in 1..(n - 1) : i = 2 * j
  BY <1>1, <1>2, <1>3, FirstIs
<1>5. \A j \in 1..n : /\ g[j][1] \in Nat /\ g[j][2] \in Nat /\ EndAt(g, j) \in Nat /\ EndAt(g, j) = g[j][1] + g[j][2]
                      /\ g[j][1] < EndAt(g, j) /\ g[j][2] > 0
  BY <1>1, <1>2 DEF Ground, EndAt
<1>6. \A j, k \in 1..n : j < k => EndAt(g, j) < g[k][1]
  BY <1>1, <1>2 DEF Ground
\* What the block at i is.
<1>7. ASSUME NEW i \in 1..(2 * n - 1)
      PROVE  \E j \in 1..n : \/ i = 2 * j - 1 /\ s[i].address = g[j][1] /\ s[i].size = g[j][2]
                             \/ i = 2 * j /\ j \in 1..(n - 1) /\ s[i].address = EndAt(g, j) /\ s[i].size = 0
  <2>1. ASSUME NEW j \in 1..n, i = 2 * j - 1 PROVE s[i].address = g[j][1] /\ s[i].size = g[j][2]
    <3>1. s[i] = Block(g[j][1], g[j][2])
      BY <1>4, <2>1
    <3>. QED BY <3>1 DEF Block
  <2>2. ASSUME NEW j \in 1..(n - 1), i = 2 * j PROVE s[i].address = EndAt(g, j) /\ s[i].size = 0 /\ j \in 1..n
    <3>1. s[i] = Block(EndAt(g, j), 0)
      BY <1>4, <2>2
    <3>. QED BY <3>1 DEF Block
  <2>. QED BY <1>4, <2>1, <2>2
<1>8. \A i, j \in 1..(2 * n - 1) : i < j => s[i].address < s[j].address
  <2> SUFFICES ASSUME NEW i \in 1..(2 * n - 1), NEW j \in 1..(2 * n - 1), i < j PROVE s[i].address < s[j].address
    OBVIOUS
  <2>1. PICK k \in 1..n : \/ i = 2 * k - 1 /\ s[i].address = g[k][1]
                          \/ i = 2 * k /\ s[i].address = EndAt(g, k)
    BY <1>7
  <2>2. PICK l \in 1..n : \/ j = 2 * l - 1 /\ s[j].address = g[l][1]
                          \/ j = 2 * l /\ s[j].address = EndAt(g, l)
    BY <1>7
  <2>3. PICK a \in Nat, c \in Nat, d \in Nat, e \in Nat :
          a = g[k][1] /\ c = EndAt(g, k) /\ d = g[l][1] /\ e = EndAt(g, l) /\ a < c /\ d < e
    BY <1>5
  <2>4. k = l \/ k < l
    BY <2>1, <2>2
  <2>5. CASE k < l
    <3>1. c < d
      BY <1>6, <2>3, <2>5
    <3>. QED BY <2>1, <2>2, <2>3, <3>1
  <2>6. CASE k = l
    <3>1. i = 2 * k - 1 /\ j = 2 * l
      BY <2>1, <2>2, <2>6
    <3>2. s[i].address = a /\ s[j].address = e /\ a < e
      BY <2>1, <2>2, <2>3, <2>6, <3>1
    <3>. QED BY <3>2
  <2>. QED BY <2>4, <2>5, <2>6
<1>9. \A i \in 1..(2 * n - 1) : s[i].address \in Nat
  BY <1>4, SizesAre
<1>10. \A i, j \in 1..(2 * n - 1) : s[i].address = s[j].address => i = j
  <2> SUFFICES ASSUME NEW i \in 1..(2 * n - 1), NEW j \in 1..(2 * n - 1), s[i].address = s[j].address PROVE i = j
    OBVIOUS
  <2>1. i < j \/ j < i \/ i = j
    OBVIOUS
  <2>. QED BY <1>8, <1>9, <2>1
<1>11. ASSUME NEW i \in 1..(2 * n - 1), s[i].size = 0
       PROVE  build.kind = 5 /\ \E k \in 1..(Len(g) - 1) : s[i].address = EndAt(g, k)
  <2>1. PICK j \in 1..n : \/ i = 2 * j - 1 /\ s[i].size = g[j][2]
                          \/ j \in 1..(n - 1) /\ s[i].address = EndAt(g, j)
    BY <1>7
  <2>2. j \in 1..(n - 1) /\ s[i].address = EndAt(g, j)
    BY <1>5, <1>11, <2>1
  <2>3. build.kind = 5
    <3>1. n # 1
      BY <2>2
    <3>2. build.kind # 5 => Len(Regions[build]) = 1
      BY GroundIs
    <3>. QED BY <1>1, <1>2, <3>1, <3>2
  <2>. QED BY <1>2, <2>2, <2>3
<1>12. Ordered(s, build)
  BY <1>1, <1>4, <1>8, <1>10, <1>11 DEF Ordered
\* The blocks of a size are the regions.
<1>13. ASSUME NEW x \in Real(s) PROVE \E j \in 1..n : x.address = g[j][1] /\ x.size = g[j][2]
  <2>1. PICK i \in 1..(2 * n - 1) : x = s[i]
    BY <1>4, InSeq DEF Real
  <2>2. x.size > 0
    BY DEF Real
  <2>3. s[i].size # 0
    BY <2>1, <2>2
  <2>. QED BY <1>7, <2>1, <2>3
<1>14. \A x \in Real(s) : x \in ListBlock /\ x.size > 0 /\ x.address \in Nat /\ x.size \in Nat /\ End(x) = x.address + x.size
  <2> SUFFICES ASSUME NEW x \in Real(s)
               PROVE  x \in ListBlock /\ x.size > 0 /\ x.address \in Nat /\ x.size \in Nat /\ End(x) = x.address + x.size
    OBVIOUS
  <2>1. x \in ToSet(s) /\ x.size > 0
    BY DEF Real
  <2>2. x \in ListBlock
    BY <1>4, <2>1, InSeq
  <2>. QED BY <2>1, <2>2, BlockIs
<1>15. ASSUME NEW x \in Real(s) PROVE Inside(x, g) /\ Follower(x, Real(s), g)
  <2>1. PICK j \in 1..n : x.address = g[j][1] /\ x.size = g[j][2]
    BY <1>13
  <2>2. End(x) = EndAt(g, j)
    BY <1>5, <1>14, <2>1
  <2>3. g[j][1] <= x.address /\ End(x) <= EndAt(g, j)
    BY <1>5, <2>1, <2>2
  <2>. QED BY <1>2, <2>2, <2>3 DEF Inside, Follower
<1>16. \E x \in Real(s) : x.address = g[1][1]
  <2>1. 1 \in 1..(2 * n - 1) /\ 1 \in 1..n /\ 2 * 1 - 1 = 1
    BY <1>2
  <2>2. s[1] = Block(g[1][1], g[1][2])
    BY <1>4, <2>1
  <2>3. s[1].address = g[1][1] /\ s[1].size = g[1][2]
    BY <2>2 DEF Block
  <2>4. s[1] \in Real(s)
    BY <1>4, <1>5, <2>1, <2>3, InSeq DEF Real
  <2>. QED BY <2>3, <2>4
<1>17. ASSUME NEW x \in Real(s), NEW y \in Real(s) PROVE x = y \/ End(x) <= y.address \/ End(y) <= x.address
  <2>1. PICK j \in 1..n : x.address = g[j][1] /\ x.size = g[j][2]
    BY <1>13
  <2>2. PICK k \in 1..n : y.address = g[k][1] /\ y.size = g[k][2]
    BY <1>13
  <2>3. End(x) = EndAt(g, j) /\ End(y) = EndAt(g, k)
    BY <1>5, <1>14, <2>1, <2>2
  <2>4. CASE j = k
    <3>1. x = Block(x.address, x.size) /\ y = Block(y.address, y.size)
      BY <1>14, BlockIs
    <3>. QED BY <2>1, <2>2, <2>4, <3>1
  <2>5. CASE j < k
    BY <1>5, <1>6, <2>1, <2>2, <2>3, <2>5
  <2>6. CASE k < j
    BY <1>5, <1>6, <2>1, <2>2, <2>3, <2>6
  <2>. QED BY <2>4, <2>5, <2>6
<1>18. Laid(Real(s), g)
  BY <1>14, <1>15, <1>16, <1>17 DEF Laid
<1>19. \A x \in ToSet(s) : OnCell(build, x.address)
  <2> SUFFICES ASSUME NEW x \in ToSet(s) PROVE OnCell(build, x.address)
    OBVIOUS
  <2>1. PICK i \in 1..(2 * n - 1) : x = s[i]
    BY <1>4, InSeq
  <2>2. PICK j \in 1..n : \/ i = 2 * j - 1 /\ s[i].address = g[j][1]
                          \/ j \in 1..(n - 1) /\ s[i].address = EndAt(g, j) /\ s[i].size = 0
    BY <1>7
  <2>3. OnCell(build, g[j][1]) /\ (build.kind # 2 => OnCell(build, EndAt(g, j)))
    BY <1>1, <1>2, GroundIs
  <2>4. s[i].size = 0 => build.kind # 2
    BY <1>11
  <2>. QED BY <2>1, <2>2, <2>3, <2>4
<1>20. Sound(s, {}, build)
  BY <1>1, <1>12, <1>18, <1>19 DEF Sound
<1>21. Merged(s, build)
  <2> SUFFICES ASSUME build.kind = 4, NEW i \in 1..Len(s), Touch(s, i) PROVE FALSE
    BY DEF Merged
  <2>1. n = 1
    BY <1>1, <1>2, GroundIs
  <2>2. i \in 1..0
    BY <1>4, <2>1 DEF Touch
  <2>. QED BY <2>2
<1>22. s # << >>
  <2>1. Len(s) # 0
    BY <1>2, <1>4
  <2>. QED BY <2>1
<1>. QED BY <1>3, <1>20, <1>21, <1>22

\* The heap has been defined.
LEMMA DefinesHeapKeeps ==
  ASSUME KernelInv, DefinesHeap
  PROVE  KernelInv'
<1>1. /\ HasBlocks /\ ~Initialised /\ faults = 0 /\ op = NoOp /\ chain' = FirstChain
      /\ heap' = [head |-> HeadOf(FirstChain), end |-> EndMarker,
                  endSize |-> IF build.kind = 2 THEN MyRegions[1][2] ELSE 0,
                  counter |-> TotalBytes,
                  base |-> MyRegions[1][1], high |-> LastRegion[1] + LastRegion[2] + 2]
      /\ mem' = Linked([mem EXCEPT ![EndMarker] = [next |-> Null, raw |-> 0]], FirstChain)
      /\ UNCHANGED <<build, reader, used, freeing, op, faults, writes>>
  BY DEF DefinesHeap, Calls, Runs
<1>2. ~Walked
  BY <1>1 DEF Walked
<1>3. HeapTypes /\ build \in Builds /\ IsMemory(mem) /\ DOMAIN mem = Cells
  BY DEF KernelInv, HeapTypes
<1>4. used = {} /\ freeing = {} /\ \A a \in DOMAIN mem : mem[a].raw = 0
  BY <1>2 DEF KernelInv, KernelSound
<1>5. Sound(FirstChain, {}, build) /\ Merged(FirstChain, build)
  BY <1>1, <1>3, FirstSound
<1>6. FirstChain \in Seq(ListBlock)
  BY <1>3, <1>5, SoundBlocks
<1>7. PICK m : m = [mem EXCEPT ![EndMarker] = [next |-> Null, raw |-> 0]]
  OBVIOUS
<1>8. EndMarker \in Cells /\ EndMarker \in Nat /\ EndMarker = MarkerOf(build)
  BY <1>3, EndsInCells, MarkerIs
<1>9. PICK e : e = [next |-> Null, raw |-> 0]
  OBVIOUS
<1>10. e \in Header /\ e.raw = 0
  BY <1>9 DEF Header, Null
<1>11. DOMAIN m = Cells /\ m[EndMarker] = e /\ \A a \in Cells : a # EndMarker => m[a] = mem[a]
  BY <1>3, <1>7, <1>8, <1>9
<1>12. IsMemory(m)
  <2>1. \A a \in Cells : m[a] \in Header
    BY <1>3, <1>10, <1>11 DEF IsMemory
  <2>2. m = [a \in DOMAIN m |-> m[a]]
    BY <1>3, <1>7
  <2>. QED BY <1>3, <1>11, <2>1, <2>2, CellsAreNat DEF IsMemory
<1>13. \A a \in Cells : m[a].raw = 0
  BY <1>3, <1>4, <1>10, <1>11
<1>14. UsedTrue(m, {}, build) /\ EndsTrue(m, build)
  BY <1>3, <1>13, EndsInCells DEF UsedTrue, EndsTrue
<1>15. /\ IsMemory(mem') /\ DOMAIN mem' = Cells
       /\ LinksTrue(mem', FirstChain, build) /\ ListedTrue(mem', FirstChain)
       /\ UsedTrue(mem', {}, build) /\ EndsTrue(mem', build)
  <2>1. mem' = Linked(m, FirstChain)
    BY <1>1, <1>7
  <2>2. PICK u, O : u = {} /\ O = {}
    OBVIOUS
  <2>3. Sound(FirstChain, O, build) /\ u \subseteq O /\ UsedTrue(m, u, build)
    BY <1>5, <1>14, <2>2
  <2>. QED BY <1>3, <1>11, <1>12, <1>14, <2>1, <2>2, <2>3, LinkedTrue
<1>16. PICK g : g = Regions[build] /\ Ground(g)
  BY <1>3, GroundIs
<1>17. MyRegions = g /\ LastRegion[1] + LastRegion[2] = EndAt(g, Len(g))
  BY <1>16 DEF MyRegions, LastRegion, EndAt
<1>18. g[1][1] \in Nat /\ g[1][2] \in Nat /\ EndAt(g, Len(g)) \in Nat
  <2>1. 1 \in DOMAIN g /\ Len(g) \in DOMAIN g
    BY <1>16 DEF Ground
  <2>. QED BY <1>16, <2>1 DEF Ground
<1>19. HeadOf(FirstChain) \in Nat /\ HeadOf(FirstChain) = (IF FirstChain = << >> THEN MarkerOf(build) ELSE FirstChain[1].address)
  BY <1>3, <1>6, HeadIs
<1>20. SumIs(FirstChain, TotalBytes) /\ TotalBytes \in Nat
  BY <1>3, FirstSum
<1>21. heap' \in Statics
  <2>1. EndAt(g, Len(g)) + 2 \in Nat
    BY <1>18
  <2>2. (IF build.kind = 2 THEN g[1][2] ELSE 0) \in Nat
    BY <1>18
  <2>3. heap' = [head |-> HeadOf(FirstChain), end |-> EndMarker,
                 endSize |-> IF build.kind = 2 THEN g[1][2] ELSE 0,
                 counter |-> TotalBytes, base |-> g[1][1], high |-> EndAt(g, Len(g)) + 2]
    BY <1>1, <1>17
  <2>. QED BY <1>8, <1>18, <1>19, <1>20, <2>1, <2>2, <2>3 DEF Statics
<1>22. /\ BoundsTrue(heap', build) /\ HeadTrue(heap', FirstChain, build)
       /\ heap'.counter = TotalBytes
  BY <1>1, <1>8, <1>16, <1>17, <1>19 DEF BoundsTrue, HeadTrue
<1>23. Counts(heap', FirstChain, op')
  <2>1. InHand(op') = 0
    BY <1>1 DEF InHand
  <2>2. PICK t \in Nat : t = TotalBytes
    BY <1>20
  <2>3. t - 0 = t /\ t >= 0
    OBVIOUS
  <2>. QED BY <1>20, <1>22, <2>1, <2>2, <2>3 DEF Counts
<1>24. Others(used', freeing', op') = {} /\ Apart(used', freeing', op')
  <2>1. Hand(op') = {} /\ op' = NoOp /\ used' = {} /\ freeing' = {}
    BY <1>1, <1>4 DEF Hand, NoOp
  <2>. QED BY <2>1, FS_EmptySet DEF Others, Apart
<1>25. HeapTypes'
  BY <1>1, <1>3, <1>15, <1>21, TypesKept DEF HeapTypes
<1>26. KernelSound'
  <2>1. /\ Sound(chain', Others(used', freeing', op'), build) /\ Merged(chain', build)
        /\ build' = build /\ faults' = 0
    BY <1>1, <1>5, <1>24
  <2>2. /\ ListedTrue(mem', chain') /\ UsedTrue(mem', used', build) /\ EndsTrue(mem', build)
        /\ Counts(heap', chain', op') /\ HeadTrue(heap', chain', build) /\ LinksTrue(mem', chain', build)
    BY <1>1, <1>4, <1>15, <1>22, <1>23
  <2>. QED BY <1>1, <1>3, <1>22, <1>24, <2>1, <2>2, StaysSound
<1>. QED BY <1>25, <1>26 DEF KernelInv

\* There is no heap at first.
LEMMA KernelStarts == Init => KernelInv /\ WalkInit
<1> SUFFICES ASSUME Init PROVE KernelInv /\ WalkInit
  OBVIOUS
<1>1. /\ build \in Builds /\ mem = [a \in Cells |-> [next |-> Null, raw |-> 0]]
      /\ heap = [Blank EXCEPT !.end = IF build.kind = 2 THEN XEnd ELSE Null,
                              !.base = IF build.kind = 5 THEN Null ELSE MyRegions[1][1]]
      /\ at = "idle" /\ list = NoWalk /\ linear = NoWalk /\ check = "none"
      /\ chain = << >> /\ used = {} /\ freeing = {} /\ op = NoOp /\ faults = 0 /\ writes = 0
  BY DEF Init
<1>2. PICK g : g = Regions[build] /\ Ground(g)
  BY <1>1, GroundIs
<1>3. MyRegions[1][1] \in Nat /\ Cells \subseteq Nat
  <2>1. 1 \in DOMAIN g
    BY <1>2 DEF Ground
  <2>. QED BY <1>1, <1>2, <2>1, CellsAreNat DEF MyRegions, Ground
<1>4. PICK e : e = [next |-> Null, raw |-> 0]
  OBVIOUS
<1>5. e \in Header /\ e.raw = 0
  BY <1>4 DEF Header, Null
<1>6. mem = [a \in Cells |-> e]
  BY <1>1, <1>4
<1>7. IsMemory(mem) /\ DOMAIN mem = Cells /\ \A a \in DOMAIN mem : mem[a].raw = 0
  BY <1>3, <1>5, <1>6 DEF IsMemory
<1>8. heap \in Statics /\ heap.endSize = 0 /\ (build.kind # 2 => heap.end = Null)
  <2>1. (IF build.kind = 2 THEN XEnd ELSE Null) \in Nat /\ (IF build.kind = 5 THEN Null ELSE MyRegions[1][1]) \in Nat
    BY <1>3 DEF XEnd, Null
  <2>. QED BY <1>1, <2>1 DEF Blank, Statics
<1>9. ~Walked
  BY <1>8 DEF Walked, HasBlocks, Initialised
<1>10. KernelSound
  BY <1>1, <1>7, <1>9 DEF KernelSound
<1>11. HeapTypes
  BY <1>1, <1>7, <1>8 DEF HeapTypes
<1>. QED BY <1>1, <1>7, <1>8, <1>10, <1>11 DEF KernelInv, WalkInit

\* Each step keeps the kernel's invariant, and to the reader of the target it is
\* one of a walk or a target that has resumed.
LEMMA KernelKeeps ==
  ASSUME KernelInv, [Next]_vars
  PROVE  KernelInv' /\ [WalkNext]_walkVars
<1>1. CASE UNCHANGED vars
  <2>1. UNCHANGED walkVars
    BY <1>1 DEF vars
  <2>. QED BY <1>1, <2>1, StutterKeptKernel
<1>2. CASE ReaderStep
  BY <1>2, ReaderKeeps DEF ReaderStep, WalkNext
<1>3. CASE Continue
  <2>1. KernelInv'
    BY <1>3, ContinueKeeps
  <2>2. Resume
    BY <1>3, <2>1 DEF Continue, Resume, target, KernelInv, HeapTypes
  <2>. QED BY <2>1, <2>2 DEF WalkNext
<1>4. ASSUME KernelInv', at = "idle", UNCHANGED <<build, reader>> PROVE Resume
  <2>1. at' = "idle" /\ list' = NoWalk /\ linear' = NoWalk /\ check' = "none"
    BY <1>4 DEF KernelInv, HeapTypes, reader
  <2>. QED BY <1>4, <2>1 DEF Resume, KernelInv, HeapTypes
<1>5. ASSUME NEW w \in Words, Overwrites(w) PROVE KernelInv' /\ [WalkNext]_walkVars
  <2>1. at = "idle" /\ UNCHANGED <<build, reader>>
    BY <1>5 DEF Overwrites
  <2>. QED BY <1>4, <1>5, <2>1, OverwritesKeeps DEF WalkNext
<1>6. CASE KernelStep
  <2>1. at = "idle" /\ UNCHANGED <<build, reader>>
    BY <1>6 DEF KernelStep, DefinesHeap, MallocFinishes, FreeInserts, MallocTakes, FreeClears, TaskWrites,
                FreeCounts, Calls, Runs
  <2>2. KernelInv'
    BY <1>6, DefinesHeapKeeps, MallocFinishesKeeps, FreeInsertsKeeps, MallocTakesKeeps, FreeClearsKeeps,
       TaskWritesKeeps, FreeCountsKeeps DEF KernelStep
  <2>. QED BY <1>4, <2>1, <2>2 DEF WalkNext
<1>. QED BY <1>1, <1>2, <1>3, <1>5, <1>6 DEF Next

\* The kernel's invariant.
THEOREM KernelKeepsItsHeap == Spec => []KernelInv
<1>1. Init => KernelInv
  BY KernelStarts
<1>2. KernelInv /\ [Next]_vars => KernelInv'
  BY KernelKeeps
<1>. QED BY <1>1, <1>2, PTL DEF Spec

\* A kernel whose target GDB halts is one of those the walks are about.
LEMMA KernelIsATarget == Spec => WalkSpec
<1>1. Init => WalkInit
  BY KernelStarts
<1>2. KernelInv /\ [Next]_vars => [WalkNext]_walkVars
  BY KernelKeeps
<1>. QED BY <1>1, <1>2, KernelKeepsItsHeap, PTL DEF Spec, WalkSpec
-----------------------------------------------------------------------------
\* What the walk of the free list finds.

\* The state a finished snapshot of a heap looks at.
Seen == KernelInv /\ Inv /\ Trace /\ at = "done" /\ Walked /\ op = NoOp /\ freeing = {}

\* What is known of it.
LEMMA SeenIs ==
  ASSUME Seen
  PROVE  /\ build \in Builds /\ chain \in Seq(ListBlock) /\ Len(chain) \in Nat
         /\ Sound(chain, used, build) /\ Merged(chain, build) /\ BoundsTrue(heap, build)
         /\ IsMemory(mem) /\ DOMAIN mem = Cells /\ heap \in Statics
         /\ build.kind \in {2, 4, 5} /\ IsFiniteSet(used)
         /\ heap.end = MarkerOf(build) /\ heap.end # Null /\ HasBlocks /\ Initialised
<1>1. Placed /\ HeapTypes /\ Walked
  BY DEF Seen, KernelInv, KernelSound
<1>2. Others(used, freeing, op) = used
  BY DEF Seen, Others, Hand, NoOp
<1>3. Sound(chain, used, build) /\ Merged(chain, build) /\ BoundsTrue(heap, build) /\ IsFiniteSet(used)
  BY <1>1, <1>2 DEF Placed, Apart
<1>4. build \in Builds /\ IsMemory(mem) /\ DOMAIN mem = Cells /\ heap \in Statics
  BY <1>1 DEF HeapTypes
<1>5. chain \in Seq(ListBlock) /\ Len(chain) \in Nat
  BY <1>3, <1>4, SoundBlocks
<1>6. heap.end = MarkerOf(build) /\ heap.end # Null
  BY <1>3, <1>4, MarkerIs DEF BoundsTrue
<1>. QED BY <1>1, <1>3, <1>4, <1>5, <1>6 DEF Walked, HasBlocks

\* A block is neither at the end marker nor at address zero, and its size is
\* below the allocated bit.
LEMMA AwayFromMarker ==
  ASSUME NEW b \in Builds, NEW s, NEW O, Sound(s, O, b), NEW x \in ToSet(s) \cup O
  PROVE  /\ x.address # MarkerOf(b) /\ x.address # Null /\ x.size \in Nat /\ x.size < Msb
         /\ Regions[b][1][1] <= x.address /\ x.address <= EndAt(Regions[b], Len(Regions[b]))
<1>1. PICK g : g = Regions[b] /\ Ground(g)
  BY GroundIs
<1>2. PICK n \in Nat : n = Len(g) /\ DOMAIN g = 1..n /\ 1 \in 1..n
  BY <1>1 DEF Ground
<1>3. \A i \in 1..n : /\ g[i][1] \in Nat /\ EndAt(g, i) \in Nat
                      /\ 2 < g[i][1] /\ g[i][1] < EndAt(g, i) /\ EndAt(g, i) < Msb
  BY <1>1, <1>2 DEF Ground, XEnd
<1>4. \A i, j \in 1..n : i < j => EndAt(g, i) < g[j][1]
  BY <1>1, <1>2 DEF Ground
<1>5. \A i \in 1..n : g[1][1] <= g[i][1] /\ EndAt(g, i) <= EndAt(g, n)
  <2> SUFFICES ASSUME NEW i \in 1..n PROVE g[1][1] <= g[i][1] /\ EndAt(g, i) <= EndAt(g, n)
    OBVIOUS
  <2>0. /\ g[1][1] \in Nat /\ EndAt(g, 1) \in Nat /\ g[1][1] < EndAt(g, 1)
        /\ g[i][1] \in Nat /\ EndAt(g, i) \in Nat /\ g[i][1] < EndAt(g, i)
        /\ g[n][1] \in Nat /\ EndAt(g, n) \in Nat /\ g[n][1] < EndAt(g, n) /\ n \in 1..n
    BY <1>2, <1>3
  <2>1. PICK a \in Nat, c \in Nat, d \in Nat, e \in Nat, u \in Nat, v \in Nat :
          /\ a = g[1][1] /\ c = EndAt(g, 1) /\ d = g[i][1] /\ e = EndAt(g, i) /\ u = g[n][1] /\ v = EndAt(g, n)
          /\ a < c /\ d < e /\ u < v
    BY <2>0
  <2>2. i = 1 \/ c < d
    BY <1>2, <1>4, <2>1
  <2>3. i = n \/ e < u
    BY <1>2, <1>4, <2>1
  <2>4. i = 1 => a = d
    BY <2>1
  <2>5. i = n => e = v
    BY <2>1
  <2>6. a <= d /\ e <= v
    BY <2>1, <2>2, <2>3, <2>4, <2>5
  <2>. QED BY <2>1, <2>6
<1>6. x.address \in Nat /\ x.size \in Nat /\ End(x) = x.address + x.size /\ x \in ListBlock
  BY SoundBlocks
<1>7. CASE x \in Real(s) \cup O
  <2>1. x.size > 0 /\ Inside(x, g)
    BY <1>1, <1>7, SoundBlocks
  <2>2. PICK i \in 1..n : g[i][1] <= x.address /\ End(x) <= EndAt(g, i)
    BY <1>2, <2>1 DEF Inside
  <2>3. PICK a \in Nat, k \in Nat, d \in Nat, e \in Nat, f \in Nat, l \in Nat :
          /\ a = x.address /\ k = x.size /\ d = g[i][1] /\ e = EndAt(g, i) /\ f = g[1][1] /\ l = EndAt(g, n)
          /\ 2 < d /\ e < Msb /\ f <= d /\ e <= l
    <3>1. /\ g[i][1] \in Nat /\ EndAt(g, i) \in Nat /\ g[1][1] \in Nat /\ EndAt(g, n) \in Nat
          /\ 2 < g[i][1] /\ EndAt(g, i) < Msb /\ g[1][1] <= g[i][1] /\ EndAt(g, i) <= EndAt(g, n)
      BY <1>2, <1>3, <1>5
    <3>. QED BY <1>6, <3>1
  <2>4. d <= a /\ a + k <= e /\ k > 0
    BY <1>6, <2>1, <2>2, <2>3
  <2>5. a # 0 /\ a # 2 /\ k < Msb /\ f <= a /\ a <= l /\ a < l
    BY <2>3, <2>4, WalkAssumption
  <2>6. x.address # EndAt(g, n)
    BY <2>3, <2>5
  <2>. QED BY <1>1, <1>2, <2>3, <2>5, <2>6 DEF MarkerOf, XEnd, Null
<1>8. CASE x \notin Real(s) \cup O
  <2>1. x \in ToSet(s) /\ x.size = 0 /\ b.kind = 5
    BY <1>8, SoundBlocks
  <2>2. PICK i \in 1..Len(s) : x = s[i]
    BY <2>1, InSeq, SoundBlocks
  <2>3. PICK k \in 1..(n - 1) : x.address = EndAt(g, k)
    BY <1>1, <1>2, <2>1, <2>2 DEF Sound, Ordered
  <2>4. k \in 1..n /\ n \in 1..n /\ k < n
    BY <1>2
  <2>5. PICK a \in Nat, d \in Nat, e \in Nat, f \in Nat, l \in Nat :
          /\ a = EndAt(g, k) /\ d = g[k][1] /\ e = g[n][1] /\ f = g[1][1] /\ l = EndAt(g, n)
          /\ 2 < d /\ d < a /\ a < e /\ e < l /\ f <= d
    BY <1>2, <1>3, <1>4, <1>5, <2>4
  <2>6. a # 0 /\ a # l /\ f <= a /\ a <= l
    BY <2>5
  <2>7. 0 < Msb
    BY WalkAssumption
  <2>. QED BY <1>1, <1>2, <2>1, <2>3, <2>5, <2>6, <2>7 DEF MarkerOf, Null
<1>. QED BY <1>7, <1>8

\* What the reader makes of a header.
LEMMA RawIs ==
  ASSUME build \in Builds, NEW x, x.size \in Nat, x.size < Msb
  PROVE  /\ SizeOf(x.size) = x.size /\ ~CarriesBit(x.size)
         /\ SizeOf(RawUsed(x, build)) = x.size /\ CarriesBit(RawUsed(x, build)) = Masked
         /\ RawUsed(x, build) \in Nat
<1>1. PICK n \in Nat : n = x.size /\ n < Msb
  OBVIOUS
<1>2. n % Msb = n /\ n \div Msb = 0 /\ (n + Msb) % Msb = n /\ (n + Msb) \div Msb = 1
  BY <1>1, LowBits
<1>3. 0 % 2 # 1 /\ 1 % 2 = 1
  OBVIOUS
<1>4. Masked \in BOOLEAN /\ (Masked <=> (build.kind # 2 \/ build.bitSince))
  <2>1. build.bitSince \in BOOLEAN
    BY WalkAssumption DEF Build
  <2>. QED BY <2>1 DEF Masked
<1>5. CASE Masked
  <2>1. RawUsed(x, build) = n + Msb /\ n + Msb \in Nat
    BY <1>1, <1>4, <1>5, WalkAssumption DEF RawUsed
  <2>. QED BY <1>1, <1>2, <1>3, <1>5, <2>1 DEF SizeOf, CarriesBit
<1>6. CASE ~Masked
  <2>1. RawUsed(x, build) = n
    BY <1>1, <1>4, <1>6 DEF RawUsed
  <2>. QED BY <1>1, <1>4, <1>6, <2>1 DEF SizeOf, CarriesBit
<1>. QED BY <1>4, <1>5, <1>6

\* The walk visits the blocks of the chain in order.
LEMMA ListFollows ==
  ASSUME Seen, HeadTrue(heap, chain, build), LinksTrue(mem, chain, build)
  PROVE  /\ ReadsList /\ Follows(mem, heap, list)
         /\ list.blocks \in Seq(ListBlock) /\ Len(list.blocks) \in Nat /\ Len(list.blocks) <= Len(chain)
         /\ \A i \in 1..Len(list.blocks) : list.blocks[i].address = chain[i].address
         /\ Len(list.blocks) = Len(chain) => list.cur = heap.end
         /\ Len(list.blocks) < Len(chain) => list.cur = chain[Len(list.blocks) + 1].address
<1>1. /\ build \in Builds /\ chain \in Seq(ListBlock) /\ Sound(chain, used, build)
      /\ heap.end = MarkerOf(build) /\ heap.end # Null
  BY SeenIs
<1>2. PICK n \in Nat : n = Len(chain)
  BY <1>1
<1>3. \A i \in 1..n : chain[i].address # heap.end /\ chain[i].address # Null
  <2>1. \A i \in 1..n : chain[i] \in ToSet(chain) \cup used
    BY <1>1, <1>2, InSeq
  <2>. QED BY <1>1, <2>1, AwayFromMarker
<1>4. heap.head = (IF n = 0 THEN heap.end ELSE chain[1].address)
  <2>1. chain = << >> <=> n = 0
    BY <1>1, <1>2, EmptySeq
  <2>. QED BY <1>1, <2>1 DEF HeadTrue
<1>5. ReadsList
  <2>1. heap.head # Null
    BY <1>1, <1>3, <1>4
  <2>. QED BY <1>1, <2>1 DEF ReadsList, Seen
<1>6. Follows(mem, heap, list)
  BY <1>5 DEF Seen, Trace
<1>7. PICK L : L = list.blocks
  OBVIOUS
<1>8. L \in Seq(ListBlock)
  BY <1>7 DEF Seen, Inv, WalkTypeOK, WalkOver, ListBlock
<1>9. PICK k \in Nat : k = Len(L)
  BY <1>8
<1>10. L # << >> <=> k # 0
  BY <1>8, <1>9, EmptySeq
<1>11. /\ list.cur = (IF k = 0 THEN heap.head ELSE mem[L[k].address].next)
       /\ k # 0 => L[1].address = heap.head
       /\ \A i \in 1..(k - 1) : L[i + 1].address = mem[L[i].address].next
       /\ \A i \in 1..k : L[i].address # heap.end
  BY <1>6, <1>7, <1>9, <1>10 DEF Follows
<1>12. \A i \in 1..n : mem[chain[i].address].next = (IF i = n THEN heap.end ELSE chain[i + 1].address)
  BY <1>1, <1>2 DEF LinksTrue, NextIn
<1>13. PICK S : S = {m \in 0..k : m <= n /\ \A i \in 1..m : L[i].address = chain[i].address}
  OBVIOUS
<1>14. 0 \in S
  BY <1>13
<1>15. ASSUME NEW m \in 1..k, m - 1 \in S PROVE m \in S
  <2>1. m - 1 <= n /\ \A i \in 1..(m - 1) : L[i].address = chain[i].address
    BY <1>13, <1>15
  <2>2. m <= n /\ L[m].address = chain[m].address
    <3>1. CASE m = 1
      <4>1. k # 0 /\ L[1].address = heap.head /\ L[1].address # heap.end
        BY <1>11, <3>1
      <4>2. n # 0
        BY <1>4, <4>1
      <4>. QED BY <1>2, <1>4, <3>1, <4>1, <4>2
    <3>2. CASE m # 1
      <4>1. PICK j \in 1..(k - 1) : j = m - 1
        BY <3>2
      <4>2. j + 1 = m /\ j \in 1..k /\ j <= n /\ j \in 1..n
        BY <2>1, <4>1
      <4>3. L[j].address = chain[j].address
        BY <2>1, <4>1
      <4>4. L[m].address = mem[chain[j].address].next
        BY <1>11, <4>1, <4>2, <4>3
      <4>5. j # n
        BY <1>11, <1>12, <4>2, <4>4
      <4>6. L[m].address = chain[m].address
        BY <1>12, <4>2, <4>4, <4>5
      <4>. QED BY <4>2, <4>5, <4>6
    <3>. QED BY <3>1, <3>2
  <2>3. \A i \in 1..m : L[i].address = chain[i].address
    BY <2>1, <2>2
  <2>. QED BY <1>13, <2>2, <2>3
<1>16. k \in S
  <2>1. 0..k \subseteq S
    BY <1>14, <1>15, UpTo
  <2>. QED BY <2>1
<1>17. k <= n /\ \A i \in 1..k : L[i].address = chain[i].address
  BY <1>13, <1>16
<1>18. list.cur = (IF k = n THEN heap.end ELSE chain[k + 1].address)
  <2>1. CASE k = 0
    BY <1>4, <1>11, <2>1
  <2>2. CASE k # 0
    <3>1. k \in 1..k /\ k \in 1..n
      BY <1>17, <2>2
    <3>. QED BY <1>11, <1>12, <1>17, <2>2, <3>1
  <2>. QED BY <2>1, <2>2
<1>19. k = n => list.cur = heap.end
  BY <1>18
<1>20. k < n => list.cur = chain[k + 1].address
  BY <1>18
<1>. QED BY <1>2, <1>5, <1>6, <1>7, <1>8, <1>9, <1>17, <1>19, <1>20

\* Where the walk ends at the end marker it has seen the whole chain, and sums
\* up what it was told of it.
LEMMA ListEndsThere ==
  ASSUME Seen, HeadTrue(heap, chain, build), LinksTrue(mem, chain, build), list.cur = heap.end
  PROVE  Len(list.blocks) = Len(chain)
<1>1. /\ Len(list.blocks) \in Nat /\ Len(list.blocks) <= Len(chain)
      /\ Len(list.blocks) < Len(chain) => list.cur = chain[Len(list.blocks) + 1].address
  BY ListFollows
<1>2. /\ build \in Builds /\ chain \in Seq(ListBlock) /\ Sound(chain, used, build) /\ heap.end = MarkerOf(build) /\ Len(chain) \in Nat
  BY SeenIs
<1>3. ASSUME Len(list.blocks) < Len(chain) PROVE FALSE
  <2>1. PICK i \in 1..Len(chain) : i = Len(list.blocks) + 1
    BY <1>1, <1>2, <1>3
  <2>2. chain[i] \in ToSet(chain) \cup used
    BY <1>2, InSeq
  <2>3. chain[i].address # MarkerOf(build)
    BY <1>2, <2>2, AwayFromMarker
  <2>. QED BY <1>1, <1>2, <1>3, <2>1, <2>3
<1>. QED BY <1>1, <1>2, <1>3
\* The bounds of the extent are those of the regions.
LEMMA BoundsAre ==
  ASSUME Seen, NEW g, g = Regions[build], NEW n \in Nat, n = Len(g)
  PROVE  /\ Ground(g) /\ DOMAIN g = 1..n /\ n >= 1 /\ (build.kind # 5 => n = 1)
         /\ LinearLow # NoAddress => LinearLow = g[1][1] /\ HeapLimit # NoAddress
         /\ build.kind # 5 /\ build.array => LinearLow = g[1][1]
         /\ build.kind = 5 => (LinearLow = NoAddress <=> ~build.protector)
         /\ build.kind = 5 => HeapLimit = (IF build.protector THEN EndAt(g, n) + 2 ELSE NoAddress)
         /\ build.kind # 5 /\ HeapLimit # NoAddress => HeapLimit = EndAt(g, 1)
         /\ HeapLimit # Null /\ heap.end # Null /\ (build.kind # 2 => heap.end = EndAt(g, n))
         /\ \A i \in 1..n : /\ g[i][1] \in Nat /\ EndAt(g, i) \in Nat /\ g[i][1] > 0 /\ g[i][1] < EndAt(g, i)
                            /\ EndAt(g, 1) <= EndAt(g, i) /\ (i # 1 => EndAt(g, 1) < g[i][1])
<1>1. /\ build \in Builds /\ BoundsTrue(heap, build) /\ build.kind \in {2, 4, 5} /\ heap \in Statics
      /\ heap.end = MarkerOf(build) /\ heap.end # Null
  BY SeenIs
<1>2. Ground(g) /\ (build.kind # 5 => n = 1)
  BY <1>1, GroundIs
<1>3. DOMAIN g = 1..n /\ n >= 1
  BY <1>2 DEF Ground
<1>4. \A i \in 1..n : /\ g[i][1] \in Nat /\ EndAt(g, i) \in Nat /\ g[i][1] > 0 /\ g[i][1] < EndAt(g, i)
  BY <1>2, <1>3 DEF Ground, XEnd
<1>5. \A i \in 1..n : i # 1 => EndAt(g, 1) < g[i][1]
  BY <1>2, <1>3 DEF Ground
<1>6. ASSUME NEW i \in 1..n PROVE EndAt(g, 1) <= EndAt(g, i)
  <2>0. 1 \in 1..n
    BY <1>3
  <2>1. PICK a \in Nat, c \in Nat, d \in Nat : a = EndAt(g, 1) /\ c = g[i][1] /\ d = EndAt(g, i) /\ c < d
    BY <1>4, <2>0
  <2>2. i # 1 => a < c
    BY <1>5, <2>1
  <2>3. i = 1 => a = d
    BY <2>1
  <2>4. a <= d
    BY <2>1, <2>2, <2>3
  <2>. QED BY <2>1, <2>4
<1>7. PICK lo \in Nat, hi \in Nat, to \in Nat :
        /\ lo = g[1][1] /\ hi = EndAt(g, n) /\ to = EndAt(g, 1) /\ lo > 0 /\ hi > 0 /\ to > 0
  <2>1. 1 \in 1..n /\ n \in 1..n
    BY <1>3
  <2>2. /\ g[1][1] \in Nat /\ EndAt(g, n) \in Nat /\ EndAt(g, 1) \in Nat /\ g[1][1] > 0
        /\ g[1][1] < EndAt(g, 1) /\ g[n][1] \in Nat /\ g[n][1] < EndAt(g, n)
    BY <1>4, <2>1
  <2>. QED BY <2>2
<1>8. heap.base = lo /\ heap.high = hi + 2 /\ (build.kind = 2 => heap.endSize = g[1][2])
  BY <1>1, <1>7 DEF BoundsTrue
<1>9. build.kind # 2 => heap.end = hi
  BY <1>1, <1>7 DEF MarkerOf
<1>10. build.kind = 5 => (Protected <=> build.protector)
  <2>1. build.protector \in BOOLEAN
    BY <1>1, WalkAssumption DEF Build
  <2>2. hi + 2 # 0 /\ lo # 0
    BY <1>7
  <2>. QED BY <1>8, <2>1, <2>2 DEF Protected, Null
<1>11. lo # NoAddress /\ hi + 2 # NoAddress /\ hi + 2 # 0
  BY <1>7 DEF NoAddress
<1>12. build.kind = 2 /\ build.array => HeapLimit = to
  BY <1>7, <1>8 DEF HeapLimit, EndAt
<1>13. build.kind = 2 /\ ~build.array => HeapLimit = NoAddress
  BY DEF HeapLimit
<1>14. build.kind = 4 => HeapLimit = to
  <2>1. build.kind = 4 => hi = to
    <3>1. build.kind = 4 => n = 1
      BY <1>2
    <3>2. hi = EndAt(g, n) /\ to = EndAt(g, 1)
      BY <1>7
    <3>. QED BY <3>1, <3>2, Zenon
  <2>2. build.kind = 4 => HeapLimit = hi
    BY <1>9 DEF HeapLimit
  <2>. QED BY <2>1, <2>2
<1>15. build.kind = 5 => HeapLimit = (IF build.protector THEN hi + 2 ELSE NoAddress)
  BY <1>8, <1>10 DEF HeapLimit
<1>16. to # NoAddress /\ to # Null /\ hi + 2 # Null /\ NoAddress # Null
  BY <1>7 DEF NoAddress, Null
<1>17. HeapLimit # Null
  BY <1>1, <1>12, <1>13, <1>14, <1>15, <1>16
<1>18. build.kind # 5 /\ HeapLimit # NoAddress => HeapLimit = to
  BY <1>1, <1>12, <1>13, <1>14
<1>19. /\ LinearLow # NoAddress => LinearLow = lo
       /\ build.kind # 5 /\ build.array => LinearLow = lo
       /\ build.kind = 5 => (LinearLow = NoAddress <=> ~build.protector)
       /\ build.kind # 5 /\ LinearLow # NoAddress => build.array
  BY <1>8, <1>10, <1>11 DEF LinearLow
<1>20. LinearLow # NoAddress => HeapLimit # NoAddress
  BY <1>1, <1>11, <1>12, <1>14, <1>15, <1>16, <1>19
<1>. QED BY <1>1, <1>2, <1>3, <1>4, <1>5, <1>6, <1>7, <1>9, <1>15, <1>17, <1>18, <1>19, <1>20

\* A healthy free list is walked to its end and taken as it is.
LEMMA ListWhole ==
  ASSUME Seen, HeadTrue(heap, chain, build), LinksTrue(mem, chain, build), ListedTrue(mem, chain),
         Len(chain) <= MaxTraversal, build.kind = 5 \/ build.array
  PROVE  list.blocks = chain /\ list.cur = heap.end /\ ~list.corrupt /\ ~list.truncated
<1>1. /\ build \in Builds /\ chain \in Seq(ListBlock) /\ Sound(chain, used, build) /\ DOMAIN mem = Cells
      /\ heap.end = MarkerOf(build) /\ heap.end # Null /\ build.kind \in {2, 4, 5}
  BY SeenIs
<1>2. PICK n \in Nat : n = Len(chain)
  BY <1>1
<1>3. PICK k \in Nat : k = Len(list.blocks) /\ k <= n
  BY <1>2, ListFollows
<1>4. /\ ReadsList /\ list.blocks \in Seq(ListBlock) /\ \A i \in 1..k : list.blocks[i].address = chain[i].address
      /\ k = n => list.cur = heap.end
      /\ k < n => list.cur = chain[k + 1].address
  BY <1>2, <1>3, ListFollows
<1>5. ListEnded
  BY <1>4 DEF Seen, Trace
<1>6. \A i \in 1..n : /\ chain[i] \in ListBlock /\ chain[i].address # heap.end /\ chain[i].address # Null
                      /\ chain[i].size \in Nat /\ chain[i].size < Msb /\ chain[i] \in ToSet(chain)
                      /\ chain[i] \in ToSet(chain) \cup used
  <2>1. \A i \in 1..n : chain[i] \in ListBlock /\ chain[i] \in ToSet(chain) \cup used /\ chain[i] \in ToSet(chain)
    BY <1>1, <1>2, InSeq
  <2>. QED BY <1>1, <2>1, AwayFromMarker
<1>7. \A i \in 1..n : mem[chain[i].address].raw = chain[i].size
  BY <1>2 DEF ListedTrue
<1>8. CASE k = n
  <2>1. list.cur = heap.end /\ ~list.corrupt /\ ~list.truncated
    BY <1>4, <1>5, <1>8 DEF ListEnded
  <2>2. ASSUME NEW i \in 1..n PROVE list.blocks[i] = chain[i]
    <3>0. list.blocks \in Seq(ListBlock) /\ i \in 1..Len(list.blocks)
      BY <1>3, <1>4, <1>8
    <3>1. i \in DOMAIN list.blocks /\ list.blocks[i] \in ListBlock
      BY <3>0
    <3>2. list.blocks[i].size = SizeOf(mem[list.blocks[i].address].raw)
      BY <3>1 DEF Seen, Inv, ListShape
    <3>3. list.blocks[i].address = chain[i].address
      BY <1>4, <1>8
    <3>4. list.blocks[i].size = SizeOf(chain[i].size)
      BY <1>7, <3>2, <3>3
    <3>5. list.blocks[i].size = chain[i].size
      BY <1>1, <1>6, <3>4, RawIs
    <3>6. chain[i] = Block(chain[i].address, chain[i].size)
      BY <1>6, BlockIs
    <3>7. list.blocks[i] = Block(list.blocks[i].address, list.blocks[i].size)
      BY <3>1, BlockIs
    <3>. QED BY <3>3, <3>5, <3>6, <3>7
  <2>3. list.blocks = chain
    <3>1. PICK s \in Seq(ListBlock), t \in Seq(ListBlock) : s = list.blocks /\ t = chain
      BY <1>1, <1>4
    <3>2. Len(s) = n /\ Len(t) = n
      BY <1>2, <1>3, <1>8, <3>1
    <3>3. \A i \in 1..n : s[i] = t[i]
      BY <2>2, <3>1
    <3>4. s = t
      BY <3>2, <3>3
    <3>. QED BY <3>1, <3>4
  <2>. QED BY <2>1, <2>3
<1>9. CASE k # n
  <2>1. PICK j \in 1..n : j = k + 1
    BY <1>3, <1>9
  <2>2. PICK x \in ListBlock : x = chain[j]
    BY <1>6
  <2>3. list.cur = x.address /\ list.cur # heap.end /\ list.cur # Null
    BY <1>3, <1>4, <1>6, <1>9, <2>1, <2>2
  <2>4. ~Exhausted(list)
    BY <1>2, <1>3, <1>9, WalkAssumption DEF Exhausted
  <2>5. x.address \notin Addresses(list.blocks)
    <3>1. \A i \in 1..n : chain[i].address = chain[j].address => i = j
      BY <1>1, <1>2 DEF Sound, Ordered
    <3>2. \A i \in 1..k : i \in 1..n /\ i # j
      BY <1>3, <2>1
    <3>3. DOMAIN list.blocks = 1..k
      BY <1>3, <1>4
    <3>. QED BY <1>4, <2>2, <3>1, <3>2, <3>3 DEF Addresses
  <2>6. x \in ToSet(chain) \cup used /\ x.size \in Nat /\ x.size < Msb /\ mem[x.address].raw = x.size
    BY <1>6, <1>7, <2>2
  <2>7. x.address \in DOMAIN mem
    BY <1>1, <2>6, BlocksInCells
  <2>8. ~CarriesBit(mem[x.address].raw)
    BY <1>1, <2>6, RawIs
  <2>9. ~Misaligned(x.address)
    BY <1>1, <2>6, SoundBlocks DEF OnCell, Misaligned
  <2>10. HeapLimit # NoAddress => x.address >= Lower /\ x.address < HeapLimit
    <3> SUFFICES ASSUME HeapLimit # NoAddress PROVE x.address >= Lower /\ x.address < HeapLimit
      OBVIOUS
    <3>1. PICK g : g = Regions[build]
      OBVIOUS
    <3>2. PICK r \in Nat : r = Len(g) /\ r >= 1
      BY <1>1, <3>1, GroundIs DEF Ground
    <3>3. /\ Ground(g) /\ DOMAIN g = 1..r /\ (build.kind # 5 => r = 1)
          /\ LinearLow # NoAddress => LinearLow = g[1][1]
          /\ build.kind # 5 /\ build.array => LinearLow = g[1][1]
          /\ build.kind = 5 => (LinearLow = NoAddress <=> ~build.protector)
          /\ build.kind = 5 => HeapLimit = (IF build.protector THEN EndAt(g, r) + 2 ELSE NoAddress)
          /\ build.kind # 5 => HeapLimit = EndAt(g, 1)
          /\ g[1][1] \in Nat /\ EndAt(g, r) \in Nat /\ EndAt(g, 1) \in Nat
      <4>1. /\ Ground(g) /\ DOMAIN g = 1..r /\ (build.kind # 5 => r = 1)
            /\ LinearLow # NoAddress => LinearLow = g[1][1]
            /\ build.kind # 5 /\ build.array => LinearLow = g[1][1]
            /\ build.kind = 5 => (LinearLow = NoAddress <=> ~build.protector)
            /\ build.kind = 5 => HeapLimit = (IF build.protector THEN EndAt(g, r) + 2 ELSE NoAddress)
            /\ build.kind # 5 => HeapLimit = EndAt(g, 1)
            /\ \A i \in 1..r : g[i][1] \in Nat /\ EndAt(g, i) \in Nat
        BY <3>1, <3>2, BoundsAre
      <4>2. 1 \in 1..r /\ r \in 1..r
        BY <3>2
      <4>. QED BY <4>1, <4>2
    <3>4. LinearLow = g[1][1] /\ LinearLow # NoAddress
      <4>1. g[1][1] # NoAddress
        BY <3>3 DEF NoAddress
      <4>. QED BY <3>3, <4>1
    <3>5. Lower = g[1][1]
      BY <3>4 DEF Lower
    <3>6. g[1][1] <= x.address /\ x.address <= EndAt(g, r) /\ x.address \in Nat
      BY <1>1, <2>2, <2>6, <3>1, <3>2, AwayFromMarker DEF ListBlock
    <3>7. CASE build.kind = 5
      <4>1. HeapLimit = EndAt(g, r) + 2
        BY <3>3, <3>7
      <4>. QED BY <3>3, <3>5, <3>6, <4>1
    <3>8. CASE build.kind # 5
      <4>1. x.address # EndAt(g, 1)
        <5>1. x \in Real(chain)
          BY <1>1, <1>6, <2>2, <3>8, SoundBlocks
        <5>2. x.size > 0 /\ Inside(x, g)
          BY <1>1, <3>1, <5>1, SoundBlocks
        <5>3. 1 \in DOMAIN g
          BY <3>2, <3>3
        <5>. QED BY <3>3, <5>2, <5>3, EndsApart
      <4>. QED BY <3>3, <3>5, <3>6, <3>8, <4>1
    <3>. QED BY <3>7, <3>8
  <2>11. ListTakes(list.cur)
    BY <2>3, <2>5, <2>7, <2>8, <2>9, <2>10 DEF ListTakes
  <2>. QED BY <1>5, <2>3, <2>4, <2>11 DEF ListEnded
<1>. QED BY <1>8, <1>9
-----------------------------------------------------------------------------
\* What the walk of the extent finds.

\* The place p is that of a block of the first region, or its end.
AtBlock(p, R, g) == p = EndAt(g, 1) \/ \E y \in R : y.address = p /\ End(y) <= EndAt(g, 1)

\* The first region starts with a block, and each of its blocks is followed by
\* another or by its end.
LEMMA BlockFollows ==
  ASSUME NEW b \in Builds, NEW s, NEW O, Sound(s, O, b), NEW g, g = Regions[b], NEW R, R = Real(s) \cup O
  PROVE  /\ AtBlock(g[1][1], R, g)
         /\ \A y \in R : End(y) <= EndAt(g, 1) => AtBlock(End(y), R, g)
<1>1. Laid(R, g) /\ Ground(g)
  BY GroundIs DEF Sound
<1>2. PICK n \in Nat : n = Len(g) /\ DOMAIN g = 1..n /\ n >= 1 /\ 1 \in DOMAIN g
  BY <1>1 DEF Ground
<1>3. /\ \A i \in 1..n : g[i][1] \in Nat /\ EndAt(g, i) \in Nat /\ g[i][1] < EndAt(g, i)
      /\ \A i \in 1..n : i # 1 => EndAt(g, 1) < g[i][1]
  BY <1>1, <1>2 DEF Ground
<1>4. \A y \in R : /\ y \in ListBlock /\ y.size > 0 /\ Inside(y, g) /\ Follower(y, R, g)
                   /\ y.address \in Nat /\ y.size \in Nat /\ End(y) \in Nat
  <2>1. \A y \in R : y \in ListBlock /\ y.size > 0 /\ Inside(y, g) /\ Follower(y, R, g)
    BY <1>1 DEF Laid
  <2>. QED BY <2>1, BlockIs
<1>5. \A y \in R : y.address # EndAt(g, 1) /\ (EndAt(g, 1) < y.address \/ End(y) <= EndAt(g, 1))
  BY <1>1, <1>2, <1>4, EndsApart
<1>6. AtBlock(g[1][1], R, g)
  <2>1. PICK y \in R : y.address = g[1][1]
    BY <1>1 DEF Laid
  <2>2. 1 \in 1..n
    BY <1>2
  <2>3. g[1][1] \in Nat /\ EndAt(g, 1) \in Nat /\ g[1][1] < EndAt(g, 1)
    BY <1>3, <2>2
  <2>4. ~(EndAt(g, 1) < y.address)
    BY <2>1, <2>3
  <2>5. End(y) <= EndAt(g, 1)
    BY <1>5, <2>4
  <2>. QED BY <2>1, <2>5 DEF AtBlock
<1>7. ASSUME NEW y \in R, End(y) <= EndAt(g, 1) PROVE AtBlock(End(y), R, g)
  <2>1. 1 \in 1..n /\ EndAt(g, 1) \in Nat /\ End(y) \in Nat
    BY <1>2, <1>3, <1>4
  <2>2. ASSUME NEW i \in 1..n, End(y) = EndAt(g, i) PROVE i = 1
    <3>1. i # 1 => EndAt(g, 1) < g[i][1]
      BY <1>3
    <3>2. g[i][1] \in Nat /\ EndAt(g, i) \in Nat /\ g[i][1] < EndAt(g, i)
      BY <1>3
    <3>3. EndAt(g, i) <= EndAt(g, 1)
      BY <1>7, <2>2
    <3>. QED BY <2>1, <3>1, <3>2, <3>3
  <2>3. ASSUME NEW z \in R, z.address = End(y) PROVE End(z) <= EndAt(g, 1)
    <3>1. ~(EndAt(g, 1) < z.address)
      BY <1>7, <2>1, <2>3
    <3>. QED BY <1>5, <3>1
  <2>4. (\E i \in 1..n : End(y) = EndAt(g, i)) \/ (\E z \in R : z.address = End(y))
    BY <1>2, <1>4 DEF Follower
  <2>. QED BY <2>2, <2>3, <2>4 DEF AtBlock
<1>. QED BY <1>6, <1>7

\* What the memory says of a block, and of the end of the first region.
LEMMA BlockRead ==
  ASSUME Seen, Raws, NEW y \in Real(chain) \cup used
  PROVE  /\ y.address \in Nat /\ y.size \in Nat /\ y.size > 0 /\ y.size < Msb /\ y \in ListBlock /\ End(y) = y.address + y.size
         /\ y.address \in DOMAIN mem /\ ~Misaligned(y.address)
         /\ SizeOf(mem[y.address].raw) = y.size
         /\ CarriesBit(mem[y.address].raw) <=> (Masked /\ y \in used)
<1>1. build \in Builds /\ Sound(chain, used, build) /\ DOMAIN mem = Cells /\ chain \in Seq(ListBlock)
  BY SeenIs
<1>2. y \in ToSet(chain) \cup used /\ y.size > 0
  BY <1>1, SoundBlocks
<1>3. y.address \in Nat /\ y.size \in Nat /\ y \in ListBlock /\ OnCell(build, y.address) /\ End(y) = y.address + y.size
  BY <1>1, <1>2, SoundBlocks
<1>4. y.size < Msb
  BY <1>1, <1>2, AwayFromMarker
<1>5. y.address \in DOMAIN mem /\ ~Misaligned(y.address)
  BY <1>1, <1>2, <1>3, BlocksInCells DEF OnCell, Misaligned
<1>6. CASE y \in used
  <2>1. mem[y.address].raw = RawUsed(y, build)
    BY <1>6 DEF Raws, UsedTrue
  <2>. QED BY <1>1, <1>2, <1>3, <1>4, <1>5, <1>6, <2>1, RawIs
<1>7. CASE y \notin used
  <2>1. PICK i \in 1..Len(chain) : chain[i] = y
    BY <1>1, <1>2, <1>7, InSeq
  <2>2. mem[y.address].raw = y.size
    BY <2>1 DEF Raws, ListedTrue
  <2>. QED BY <1>1, <1>2, <1>3, <1>4, <1>5, <1>7, <2>2, RawIs
<1>. QED BY <1>6, <1>7

\* And at the end of the first region of heap_5.
LEMMA EndRead ==
  ASSUME Seen, Raws, build.kind = 5, NEW g, g = Regions[build]
  PROVE  /\ SizeOf(mem[EndAt(g, 1)].raw) = 0 /\ EndAt(g, 1) \in DOMAIN mem /\ ~Misaligned(EndAt(g, 1))
         /\ RegionEnd(EndAt(g, 1))
<1>1. build \in Builds /\ DOMAIN mem = Cells
  BY SeenIs
<1>2. 1 \in DOMAIN g
  BY <1>1, GroundIs DEF Ground
<1>3. mem[EndAt(g, 1)].raw = 0
  BY <1>2 DEF Raws, EndsTrue
<1>4. PICK x : x = Block(0, 0)
  OBVIOUS
<1>5. x.size = 0 /\ 0 \in Nat /\ 0 < Msb
  BY <1>4, BlockIs, WalkAssumption
<1>6. SizeOf(0) = 0
  BY <1>1, <1>5, RawIs
<1>7. EndAt(g, 1) \in DOMAIN mem
  BY <1>1, <1>2, EndsInCells
<1>8. ~Misaligned(EndAt(g, 1))
  BY <1>1, <1>2, GroundIs DEF OnCell, Misaligned
<1>. QED BY <1>3, <1>6, <1>7, <1>8 DEF RegionEnd

\* What the walk has taken are blocks of the first region, and where it is
\* there is another, or the end.
LEMMA LinearReads ==
  ASSUME Seen, Raws, linear.cur # NoAddress, NEW g, g = Regions[build], NEW R, R = Real(chain) \cup used
  PROVE  /\ linear.blocks \in Seq(LinearBlock) /\ Len(linear.blocks) \in Nat
         /\ \A i \in 1..Len(linear.blocks) : Plain(linear.blocks[i]) \in R /\ End(linear.blocks[i]) <= EndAt(g, 1)
         /\ AtBlock(linear.cur, R, g)
<1>1. build \in Builds /\ Sound(chain, used, build) /\ DOMAIN mem = Cells /\ build.kind \in {2, 4, 5}
  BY SeenIs
<1>2. PICK L : L = linear.blocks
  OBVIOUS
<1>3. L \in Seq(LinearBlock) /\ linear \in WalkOver(Seq(LinearBlock))
  BY <1>2 DEF Seen, Inv, WalkTypeOK, WalkOver
<1>4. PICK n \in Nat : n = Len(L) /\ DOMAIN L = 1..n
  BY <1>3
<1>5. PICK r \in Nat : r = Len(g)
  BY <1>1, GroundIs DEF Ground
<1>6. LinearLow # NoAddress /\ HeapLimit # NoAddress
  BY DEF Seen, Inv, LinearShape
<1>7. /\ LinearLow = g[1][1] /\ r >= 1
      /\ build.kind # 5 => HeapLimit = EndAt(g, 1)
      /\ \A i \in 1..r : EndAt(g, i) \in Nat /\ EndAt(g, 1) <= EndAt(g, i)
  BY <1>5, <1>6, BoundsAre
<1>8. EndAt(g, 1) \in Nat
  BY <1>7
<1>9. \A i \in 1..n : /\ L[i] \in LinearBlock /\ L[i].address \in Nat /\ L[i].size \in Nat /\ L[i].size > 0
                      /\ End(L[i]) = L[i].address + L[i].size /\ End(L[i]) \in Nat
  <2>1. \A i \in 1..n : L[i] \in LinearBlock
    BY <1>3, <1>4
  <2>2. \A x \in LinearBlock : x.address \in Nat /\ x.size \in Nat /\ x.size > 0 /\ x.address + x.size \in Nat
    BY DEF LinearBlock
  <2>. QED BY <2>1, <2>2, BlockIs
<1>10. \A i \in 1..n : L[i].size = SizeOf(mem[L[i].address].raw) /\ End(L[i]) <= linear.cur
  <2>1. \A i \in DOMAIN L : L[i].size = SizeOf(mem[L[i].address].raw) /\ L[i].address + L[i].size <= linear.cur
    BY <1>2 DEF Seen, Inv, LinearShape
  <2>. QED BY <1>4, <1>9, <2>1
<1>11. L = << >> <=> n = 0
  BY <1>3, <1>4, EmptySeq
<1>12. /\ n = 0 => linear.cur = g[1][1]
       /\ n # 0 => L[1].address = g[1][1] /\ linear.cur = End(L[n]) /\ linear.cur <= HeapLimit
       /\ \A i \in 1..(n - 1) : L[i + 1].address = End(L[i])
  <2>1. n = 0 => linear.cur = g[1][1]
    BY <1>2, <1>7, <1>11 DEF Seen, Inv, LinearShape
  <2>2. n # 0 => /\ L[1].address = LinearLow /\ linear.cur = L[n].address + L[n].size /\ linear.cur <= HeapLimit
                 /\ \A i \in 1..(n - 1) : L[i + 1].address = L[i].address + L[i].size
    BY <1>2, <1>4, <1>11 DEF Seen, Inv, LinearTiles
  <2>. QED BY <1>4, <1>7, <2>1, <2>2 DEF End
<1>13. PICK S : S = {m \in 0..n : /\ \A i \in 1..m : Plain(L[i]) \in R /\ End(L[i]) <= EndAt(g, 1)
                                  /\ m # 0 => AtBlock(End(L[m]), R, g)}
  OBVIOUS
<1>14. 0 \in S
  BY <1>13
<1>15. AtBlock(g[1][1], R, g) /\ \A y \in R : End(y) <= EndAt(g, 1) => AtBlock(End(y), R, g)
  BY <1>1, BlockFollows
<1>16. ASSUME NEW m \in 1..n, m - 1 \in S PROVE m \in S
  <2>1. (\A i \in 1..(m - 1) : Plain(L[i]) \in R /\ End(L[i]) <= EndAt(g, 1)) /\ (m - 1 # 0 => AtBlock(End(L[m - 1]), R, g))
    BY <1>13, <1>16
  <2>2. PICK p \in Nat : p = L[m].address
    BY <1>9
  <2>3. AtBlock(p, R, g)
    <3>1. CASE m = 1
      BY <1>12, <1>15, <2>2, <3>1
    <3>2. CASE m # 1
      <4>1. PICK j \in 1..(n - 1) : j = m - 1
        BY <3>2
      <4>2. L[j + 1].address = End(L[j]) /\ j + 1 = m
        BY <1>12, <4>1
      <4>. QED BY <2>1, <2>2, <3>2, <4>1, <4>2
    <3>. QED BY <3>1, <3>2
  <2>4. p # EndAt(g, 1)
    <3>1. L[m].size = SizeOf(mem[p].raw) /\ L[m].size \in Nat /\ L[m].size > 0 /\ End(L[m]) = p + L[m].size /\ End(L[m]) <= linear.cur
      BY <1>9, <1>10, <2>2
    <3>2. CASE build.kind = 5
      <4>1. SizeOf(mem[EndAt(g, 1)].raw) = 0
        BY <3>2, EndRead
      <4>. QED BY <3>1, <4>1
    <3>3. CASE build.kind # 5
      <4>1. n # 0
        OBVIOUS
      <4>2. PICK c \in Nat : c = linear.cur
        BY <1>3, <1>8, <1>12, <4>1, <1>9
      <4>3. c <= EndAt(g, 1)
        BY <1>7, <1>12, <3>3, <4>1, <4>2
      <4>. QED BY <1>8, <3>1, <4>2, <4>3
    <3>. QED BY <3>2, <3>3
  <2>5. PICK y \in R : y.address = p /\ End(y) <= EndAt(g, 1)
    BY <2>3, <2>4 DEF AtBlock
  <2>6. L[m].size = y.size /\ y \in ListBlock
    <3>1. SizeOf(mem[y.address].raw) = y.size /\ y \in ListBlock
      BY BlockRead
    <3>. QED BY <1>10, <2>2, <2>5, <3>1
  <2>7. Plain(L[m]) = y
    <3>1. y = Block(y.address, y.size)
      BY <2>6, BlockIs
    <3>2. Plain(L[m]) = Block(L[m].address, L[m].size)
      BY DEF Plain, Block
    <3>. QED BY <2>2, <2>5, <2>6, <3>1, <3>2
  <2>8. End(L[m]) = End(y)
    BY <2>2, <2>5, <2>6 DEF End
  <2>9. AtBlock(End(L[m]), R, g)
    BY <1>15, <2>5, <2>8
  <2>10. \A i \in 1..m : Plain(L[i]) \in R /\ End(L[i]) <= EndAt(g, 1)
    <3> SUFFICES ASSUME NEW i \in 1..m PROVE Plain(L[i]) \in R /\ End(L[i]) <= EndAt(g, 1)
      OBVIOUS
    <3>1. CASE i = m
      BY <2>5, <2>7, <2>8, <3>1
    <3>2. CASE i # m
      <4>1. i \in 1..(m - 1)
        BY <3>2
      <4>. QED BY <2>1, <4>1
    <3>. QED BY <3>1, <3>2
  <2>. QED BY <1>13, <2>9, <2>10
<1>17. n \in S
  <2>1. 0..n \subseteq S
    BY <1>14, <1>16, UpTo
  <2>. QED BY <2>1
<1>18. AtBlock(linear.cur, R, g)
  <2>1. n # 0 => AtBlock(End(L[n]), R, g)
    BY <1>13, <1>17
  <2>. QED BY <1>12, <1>15, <2>1
<1>. QED BY <1>2, <1>3, <1>4, <1>13, <1>17, <1>18
\* Every block of the first region is one of those of a walk that has reached
\* its end.
LEMMA AllRead ==
  ASSUME Seen, Raws, linear.cur # NoAddress, NEW g, g = Regions[build], NEW R, R = Real(chain) \cup used,
         linear.cur = EndAt(g, 1), NEW y \in R, End(y) <= EndAt(g, 1)
  PROVE  \E i \in 1..Len(linear.blocks) : Plain(linear.blocks[i]) = y
<1>1. PICK L : L = linear.blocks
  OBVIOUS
<1>2. L \in Seq(LinearBlock) /\ \A i \in 1..Len(L) : Plain(L[i]) \in R
  BY <1>1, LinearReads
<1>3. PICK n \in Nat : n = Len(L) /\ DOMAIN L = 1..n
  BY <1>2
<1>4. build \in Builds /\ Sound(chain, used, build)
  BY SeenIs
<1>5. PICK r \in Nat : r = Len(g) /\ r >= 1
  BY <1>4, GroundIs DEF Ground
<1>6. LinearLow # NoAddress
  BY DEF Seen, Inv, LinearShape
<1>7. LinearLow = g[1][1] /\ DOMAIN g = 1..r /\ \A i \in 1..r : g[i][1] \in Nat /\ EndAt(g, i) \in Nat /\ g[i][1] < EndAt(g, i)
  BY <1>5, <1>6, BoundsAre
<1>8. \A i, j \in 1..r : i < j => EndAt(g, i) < g[j][1]
  BY <1>4, <1>5, <1>7, GroundIs DEF Ground
<1>9. /\ y.address \in Nat /\ y.size \in Nat /\ y.size > 0 /\ End(y) = y.address + y.size
  BY BlockRead
<1>10. g[1][1] <= y.address
  <2>1. Inside(y, g)
    BY <1>4, SoundBlocks
  <2>2. PICK i \in 1..r : g[i][1] <= y.address
    BY <1>7, <2>1 DEF Inside
  <2>3. 1 \in 1..r
    BY <1>5
  <2>4. PICK a \in Nat, c \in Nat, d \in Nat : a = g[1][1] /\ c = EndAt(g, 1) /\ d = g[i][1] /\ a < c
    BY <1>7, <2>3
  <2>5. i # 1 => c < d
    BY <1>8, <2>3, <2>4
  <2>6. i = 1 => a = d
    BY <2>4
  <2>7. a <= y.address
    BY <1>9, <2>2, <2>4, <2>5, <2>6
  <2>. QED BY <2>4, <2>7
<1>11. SUFFICES ASSUME \A i \in 1..n : Plain(L[i]) # y PROVE FALSE
  BY <1>1, <1>3
<1>12. \A i \in 1..n : /\ L[i].address \in Nat /\ L[i].size \in Nat /\ End(L[i]) = L[i].address + L[i].size
                       /\ End(L[i]) \in Nat /\ End(Plain(L[i])) = End(L[i]) /\ Plain(L[i]).address = L[i].address
  <2>1. \A i \in 1..n : L[i] \in LinearBlock
    BY <1>2, <1>3
  <2>2. \A x \in LinearBlock : x.address \in Nat /\ x.size \in Nat /\ x.address + x.size \in Nat
    BY DEF LinearBlock
  <2>3. \A x : End(x) = x.address + x.size /\ Plain(x).address = x.address /\ Plain(x).size = x.size
    BY DEF End, Plain
  <2>. QED BY <2>1, <2>2, <2>3
<1>13. L = << >> <=> n = 0
  BY <1>2, <1>3, EmptySeq
<1>14. /\ n = 0 => linear.cur = g[1][1]
       /\ n # 0 => L[1].address = g[1][1] /\ linear.cur = End(L[n])
       /\ \A i \in 1..(n - 1) : L[i + 1].address = End(L[i])
  <2>1. n = 0 => linear.cur = g[1][1]
    BY <1>1, <1>7, <1>13 DEF Seen, Inv, LinearShape
  <2>2. n # 0 => /\ L[1].address = LinearLow /\ linear.cur = L[n].address + L[n].size
                 /\ \A i \in 1..(n - 1) : L[i + 1].address = L[i].address + L[i].size
    BY <1>1, <1>3, <1>13 DEF Seen, Inv, LinearTiles
  <2>. QED BY <1>3, <1>7, <2>1, <2>2 DEF End
<1>15. \A x, z \in R : x = z \/ End(x) <= z.address \/ End(z) <= x.address
  BY <1>4 DEF Sound, Laid
<1>16. PICK S : S = {m \in 0..n : m # 0 => End(L[m]) <= y.address}
  OBVIOUS
<1>17. 0 \in S
  BY <1>16
<1>18. ASSUME NEW m \in 1..n, m - 1 \in S PROVE m \in S
  <2>1. L[m].address <= y.address
    <3>1. CASE m = 1
      BY <1>10, <1>14, <3>1
    <3>2. CASE m # 1
      <4>1. PICK j \in 1..(n - 1) : j = m - 1
        BY <3>2
      <4>2. L[j + 1].address = End(L[j]) /\ j + 1 = m /\ j # 0 /\ j \in S
        BY <1>14, <1>18, <4>1
      <4>. QED BY <1>16, <4>2
    <3>. QED BY <3>1, <3>2
  <2>2. PICK x \in R : x = Plain(L[m])
    BY <1>2, <1>3
  <2>3. End(x) = End(L[m]) /\ x.address = L[m].address /\ x # y
    BY <1>11, <1>12, <2>2
  <2>4. End(x) <= y.address \/ End(y) <= x.address
    BY <1>15, <2>3
  <2>5. ~(End(y) <= x.address)
    BY <1>9, <1>12, <2>1, <2>3
  <2>6. End(L[m]) <= y.address
    BY <2>3, <2>4, <2>5
  <2>. QED BY <1>16, <2>6
<1>19. n \in S
  <2>1. 0..n \subseteq S
    BY <1>17, <1>18, UpTo
  <2>. QED BY <2>1
<1>20. PICK c \in Nat : c = EndAt(g, 1)
  BY <1>5, <1>7
<1>21. c <= y.address
  BY <1>10, <1>14, <1>16, <1>19, <1>20
<1>. QED BY <1>9, <1>20, <1>21

\* What is allocated is told from what is free.
LEMMA TakenAs ==
  ASSUME Seen, Raws, linear.cur # NoAddress, Masked \/ list.blocks = chain, NEW R, R = Real(chain) \cup used
  PROVE  \A i \in 1..Len(linear.blocks) : linear.blocks[i].allocated <=> Plain(linear.blocks[i]) \in used
<1>1. PICK L : L = linear.blocks
  OBVIOUS
<1>2. L \in Seq(LinearBlock) /\ \A i \in 1..Len(L) : Plain(L[i]) \in R
  BY <1>1, LinearReads
<1>3. build \in Builds /\ Sound(chain, used, build) /\ chain \in Seq(ListBlock)
  BY SeenIs
<1> SUFFICES ASSUME NEW i \in 1..Len(L) PROVE L[i].allocated <=> Plain(L[i]) \in used
  BY <1>1
<1>4. PICK y \in R : y = Plain(L[i])
  BY <1>2
<1>5. i \in DOMAIN L /\ L[i].allocated \in BOOLEAN
  <2>1. i \in DOMAIN L /\ L[i] \in LinearBlock
    BY <1>2
  <2>. QED BY <2>1 DEF LinearBlock
<1>6. L[i].allocated = Allocated(L[i].address) /\ L[i].address = y.address
  <2>1. L[i].allocated = Allocated(L[i].address)
    BY <1>1, <1>5 DEF Seen, Inv, LinearShape
  <2>. QED BY <1>4, <2>1 DEF Plain
<1>7. CASE Masked
  <2>1. CarriesBit(mem[y.address].raw) <=> y \in used
    BY <1>7, BlockRead
  <2>. QED BY <1>4, <1>5, <1>6, <1>7, <2>1 DEF Allocated
<1>8. CASE ~Masked
  <2>1. L[i].allocated <=> y.address \notin Addresses(chain)
    BY <1>5, <1>6, <1>8 DEF Allocated
  <2>2. ASSUME y \in used PROVE y.address \notin Addresses(chain)
    <3> SUFFICES ASSUME NEW j \in DOMAIN chain, chain[j].address = y.address PROVE FALSE
      BY DEF Addresses
    <3>1. chain[j] \in ToSet(chain)
      BY <1>3, InSeq
    <3>2. chain[j] = y
      BY <1>3, <2>2, <3>1, SoundBlocks
    <3>. QED BY <1>3, <2>2, <3>1, <3>2 DEF Sound
  <2>3. ASSUME y \notin used PROVE y.address \in Addresses(chain)
    <3>1. y \in ToSet(chain)
      BY <2>3 DEF Real
    <3>2. PICK j \in 1..Len(chain) : chain[j] = y
      BY <1>3, <3>1, InSeq
    <3>3. j \in DOMAIN chain
      BY <1>3
    <3>. QED BY <3>2, <3>3 DEF Addresses
  <2>. QED BY <1>4, <2>1, <2>2, <2>3
<1>. QED BY <1>7, <1>8

\* A sequence and a set have no more members than both together.
LEMMA SeqAndSet ==
  ASSUME NEW X, NEW s \in Seq(X), NEW U, IsFiniteSet(U)
  PROVE  /\ IsFiniteSet(ToSet(s) \cup U) /\ Cardinality(ToSet(s) \cup U) \in Nat /\ Cardinality(U) \in Nat
         /\ Cardinality(ToSet(s) \cup U) <= Len(s) + Cardinality(U)
<1>1. PICK n \in Nat, u \in Nat : n = Len(s) /\ u = Cardinality(U)
  BY FS_CardinalityType
<1>2. PICK h \in Surjection(1..u, U) : TRUE
  <2>1. ExistsBijection(1..u, U)
    BY <1>1, FS_CardinalityType
  <2>. QED BY <2>1 DEF ExistsBijection, Bijection
<1>3. h \in [1..u -> U] /\ \A x \in U : \E i \in 1..u : h[i] = x
  BY DEF Surjection
<1>4. PICK f : f = [i \in 1..(n + u) |-> IF i <= n THEN s[i] ELSE h[i - n]]
  OBVIOUS
<1>5. \A i \in 1..(n + u) : f[i] \in ToSet(s) \cup U
  <2> SUFFICES ASSUME NEW i \in 1..(n + u) PROVE f[i] \in ToSet(s) \cup U
    OBVIOUS
  <2>1. CASE i <= n
    <3>1. i \in 1..Len(s)
      BY <1>1, <2>1
    <3>2. s[i] \in ToSet(s)
      BY <3>1, InSeq
    <3>. QED BY <1>4, <2>1, <3>2
  <2>2. CASE ~(i <= n)
    <3>1. i - n \in 1..u
      BY <2>2
    <3>. QED BY <1>3, <1>4, <2>2, <3>1
  <2>. QED BY <2>1, <2>2
<1>6. \A x \in ToSet(s) \cup U : \E i \in 1..(n + u) : f[i] = x
  <2> SUFFICES ASSUME NEW x \in ToSet(s) \cup U PROVE \E i \in 1..(n + u) : f[i] = x
    OBVIOUS
  <2>1. CASE x \in ToSet(s)
    <3>1. PICK i \in 1..Len(s) : s[i] = x
      BY <2>1, InSeq
    <3>2. i \in 1..(n + u) /\ i <= n
      BY <1>1
    <3>. QED BY <1>4, <3>1, <3>2
  <2>2. CASE x \in U
    <3>1. PICK i \in 1..u : h[i] = x
      BY <1>3, <2>2
    <3>2. PICK j \in 1..(n + u) : j = n + i
      OBVIOUS
    <3>3. ~(j <= n) /\ j - n = i
      BY <3>2
    <3>. QED BY <1>4, <3>1, <3>2, <3>3
  <2>. QED BY <2>1, <2>2
<1>7. f \in Surjection(1..(n + u), ToSet(s) \cup U)
  BY <1>4, <1>5, <1>6 DEF Surjection
<1>8. IsFiniteSet(1..(n + u)) /\ n + u \in Nat
  BY FS_Interval
<1>9. IsFiniteSet(ToSet(s) \cup U)
  BY <1>7, <1>8, FS_Surjection
<1>10. Cardinality(ToSet(s) \cup U) <= n + u
  BY <1>7, <1>8, FS_SurjCardinalityBound DEF ExistsSurjection
<1>. QED BY <1>1, <1>9, <1>10, FS_CardinalityType
\* The walk of the extent takes no block twice, and stays within its bound
\* while there is one left to take.
LEMMA LinearFits ==
  ASSUME Seen, Raws, linear.cur # NoAddress, Fits, NEW R, R = Real(chain) \cup used
  PROVE  /\ \A i, j \in 1..Len(linear.blocks) : Plain(linear.blocks[i]) = Plain(linear.blocks[j]) => i = j
         /\ build.kind = 5 => ~Exhausted(linear)
         /\ (\E y \in R : y.address = linear.cur) => ~Exhausted(linear)
<1>1. PICK L : L = linear.blocks
  OBVIOUS
<1>2. PICK g : g = Regions[build]
  OBVIOUS
<1>3. L \in Seq(LinearBlock) /\ \A i \in 1..Len(L) : Plain(L[i]) \in R
  BY <1>1, <1>2, LinearReads
<1>4. PICK n \in Nat : n = Len(L) /\ DOMAIN L = 1..n
  BY <1>3
<1>5. chain \in Seq(ListBlock) /\ IsFiniteSet(used)
  BY SeenIs
<1>6. PICK c \in Nat, u \in Nat : c = Len(chain) /\ u = Cardinality(used)
  BY <1>5, FS_CardinalityType
<1>7. IsFiniteSet(R) /\ Cardinality(R) \in Nat /\ Cardinality(R) <= c + u
  <2>1. PICK T : T = ToSet(chain) \cup used
    OBVIOUS
  <2>2. IsFiniteSet(T) /\ Cardinality(T) \in Nat /\ Cardinality(T) <= c + u
    BY <1>5, <1>6, <2>1, SeqAndSet
  <2>3. R \in SUBSET T
    BY <2>1 DEF Real
  <2>4. IsFiniteSet(R) /\ Cardinality(R) <= Cardinality(T)
    BY <2>2, <2>3, FS_Subset
  <2>5. Cardinality(R) \in Nat
    BY <2>4, FS_CardinalityType
  <2>. QED BY <2>2, <2>4, <2>5
<1>8. \A i \in 1..n : L[i].address \in Nat /\ L[i].size \in Nat /\ L[i].size > 0
  <2>1. \A i \in 1..n : L[i] \in LinearBlock
    BY <1>3, <1>4
  <2>. QED BY <2>1 DEF LinearBlock
<1>9. /\ \A i, j \in 1..n : i < j => L[i].address + L[i].size <= L[j].address
      /\ \A i \in 1..n : L[i].address + L[i].size <= linear.cur
  BY <1>1, <1>4 DEF Seen, Inv, LinearShape
<1>10. ASSUME NEW i \in 1..n, NEW j \in 1..n, Plain(L[i]) = Plain(L[j]) PROVE i = j
  <2>1. L[i].address = L[j].address
    BY <1>10 DEF Plain
  <2>2. ~(i < j) /\ ~(j < i)
    BY <1>8, <1>9, <2>1
  <2>. QED BY <2>2
<1>11. PICK f : f = [i \in 1..n |-> Plain(L[i])]
  OBVIOUS
<1>12. ASSUME NEW Q, IsFiniteSet(Q), \A i \in 1..n : Plain(L[i]) \in Q PROVE n <= Cardinality(Q)
  <2>1. \A i \in 1..n : f[i] \in Q
    BY <1>11, <1>12
  <2>2. \A i, j \in 1..n : f[i] = f[j] => i = j
    BY <1>10, <1>11
  <2>3. f \in Injection(1..n, Q)
    BY <1>11, <2>1, <2>2 DEF Injection, IsInjective
  <2>4. Cardinality(1..n) <= Cardinality(Q)
    BY <1>12, <2>3, FS_Injection
  <2>5. Cardinality(1..n) = n
    BY FS_Interval
  <2>. QED BY <2>4, <2>5
<1>13. n <= Cardinality(R)
  BY <1>3, <1>4, <1>7, <1>12
<1>14. c + u + (IF build.kind = 5 THEN 1 ELSE 0) <= MaxTraversal
  BY <1>6 DEF Fits
<1>15. build.kind = 5 => ~Exhausted(linear)
  <2>1. build.kind = 5 => n < MaxTraversal
    BY <1>7, <1>13, <1>14, WalkAssumption
  <2>. QED BY <1>1, <1>4, <2>1, WalkAssumption DEF Exhausted
<1>16. ASSUME NEW y \in R, y.address = linear.cur PROVE ~Exhausted(linear)
  <2>1. ASSUME NEW i \in 1..n PROVE Plain(L[i]) # y
    <3>1. L[i].address + L[i].size <= y.address
      BY <1>9, <1>16
    <3>2. y.address \in Nat
      BY BlockRead
    <3>3. L[i].address # y.address
      BY <1>8, <3>1, <3>2
    <3>. QED BY <3>3 DEF Plain
  <2>2. IsFiniteSet(R \ {y}) /\ Cardinality(R \ {y}) = Cardinality(R) - 1
    BY <1>7, FS_RemoveElement
  <2>3. n <= Cardinality(R) - 1
    BY <1>3, <1>4, <1>12, <2>1, <2>2
  <2>4. n < MaxTraversal
    BY <1>7, <1>14, <2>3, WalkAssumption
  <2>. QED BY <1>1, <1>4, <2>4, WalkAssumption DEF Exhausted
<1>. QED BY <1>1, <1>4, <1>10, <1>15, <1>16

\* Where the walk is while there is something before it: at a block it takes,
\* or at the end of a region of heap_5.
LEMMA LinearAhead ==
  ASSUME Seen, Raws, linear.cur # NoAddress, NEW g, g = Regions[build], NEW n \in Nat, n = Len(g)
  PROVE  /\ linear.cur \in Nat /\ EndAt(g, 1) \in Nat /\ linear.cur <= EndAt(g, 1)
         /\ \/ linear.cur = EndAt(g, 1)
            \/ /\ \E y \in Real(chain) \cup used : y.address = linear.cur
               /\ LinearTakes(linear.cur) /\ ~RegionEnd(linear.cur) /\ ~LinearDone
         /\ linear.cur = EndAt(g, 1) => (IF build.kind = 5 THEN ~LinearDone /\ RegionEnd(linear.cur)
                                         ELSE LinearDone /\ linear.cur = HeapLimit)
         /\ build.kind = 5 => (heap.end = EndAt(g, 1) <=> n = 1) /\ EndAt(g, 1) <= heap.end
<1>1. PICK R : R = Real(chain) \cup used
  OBVIOUS
<1>2. AtBlock(linear.cur, R, g)
  BY <1>1, LinearReads
<1>3. LinearLow # NoAddress /\ HeapLimit # NoAddress
  BY DEF Seen, Inv, LinearShape
<1>4. /\ n >= 1 /\ build.kind \in {2, 4, 5}
      /\ build.kind = 5 => HeapLimit = EndAt(g, n) + 2
      /\ build.kind # 5 => HeapLimit = EndAt(g, 1)
      /\ build.kind # 2 => heap.end = EndAt(g, n)
      /\ \A i \in 1..n : /\ g[i][1] \in Nat /\ EndAt(g, i) \in Nat /\ g[i][1] < EndAt(g, i)
                         /\ EndAt(g, 1) <= EndAt(g, i) /\ (i # 1 => EndAt(g, 1) < g[i][1])
  BY <1>3, BoundsAre, SeenIs
<1>5. PICK to \in Nat, hi \in Nat : to = EndAt(g, 1) /\ hi = EndAt(g, n) /\ to <= hi /\ (n # 1 => to < hi) /\ (n = 1 => to = hi)
  <2>1. 1 \in 1..n /\ n \in 1..n
    BY <1>4
  <2>2. /\ EndAt(g, 1) \in Nat /\ EndAt(g, n) \in Nat /\ EndAt(g, 1) <= EndAt(g, n) /\ g[n][1] \in Nat
        /\ g[n][1] < EndAt(g, n) /\ (n # 1 => EndAt(g, 1) < g[n][1])
    BY <1>4, <2>1
  <2>3. n # 1 => EndAt(g, 1) < EndAt(g, n)
    BY <2>2
  <2>4. n = 1 => EndAt(g, 1) = EndAt(g, n)
    OBVIOUS
  <2>. QED BY <2>2, <2>3, <2>4
<1>6. HeapLimit \in Nat /\ to <= HeapLimit
  BY <1>4, <1>5
<1>7. ASSUME NEW y \in R, y.address = linear.cur, End(y) <= to
      PROVE  /\ linear.cur \in Nat /\ linear.cur <= to
             /\ LinearTakes(linear.cur) /\ ~RegionEnd(linear.cur) /\ ~LinearDone
  <2>1. /\ y.address \in Nat /\ y.size \in Nat /\ y.size > 0 /\ End(y) = y.address + y.size
        /\ y.address \in DOMAIN mem /\ ~Misaligned(y.address) /\ SizeOf(mem[y.address].raw) = y.size
    BY <1>1, BlockRead
  <2>2. y.address + y.size <= HeapLimit /\ y.address < HeapLimit /\ y.address <= to
    BY <1>5, <1>6, <1>7, <2>1
  <2>3. LinearTakes(y.address)
    BY <2>1, <2>2 DEF LinearTakes
  <2>4. ~RegionEnd(y.address)
    BY <2>1 DEF RegionEnd
  <2>5. ~LinearDone
    BY <1>6, <1>7, <2>1, <2>2 DEF LinearDone
  <2>. QED BY <1>7, <2>1, <2>2, <2>3, <2>4, <2>5
<1>8. ASSUME linear.cur = to
      PROVE  IF build.kind = 5 THEN ~LinearDone /\ RegionEnd(linear.cur) ELSE LinearDone /\ linear.cur = HeapLimit
  <2>1. CASE build.kind = 5
    <3>1. RegionEnd(to)
      BY <1>5, <2>1, EndRead
    <3>2. to < HeapLimit /\ to # NoAddress
      BY <1>4, <1>5, <2>1 DEF NoAddress
    <3>3. ~LinearDone
      BY <1>6, <1>8, <3>2 DEF LinearDone
    <3>. QED BY <1>8, <2>1, <3>1, <3>3
  <2>2. CASE build.kind # 5
    <3>1. HeapLimit = to
      BY <1>4, <1>5, <2>2
    <3>2. to >= HeapLimit
      BY <3>1
    <3>. QED BY <1>8, <2>2, <3>1, <3>2 DEF LinearDone
  <2>. QED BY <2>1, <2>2
<1>9. build.kind = 5 => (heap.end = to <=> n = 1) /\ to <= heap.end
  BY <1>4, <1>5
<1>10. linear.cur = to \/ \E y \in R : y.address = linear.cur /\ End(y) <= to
  BY <1>2, <1>5 DEF AtBlock
<1>. QED BY <1>1, <1>5, <1>7, <1>8, <1>9, <1>10

\* A healthy extent is walked to the end of its first region.
LEMMA LinearWhole ==
  ASSUME Seen, Raws, linear.cur # NoAddress, Fits, NEW g, g = Regions[build], NEW n \in Nat, n = Len(g)
  PROVE  /\ linear.cur = EndAt(g, 1) /\ ~linear.corrupt /\ ~linear.truncated
         /\ build.kind = 5 => (linear.incomplete <=> n # 1)
<1>1. LinearEnded
  BY DEF Seen, Trace
<1>2. PICK R : R = Real(chain) \cup used
  OBVIOUS
<1>3. /\ \/ linear.cur = EndAt(g, 1)
         \/ /\ \E y \in R : y.address = linear.cur
            /\ LinearTakes(linear.cur) /\ ~RegionEnd(linear.cur) /\ ~LinearDone
      /\ linear.cur = EndAt(g, 1) => (IF build.kind = 5 THEN ~LinearDone /\ RegionEnd(linear.cur)
                                      ELSE LinearDone /\ linear.cur = HeapLimit)
      /\ build.kind = 5 => (heap.end = EndAt(g, 1) <=> n = 1)
  BY <1>2, LinearAhead
<1>4. (build.kind = 5 => ~Exhausted(linear)) /\ ((\E y \in R : y.address = linear.cur) => ~Exhausted(linear))
  BY <1>2, LinearFits
<1>5. linear.cur = EndAt(g, 1)
  BY <1>1, <1>3, <1>4 DEF LinearEnded
<1>6. linear.incomplete \in BOOLEAN /\ linear.corrupt \in BOOLEAN
  BY DEF Seen, Inv, WalkTypeOK, WalkOver
<1>7. CASE build.kind = 5
  <2>1. ~linear.truncated /\ ~linear.corrupt /\ linear.incomplete = (linear.cur # heap.end)
    BY <1>1, <1>3, <1>4, <1>5, <1>7 DEF LinearEnded
  <2>. QED BY <1>3, <1>5, <1>6, <1>7, <2>1
<1>8. CASE build.kind # 5
  <2>1. ~linear.truncated /\ linear.corrupt = (linear.cur # HeapLimit)
    BY <1>1, <1>3, <1>5, <1>8 DEF LinearEnded
  <2>. QED BY <1>3, <1>5, <1>6, <1>8, <2>1
<1>. QED BY <1>7, <1>8

\* A walk whose verdict is given has seen all there is.
LEMMA LinearJudged ==
  ASSUME Seen, Raws, linear.cur # NoAddress, Comparable, NEW g, g = Regions[build], NEW n \in Nat, n = Len(g)
  PROVE  linear.cur = EndAt(g, 1) /\ n = 1
<1>1. LinearEnded
  BY DEF Seen, Trace
<1>2. /\ \/ linear.cur = EndAt(g, 1)
         \/ LinearTakes(linear.cur) /\ ~RegionEnd(linear.cur) /\ ~LinearDone
      /\ linear.cur = EndAt(g, 1) => (IF build.kind = 5 THEN ~LinearDone /\ RegionEnd(linear.cur)
                                      ELSE LinearDone /\ linear.cur = HeapLimit)
      /\ build.kind = 5 => (heap.end = EndAt(g, 1) <=> n = 1)
  BY LinearAhead
<1>3. linear.incomplete \in BOOLEAN /\ ~linear.truncated /\ ~linear.corrupt /\ (build.kind = 5 => ~linear.incomplete)
  BY DEF Seen, Inv, WalkTypeOK, WalkOver, Comparable
<1>4. linear.cur = EndAt(g, 1)
  BY <1>1, <1>2, <1>3 DEF LinearEnded
<1>5. CASE build.kind = 5
  <2>1. linear.incomplete = (linear.cur # heap.end)
    BY <1>1, <1>2, <1>3, <1>4, <1>5 DEF LinearEnded
  <2>. QED BY <1>2, <1>3, <1>4, <1>5, <2>1
<1>6. CASE build.kind # 5
  BY <1>4, <1>6, BoundsAre
<1>. QED BY <1>5, <1>6
-----------------------------------------------------------------------------
\* What both walks say of a heap that is as its memory says.

\* In one region the free blocks of the extent are those of the free list, and
\* the others are the allocated ones.
LEMMA FreeAre ==
  ASSUME Seen, Raws, linear.cur # NoAddress, NEW g, g = Regions[build], Len(g) = 1, linear.cur = EndAt(g, 1),
         Masked \/ list.blocks = chain
  PROVE  /\ \A j \in FreeOf(linear.blocks) : Plain(linear.blocks[j]) \in ToSet(chain)
         /\ \A x \in ToSet(chain) : \E j \in FreeOf(linear.blocks) : Plain(linear.blocks[j]) = x
         /\ \A j \in 1..Len(linear.blocks) :
              /\ linear.blocks[j].allocated => Plain(linear.blocks[j]) \in used
              /\ j \notin FreeOf(linear.blocks) => linear.blocks[j].allocated
         /\ \A x \in used : \E j \in 1..Len(linear.blocks) : linear.blocks[j].allocated /\ Plain(linear.blocks[j]) = x
         /\ \A x \in ToSet(chain) : x.size > 0
         /\ linear.blocks # << >>
<1>1. PICK L : L = linear.blocks
  OBVIOUS
<1>2. PICK R : R = Real(chain) \cup used
  OBVIOUS
<1>3. build \in Builds /\ Sound(chain, used, build) /\ chain \in Seq(ListBlock)
  BY SeenIs
<1>4. L \in Seq(LinearBlock) /\ \A i \in 1..Len(L) : Plain(L[i]) \in R
  BY <1>1, <1>2, LinearReads
<1>5. PICK n \in Nat : n = Len(L) /\ DOMAIN L = 1..n
  BY <1>4
<1>6. \A i \in 1..n : (L[i].allocated <=> Plain(L[i]) \in used)
  BY <1>1, <1>2, <1>5, TakenAs
<1>7. FreeOf(L) \subseteq 1..n /\ \A j \in 1..n : j \in FreeOf(L) <=> ~L[j].allocated
  BY <1>5 DEF FreeOf
<1>8. DOMAIN g = 1..1 /\ EndAt(g, 1) \in Nat /\ g[1][1] < EndAt(g, 1) /\ g[1][1] \in Nat
  <2>1. Ground(g)
    BY <1>3, GroundIs
  <2>2. DOMAIN g = 1..1 /\ 1 \in DOMAIN g
    BY <2>1 DEF Ground
  <2>. QED BY <2>1, <2>2 DEF Ground
<1>9. ASSUME NEW x \in R PROVE \E j \in 1..n : Plain(L[j]) = x
  <2>1. Inside(x, g)
    BY <1>2, <1>3, SoundBlocks
  <2>2. End(x) <= EndAt(g, 1)
    BY <1>8, <2>1 DEF Inside
  <2>. QED BY <1>1, <1>2, <1>5, <2>2, AllRead
<1>10. ASSUME NEW x \in ToSet(chain) PROVE x.size > 0 /\ x \in Real(chain) /\ x \notin used
  <2>1. ASSUME x.size = 0 PROVE FALSE
    <3>1. PICK i \in 1..Len(chain) : chain[i] = x
      BY <1>3, InSeq
    <3>2. \E k \in 1..(Len(g) - 1) : chain[i].address = EndAt(g, k)
      BY <1>3, <2>1, <3>1 DEF Sound, Ordered
    <3>. QED BY <3>2
  <2>2. x \in Real(chain)
    BY <1>3, <2>1, SoundBlocks
  <2>3. x \notin used
    BY <1>3 DEF Sound
  <2>. QED BY <2>2, <2>3 DEF Real
<1>11. ASSUME NEW j \in FreeOf(L) PROVE Plain(L[j]) \in ToSet(chain)
  BY <1>2, <1>4, <1>5, <1>6, <1>7 DEF Real
<1>12. ASSUME NEW x \in ToSet(chain) PROVE \E j \in FreeOf(L) : Plain(L[j]) = x
  <2>1. x \in R /\ x \notin used
    BY <1>2, <1>10
  <2>2. PICK j \in 1..n : Plain(L[j]) = x
    BY <1>9, <2>1
  <2>. QED BY <1>6, <1>7, <2>1, <2>2
<1>13. ASSUME NEW x \in used PROVE \E j \in 1..n : L[j].allocated /\ Plain(L[j]) = x
  <2>1. x \in R
    BY <1>2
  <2>2. PICK j \in 1..n : Plain(L[j]) = x
    BY <1>9, <2>1
  <2>. QED BY <1>6, <2>2
<1>14. L # << >>
  <2>1. ASSUME L = << >> PROVE FALSE
    <3>1. linear.cur = LinearLow /\ LinearLow # NoAddress
      BY <1>1, <2>1 DEF Seen, Inv, LinearShape
    <3>2. LinearLow = g[1][1]
      <4>1. PICK r \in Nat : r = Len(g)
        OBVIOUS
      <4>. QED BY <3>1, <4>1, BoundsAre
    <3>. QED BY <1>8, <3>1, <3>2
  <2>. QED BY <2>1
<1>15. \A j \in 1..n : (L[j].allocated => Plain(L[j]) \in used) /\ (j \notin FreeOf(L) => L[j].allocated)
  BY <1>6, <1>7
<1>. QED BY <1>1, <1>5, <1>10, <1>11, <1>12, <1>13, <1>14, <1>15

\* No two blocks of the free list are one.
LEMMA ChainDistinct ==
  ASSUME Seen
  PROVE  Distinct(chain)
<1>1. \A i, j \in 1..Len(chain) : chain[i].address = chain[j].address => i = j
  BY SeenIs DEF Sound, Ordered
<1>. QED BY <1>1 DEF Distinct

\* Then both walks agree, with the kernel's counter too.
LEMMA HealthyAgrees ==
  ASSUME Seen, Raws, Links, linear.cur # NoAddress, NEW g, g = Regions[build], Len(g) = 1,
         linear.cur = EndAt(g, 1), list.blocks = chain
  PROVE  Agree /\ linear.frees = Len(chain) /\ linear.bytes # -1
<1>1. chain \in Seq(ListBlock) /\ Len(chain) \in Nat /\ Initialised /\ HasBlocks
  BY SeenIs
<1>2. SumIs(chain, heap.counter) /\ heap.counter \in Nat
  <2>1. heap.counter \in Nat
    BY SeenIs DEF Statics
  <2>2. InHand(op) = 0
    BY DEF Seen, InHand
  <2>3. PICK t \in Nat : t = heap.counter /\ t - 0 = t
    BY <2>1
  <2>4. SumIs(chain, t - 0)
    BY <2>2, <2>3 DEF Links, Counts
  <2>. QED BY <2>3, <2>4
<1>3. SumIs(chain, list.bytes) /\ list.bytes \in Int
  <2>1. Follows(mem, heap, list)
    BY ListFollows DEF Links
  <2>2. list.bytes \in Int
    BY DEF Seen, Inv, WalkTypeOK, WalkOver
  <2>. QED BY <2>1, <2>2 DEF Follows
<1>4. list.bytes = heap.counter
  <2>1. SameBlocksIn(chain, chain)
    BY DEF SameBlocksIn
  <2>. QED BY <1>1, <1>2, <1>3, <2>1, ChainDistinct, SumUnique
<1>5. /\ \A j \in FreeOf(linear.blocks) : Plain(linear.blocks[j]) \in ToSet(chain)
      /\ \A x \in ToSet(chain) : \E j \in FreeOf(linear.blocks) : Plain(linear.blocks[j]) = x
  BY FreeAre
<1>6. PICK f : Adds(f, linear)
  BY DEF Seen, Trace, FreePart
<1>7. /\ f \in Seq(ListBlock) /\ Distinct(f) /\ Len(f) = linear.frees /\ SumIs(f, linear.bytes)
      /\ \A i \in 1..Len(f) : \E j \in FreeOf(linear.blocks) : f[i] = Plain(linear.blocks[j])
      /\ \A j \in FreeOf(linear.blocks) : \E i \in 1..Len(f) : f[i] = Plain(linear.blocks[j])
  BY <1>6 DEF Adds
<1>8. linear.bytes \in Nat
  BY DEF Seen, Inv, LinearShape, WalkTypeOK, WalkOver
<1>9. SameBlocksIn(chain, f)
  <2>1. ASSUME NEW i \in 1..Len(chain) PROVE \E k \in 1..Len(f) : f[k] = chain[i]
    <3>1. chain[i] \in ToSet(chain)
      BY <1>1, InSeq
    <3>2. PICK j \in FreeOf(linear.blocks) : Plain(linear.blocks[j]) = chain[i]
      BY <1>5, <3>1
    <3>. QED BY <1>7, <3>2
  <2>2. ASSUME NEW k \in 1..Len(f) PROVE \E i \in 1..Len(chain) : chain[i] = f[k]
    <3>1. PICK j \in FreeOf(linear.blocks) : f[k] = Plain(linear.blocks[j])
      BY <1>7
    <3>2. f[k] \in ToSet(chain)
      BY <1>5, <3>1
    <3>. QED BY <1>1, <3>2, InSeq
  <2>. QED BY <2>1, <2>2 DEF SameBlocksIn
<1>10. linear.bytes = list.bytes /\ Len(f) = Len(chain)
  <2>1. linear.bytes \in Int
    BY <1>8
  <2>. QED BY <1>1, <1>3, <1>7, <1>9, <2>1, ChainDistinct, SumUnique
<1>11. Addresses(chain) = {linear.blocks[j].address : j \in FreeOf(linear.blocks)}
  <2>1. ASSUME NEW i \in DOMAIN chain PROVE \E j \in FreeOf(linear.blocks) : linear.blocks[j].address = chain[i].address
    <3>1. chain[i] \in ToSet(chain)
      BY <1>1, InSeq
    <3>2. PICK j \in FreeOf(linear.blocks) : Plain(linear.blocks[j]) = chain[i]
      BY <1>5, <3>1
    <3>. QED BY <3>2 DEF Plain
  <2>2. ASSUME NEW j \in FreeOf(linear.blocks) PROVE \E i \in DOMAIN chain : chain[i].address = linear.blocks[j].address
    <3>1. Plain(linear.blocks[j]) \in ToSet(chain)
      BY <1>5
    <3>2. PICK i \in 1..Len(chain) : chain[i] = Plain(linear.blocks[j])
      BY <1>1, <3>1, InSeq
    <3>3. i \in DOMAIN chain
      BY <1>1
    <3>4. chain[i].address = linear.blocks[j].address
      BY <3>2 DEF Plain
    <3>. QED BY <3>3, <3>4
  <2>3. \A a \in Addresses(chain) : a \in {linear.blocks[j].address : j \in FreeOf(linear.blocks)}
    BY <2>1 DEF Addresses
  <2>4. \A a \in {linear.blocks[j].address : j \in FreeOf(linear.blocks)} : a \in Addresses(chain)
    BY <2>2 DEF Addresses
  <2>. QED BY <2>3, <2>4
<1>12. linear.frees = Len(chain)
  BY <1>7, <1>10
<1>13. Agree
  BY <1>4, <1>10, <1>11, <1>12 DEF Agree
<1>14. linear.bytes # -1
  BY <1>8
<1>. QED BY <1>12, <1>13, <1>14

\* Each free block of heap_4 is a hole of its own, for it merges them.
LEMMA HealthyHoles ==
  ASSUME Seen, Raws, linear.cur # NoAddress, NEW g, g = Regions[build], Len(g) = 1,
         linear.cur = EndAt(g, 1), Masked \/ list.blocks = chain, build.kind = 4
  PROVE  linear.holes = linear.frees
<1>1. PICK L : L = linear.blocks
  OBVIOUS
<1>2. /\ chain \in Seq(ListBlock) /\ build \in Builds /\ Sound(chain, used, build) /\ Merged(chain, build)
  BY SeenIs
<1>3. PICK c \in Nat : c = Len(chain)
  BY <1>2
<1>4. /\ \A j \in FreeOf(L) : Plain(L[j]) \in ToSet(chain)
      /\ \A x \in ToSet(chain) : x.size > 0
      /\ \A j \in 1..Len(L) : j \notin FreeOf(L) => L[j].allocated
  BY <1>1, FreeAre
<1>5. L \in Seq(LinearBlock) /\ Len(L) \in Nat
  BY <1>1 DEF Seen, Inv, WalkTypeOK, WalkOver
<1>6. \A i \in 1..(Len(L) - 1) : L[i + 1].address = L[i].address + L[i].size
  <2>1. L # << >>
    BY <1>1, FreeAre
  <2>. QED BY <1>1, <2>1 DEF Seen, Inv, LinearTiles
<1>7. ASSUME NEW i \in 1..(Len(L) - 1), ~L[i].allocated, ~L[i + 1].allocated PROVE FALSE
  <2>1. i \in FreeOf(L) /\ i + 1 \in FreeOf(L)
    BY <1>4, <1>5, <1>7
  <2>2. PICK j \in 1..c : chain[j] = Plain(L[i])
    BY <1>2, <1>3, <1>4, <2>1, InSeq
  <2>3. PICK k \in 1..c : chain[k] = Plain(L[i + 1])
    BY <1>2, <1>3, <1>4, <2>1, InSeq
  <2>4. chain[k].address = End(chain[j])
    <3>1. chain[j].address = L[i].address /\ chain[j].size = L[i].size /\ chain[k].address = L[i + 1].address
      BY <2>2, <2>3 DEF Plain
    <3>. QED BY <1>6, <3>1 DEF End
  <2>5. \A m \in 1..c : /\ chain[m].address \in Nat /\ chain[m].size \in Nat /\ chain[m].size > 0
                        /\ End(chain[m]) = chain[m].address + chain[m].size
                        /\ chain[m] \in Real(chain)
    <3>1. \A m \in 1..c : chain[m] \in ToSet(chain) /\ chain[m] \in ListBlock
      BY <1>2, <1>3, InSeq
    <3>. QED BY <1>4, <3>1, BlockIs DEF Real
  <2>6. \A m, p \in 1..c : m < p => chain[m].address < chain[p].address
    BY <1>2, <1>3 DEF Sound, Ordered
  <2>7. j < k
    <3>1. chain[j].address < chain[k].address
      BY <2>4, <2>5
    <3>2. ~(k < j) /\ k # j
      BY <2>5, <2>6, <3>1
    <3>. QED BY <3>2
  <2>8. k = j + 1
    <3>1. ASSUME k # j + 1 PROVE FALSE
      <4>1. PICK m \in 1..c : m = j + 1 /\ m < k /\ j < m
        BY <2>7, <3>1
      <4>2. chain[j].address < chain[m].address /\ chain[m].address < chain[k].address
        BY <2>6, <4>1
      <4>3. chain[m] = chain[j] \/ End(chain[m]) <= chain[j].address \/ End(chain[j]) <= chain[m].address
        BY <1>2, <2>5 DEF Sound, Laid
      <4>. QED BY <2>4, <2>5, <4>2, <4>3
    <3>. QED BY <3>1
  <2>9. Touch(chain, j)
    BY <1>3, <2>4, <2>7, <2>8 DEF Touch
  <2>. QED BY <1>2, <1>3, <2>9 DEF Merged
<1>8. HolesAreFrees(linear)
  BY DEF Seen, Trace
<1>. QED BY <1>1, <1>5, <1>7, <1>8 DEF HolesAreFrees
\* The rows of the block table, as a set.
RowOf(b, state) == [address |-> b.address, size |-> b.size, state |-> state]
RowsOf(state, blocks) == {RowOf(b, state) : b \in blocks}

\* Where the extent was walked, it tells free from allocated.
LEMMA TableIs ==
  ASSUME Seen, Raws, linear.cur # NoAddress, NEW g, g = Regions[build], Len(g) = 1, linear.cur = EndAt(g, 1),
         list.blocks = chain
  PROVE  ToSet(HeapBlockTable) = RowsOf("free", ToSet(chain)) \cup RowsOf("alloc", used)
<1>1. PICK L : L = linear.blocks
  OBVIOUS
<1>2. /\ \A j \in FreeOf(L) : Plain(L[j]) \in ToSet(chain)
      /\ \A x \in ToSet(chain) : \E j \in FreeOf(L) : Plain(L[j]) = x
      /\ \A j \in 1..Len(L) : (L[j].allocated => Plain(L[j]) \in used) /\ (j \notin FreeOf(L) => L[j].allocated)
      /\ \A x \in used : \E j \in 1..Len(L) : L[j].allocated /\ Plain(L[j]) = x
      /\ L # << >>
  BY <1>1, FreeAre
<1>3. L \in Seq(LinearBlock) /\ DOMAIN L = 1..Len(L)
  BY <1>1 DEF Seen, Inv, WalkTypeOK, WalkOver
<1>4. PICK D, T : D = 1..Len(L) /\ T = [i \in D |-> RowOf(L[i], IF L[i].allocated THEN "alloc" ELSE "free")]
  OBVIOUS
<1>5. HeapBlockTable = T
  BY <1>1, <1>2, <1>3, <1>4 DEF HeapBlockTable, RowOf
<1>6. \A j \in FreeOf(L) : j \in D /\ ~L[j].allocated
  BY <1>3, <1>4 DEF FreeOf
<1>7. \A x, st : RowOf(Plain(x), st) = RowOf(x, st)
  BY DEF RowOf, Plain
<1>8. ASSUME NEW i \in D PROVE T[i] \in RowsOf("free", ToSet(chain)) \cup RowsOf("alloc", used)
  <2>1. CASE L[i].allocated
    <3>1. T[i] = RowOf(Plain(L[i]), "alloc")
      BY <1>4, <1>7, <2>1
    <3>2. Plain(L[i]) \in used
      BY <1>2, <1>4, <2>1
    <3>. QED BY <3>1, <3>2 DEF RowsOf
  <2>2. CASE ~L[i].allocated
    <3>1. T[i] = RowOf(Plain(L[i]), "free")
      BY <1>4, <1>7, <2>2
    <3>2. Plain(L[i]) \in ToSet(chain)
      BY <1>2, <1>4, <2>2
    <3>. QED BY <3>1, <3>2 DEF RowsOf
  <2>. QED BY <2>1, <2>2
<1>9. ASSUME NEW x \in ToSet(chain) PROVE \E i \in D : T[i] = RowOf(x, "free")
  <2>1. PICK j \in FreeOf(L) : Plain(L[j]) = x
    BY <1>2
  <2>2. T[j] = RowOf(Plain(L[j]), "free") /\ j \in D
    BY <1>4, <1>6, <1>7
  <2>. QED BY <2>1, <2>2
<1>10. ASSUME NEW x \in used PROVE \E i \in D : T[i] = RowOf(x, "alloc")
  <2>1. PICK j \in D : L[j].allocated /\ Plain(L[j]) = x
    BY <1>2, <1>4
  <2>2. T[j] = RowOf(Plain(L[j]), "alloc")
    BY <1>4, <1>7, <2>1
  <2>. QED BY <2>1, <2>2
<1>11. ToSet(T) = {T[i] : i \in D}
  BY <1>4 DEF ToSet
<1>12. \A r \in ToSet(T) : r \in RowsOf("free", ToSet(chain)) \cup RowsOf("alloc", used)
  BY <1>8, <1>11
<1>13. \A r \in RowsOf("free", ToSet(chain)) \cup RowsOf("alloc", used) : r \in ToSet(T)
  BY <1>9, <1>10, <1>11 DEF RowsOf
<1>. QED BY <1>5, <1>12, <1>13

\* The rows where there was no extent to walk.
LEMMA ListTableIs ==
  ASSUME Seen, linear.blocks = << >>, list.blocks = chain
  PROVE  ToSet(HeapBlockTable) = RowsOf("listed", ToSet(chain))
<1>1. chain \in Seq(ListBlock)
  BY SeenIs
<1>2. PICK D, T : D = DOMAIN chain /\ T = [i \in D |-> RowOf(chain[i], "listed")]
  OBVIOUS
<1>3. HeapBlockTable = T
  BY <1>2 DEF HeapBlockTable, RowOf
<1>4. ToSet(T) = {T[i] : i \in D} /\ ToSet(chain) = {chain[i] : i \in D}
  BY <1>2 DEF ToSet
<1>5. \A r \in ToSet(T) : r \in RowsOf("listed", ToSet(chain))
  BY <1>2, <1>4 DEF RowsOf
<1>6. \A r \in RowsOf("listed", ToSet(chain)) : r \in ToSet(T)
  BY <1>2, <1>4 DEF RowsOf
<1>. QED BY <1>3, <1>5, <1>6

\* The verdict on a healthy heap, and what its report shows.
LEMMA HealthySeen ==
  ASSUME KernelInv, Inv, Trace, at = "done", Healthy, Fits, build.kind = 5 \/ build.array
  PROVE  /\ Seen /\ list.blocks = chain
         /\ ~list.corrupt /\ ~list.truncated /\ ~linear.corrupt /\ ~linear.truncated
         /\ check = (IF Walkable THEN "ok" ELSE "unavailable")
         /\ Walkable => /\ linear.blocks # << >> /\ linear.bytes # -1
                        /\ ToSet(HeapBlockTable) = RowsOf("free", ToSet(chain)) \cup RowsOf("alloc", used)
         /\ LinearLow = NoAddress => linear.blocks = << >> /\ ToSet(HeapBlockTable) = RowsOf("listed", ToSet(chain))
         /\ Walkable /\ build.kind = 4 => linear.holes = Len(chain)
<1>1. Seen
  BY DEF Healthy, Quiet, Walked, Seen
<1>2. Raws /\ Links
  BY <1>1 DEF Healthy, Seen, KernelInv, KernelSound
<1>3. PICK g : g = Regions[build] /\ g = MyRegions
  BY DEF MyRegions
<1>4. chain \in Seq(ListBlock) /\ IsFiniteSet(used) /\ build \in Builds
  BY <1>1, SeenIs
<1>5. PICK n \in Nat : n = Len(g) /\ n >= 1
  <2>1. Ground(g)
    BY <1>3, <1>4, GroundIs
  <2>2. 1 \in 1..Len(g) /\ Len(g) \in Nat
    BY <2>1 DEF Ground
  <2>3. Len(g) >= 1
    BY <2>2
  <2>. QED BY <2>2, <2>3
<1>6. Len(chain) <= MaxTraversal
  <2>1. PICK c \in Nat, u \in Nat : c = Len(chain) /\ u = Cardinality(used)
    BY <1>4, FS_CardinalityType
  <2>. QED BY <2>1, WalkAssumption DEF Fits
<1>7. list.blocks = chain /\ ~list.corrupt /\ ~list.truncated
  BY <1>1, <1>2, <1>6, ListWhole DEF Raws, Links
<1>8. Judged /\ LinearEnded /\ (linear.cur = NoAddress <=> (LinearLow = NoAddress \/ HeapLimit \in {NoAddress, Null}))
  BY <1>1 DEF Seen, Trace
<1>9. /\ build.kind # 5 /\ build.array => LinearLow = g[1][1]
      /\ LinearLow # NoAddress => HeapLimit # NoAddress
      /\ HeapLimit # Null /\ g[1][1] # NoAddress
  <2>1. 1 \in 1..n
    BY <1>5
  <2>2. g[1][1] \in Nat
    BY <1>1, <1>3, <1>5, <2>1, BoundsAre
  <2>3. g[1][1] # NoAddress
    BY <2>2 DEF NoAddress
  <2>. QED BY <1>1, <1>3, <1>5, <2>3, BoundsAre
<1>10. check = IF ~Comparable THEN "unavailable" ELSE IF Agree THEN "ok" ELSE "mismatch"
  BY <1>1, <1>8 DEF Seen, Judged
<1>11. CASE LinearLow = NoAddress
  <2>1. linear.cur = NoAddress /\ build.kind = 5 /\ ~Walkable
    BY <1>8, <1>9, <1>11 DEF Walkable
  <2>2. linear.blocks = << >>
    BY <1>1, <2>1 DEF Seen, Inv, LinearShape
  <2>3. LinearDone
    BY <2>1 DEF LinearDone
  <2>4. ~linear.corrupt /\ ~linear.truncated /\ linear.incomplete = (build.kind = 5)
    BY <1>8, <2>1, <2>3 DEF LinearEnded
  <2>5. check = "unavailable"
    BY <1>10, <2>1, <2>2 DEF Comparable
  <2>6. ToSet(HeapBlockTable) = RowsOf("listed", ToSet(chain))
    BY <1>1, <1>7, <2>2, ListTableIs
  <2>. QED BY <1>1, <1>7, <2>1, <2>2, <2>4, <2>5, <2>6
<1>12. CASE LinearLow # NoAddress
  <2>1. linear.cur # NoAddress
    BY <1>8, <1>9, <1>12
  <2>2. /\ linear.cur = EndAt(g, 1) /\ ~linear.corrupt /\ ~linear.truncated
        /\ build.kind = 5 => (linear.incomplete <=> n # 1)
    BY <1>1, <1>2, <1>3, <1>5, <2>1, LinearWhole
  <2>3. Walkable <=> n = 1
    BY <1>3, <1>5, <1>12 DEF Walkable
  <2>4. CASE n = 1
    <3>1. Agree /\ linear.frees = Len(chain) /\ linear.bytes # -1
      BY <1>1, <1>2, <1>3, <1>5, <1>7, <2>1, <2>2, <2>4, HealthyAgrees
    <3>2. linear.blocks # << >>
      BY <1>1, <1>2, <1>3, <1>5, <1>7, <2>1, <2>2, <2>4, FreeAre
    <3>3. Comparable
      BY <1>7, <2>2, <2>4, <3>2 DEF Comparable
    <3>4. check = "ok"
      BY <1>10, <3>1, <3>3
    <3>5. ToSet(HeapBlockTable) = RowsOf("free", ToSet(chain)) \cup RowsOf("alloc", used)
      BY <1>1, <1>2, <1>3, <1>5, <1>7, <2>1, <2>2, <2>4, TableIs
    <3>6. build.kind = 4 => linear.holes = Len(chain)
      <4>1. build.kind = 4 => linear.holes = linear.frees
        BY <1>1, <1>2, <1>3, <1>5, <1>7, <2>1, <2>2, <2>4, HealthyHoles
      <4>. QED BY <3>1, <4>1
    <3>. QED BY <1>1, <1>7, <1>12, <2>2, <2>3, <2>4, <3>1, <3>2, <3>4, <3>5, <3>6
  <2>5. CASE n # 1
    <3>1. build.kind = 5
      BY <1>3, <1>4, <1>5, <2>5, GroundIs
    <3>2. ~Comparable
      BY <2>2, <2>5, <3>1 DEF Comparable
    <3>3. check = "unavailable"
      BY <1>10, <3>2
    <3>. QED BY <1>1, <1>7, <1>12, <2>2, <2>3, <2>5, <3>1, <3>3
  <2>. QED BY <2>4, <2>5
<1>. QED BY <1>11, <1>12

\* So the report shows.
LEMMA HealthyShown ==
  ASSUME KernelInv, Inv, Trace
  PROVE  HealthyIsOk
<1> SUFFICES ASSUME at = "done", Healthy, Fits, build.kind = 5 \/ build.array
             PROVE  /\ list.blocks = chain
                    /\ HeapReport.pairs.Blocks = <<Len(chain), "">>
                    /\ HeapReport.pairs.CrossCheck = (IF Walkable THEN << >> ELSE <<"skipped">>)
                    /\ HeapStatus = "good"
                    /\ Walkable => /\ HeapReport.title = "Heap blocks"
                                   /\ ToSet(HeapReport.rows) = RowsOf("free", ToSet(chain)) \cup RowsOf("alloc", used)
                    /\ LinearLow = NoAddress =>
                         ToSet(HeapReport.rows) = RowsOf("listed", ToSet(chain)) /\ HeapReport.title = "Free list"
                    /\ Walkable /\ build.kind = 4 => HeapReport.pairs.Holes = <<Len(chain), "">>
  BY DEF HealthyIsOk, RowsOf, RowOf
<1>1. /\ Seen /\ list.blocks = chain
      /\ ~list.corrupt /\ ~list.truncated /\ ~linear.corrupt /\ ~linear.truncated
      /\ check = (IF Walkable THEN "ok" ELSE "unavailable")
      /\ Walkable => linear.blocks # << >> /\ linear.bytes # -1
      /\ Walkable => ToSet(HeapBlockTable) = RowsOf("free", ToSet(chain)) \cup RowsOf("alloc", used)
      /\ LinearLow = NoAddress => linear.blocks = << >> /\ ToSet(HeapBlockTable) = RowsOf("listed", ToSet(chain))
      /\ Walkable /\ build.kind = 4 => linear.holes = Len(chain)
  BY HealthySeen
<1>2. HasBlocks /\ Initialised /\ build.kind # 0
  BY DEF Healthy, HasBlocks
<1>3. HeapReport.pairs = HeapPairs /\ HeapReport.rows = HeapBlockTable
  BY DEF HeapReport
<1>4. HeapPairs.Blocks = <<Len(chain), "">>
  BY <1>1, <1>2 DEF HeapPairs, Suffix
<1>5. HeapPairs.CrossCheck = (IF Walkable THEN << >> ELSE <<"skipped">>)
  <2>1. HeapCrossCheck = (IF Walkable THEN "ok" ELSE "skipped")
    BY <1>1 DEF HeapCrossCheck
  <2>. QED BY <2>1 DEF HeapPairs
<1>6. HeapStatus = "good"
  BY <1>1, <1>2 DEF HeapStatus
<1>7. Walkable /\ build.kind = 4 => HeapPairs.Holes = <<Len(chain), "">>
  BY <1>1, <1>2 DEF HeapPairs, Suffix
<1>8. /\ Walkable => HeapReport.title = "Heap blocks"
      /\ LinearLow = NoAddress => HeapReport.title = "Free list"
  BY <1>1 DEF HeapReport
<1>. QED BY <1>1, <1>3, <1>4, <1>5, <1>6, <1>7, <1>8

\* The invariants of the walks, of a target that the kernel has left.
LEMMA WalksHold == Spec => [](KernelInv /\ Inv /\ Trace)
BY KernelKeepsItsHeap, KernelIsATarget, WalkInvariant, WalksTraced, PTL

\* What an ok is worth over any memory, it is worth over what the kernel and
\* its tasks leave, halted anywhere and with one word overwritten.
THEOREM KernelOkAgrees == Spec => []OkIsAgreement
BY KernelIsATarget, OkAgrees, PTL

\* A heap no call is inside is read as it is.
THEOREM HealthyHeapIsOk == Spec => []HealthyIsOk
<1>1. KernelInv /\ Inv /\ Trace => HealthyIsOk
  BY HealthyShown
<1>. QED BY <1>1, WalksHold, PTL
-----------------------------------------------------------------------------
\* One overwritten word.

\* Where the links are true and one size is not, the counter tells: the list is
\* followed to its end, and both sums are the kernel's.
LEMMA LinkedButOne ==
  ASSUME Seen, Links, NEW a, ListedBut(mem, chain, a), Comparable, Agree
  PROVE  list.blocks = chain
<1>1. /\ build \in Builds /\ chain \in Seq(ListBlock) /\ Sound(chain, used, build) /\ heap \in Statics
  BY SeenIs
<1>2. PICK s : s = list.blocks
  OBVIOUS
<1>3. /\ ReadsList /\ Follows(mem, heap, list) /\ s \in Seq(ListBlock)
      /\ \A i \in 1..Len(s) : s[i].address = chain[i].address
  BY <1>2, ListFollows DEF Links
<1>4. PICK n \in Nat : n = Len(chain)
  BY <1>1
<1>5. Len(s) = n
  <2>1. ListEnded /\ ~list.corrupt /\ ~list.truncated
    BY <1>3 DEF Seen, Trace, Comparable
  <2>2. list.cur = heap.end
    BY <2>1 DEF ListEnded
  <2>. QED BY <1>2, <1>4, <2>2, ListEndsThere DEF Links
<1>6. PICK t \in Nat : t = heap.counter
  BY <1>1 DEF Statics
<1>7. SumIs(chain, t)
  <2>1. InHand(op) = 0 /\ t - 0 = t
    BY DEF Seen, InHand
  <2>2. SumIs(chain, t - InHand(op))
    BY <1>6 DEF Links, Counts
  <2>. QED BY <2>1, <2>2
<1>8. SumIs(s, t)
  <2>1. list.bytes = t
    BY <1>6 DEF Agree
  <2>. QED BY <1>2, <1>3, <2>1 DEF Follows
<1>9. \A i \in 1..n : /\ s[i] \in ListBlock /\ chain[i] \in ListBlock /\ s[i].size \in Nat /\ chain[i].size \in Nat
                      /\ s[i].address = chain[i].address
  <2>1. \A i \in 1..n : s[i] \in ListBlock /\ chain[i] \in ListBlock /\ s[i].address = chain[i].address
    BY <1>1, <1>3, <1>4, <1>5, InSeq
  <2>. QED BY <2>1, BlockIs
<1>10. \A i, j \in 1..n : chain[i].address = chain[j].address => i = j
  BY <1>1, <1>4 DEF Sound, Ordered
<1>11. ASSUME NEW i \in 1..n, chain[i].address # a PROVE s[i] = chain[i]
  <2>1. i \in DOMAIN list.blocks
    BY <1>2, <1>3, <1>5
  <2>2. s[i].size = SizeOf(mem[s[i].address].raw)
    BY <1>2, <2>1 DEF Seen, Inv, ListShape
  <2>3. mem[chain[i].address].raw = chain[i].size
    BY <1>4, <1>11 DEF ListedBut
  <2>4. chain[i].size < Msb
    <3>1. chain[i] \in ToSet(chain) \cup used
      BY <1>1, <1>4, InSeq
    <3>. QED BY <1>1, <3>1, AwayFromMarker
  <2>5. s[i].size = chain[i].size
    <3>1. s[i].size = SizeOf(chain[i].size)
      BY <1>9, <2>2, <2>3
    <3>. QED BY <1>1, <1>9, <2>4, <3>1, RawIs
  <2>6. s[i] = Block(s[i].address, s[i].size) /\ chain[i] = Block(chain[i].address, chain[i].size)
    BY <1>9, BlockIs
  <2>. QED BY <1>9, <2>5, <2>6
<1>12. ASSUME NEW k \in 1..n, chain[k].address = a PROVE s[k] = chain[k]
  <2>1. PICK r : r = [chain EXCEPT ![k] = s[k]]
    OBVIOUS
  <2>2. r = s
    <3>1. PICK c \in Seq(ListBlock), e \in ListBlock : c = chain /\ e = s[k]
      BY <1>1, <1>9
    <3>2. r \in Seq(ListBlock) /\ Len(r) = n /\ r[k] = e /\ \A i \in 1..n : i # k => r[i] = c[i]
      BY <1>4, <2>1, <3>1
    <3>3. \A i \in 1..n : i # k => s[i] = c[i]
      BY <1>10, <1>11, <1>12, <3>1
    <3>4. \A i \in 1..n : r[i] = s[i]
      BY <3>1, <3>2, <3>3
    <3>. QED BY <1>3, <1>5, <3>2, <3>4
  <2>3. SumIs(s, t - chain[k].size + s[k].size)
    <3>1. t \in Int /\ k \in 1..Len(chain) /\ s[k] \in ListBlock
      BY <1>4, <1>9
    <3>2. SumIs(r, t - chain[k].size + s[k].size)
      BY <1>1, <1>7, <2>1, <3>1, SumReplace
    <3>. QED BY <2>2, <3>2
  <2>4. PICK x \in Nat, y \in Nat : x = chain[k].size /\ y = s[k].size
    BY <1>9
  <2>5. Distinct(s) /\ SameBlocksIn(s, s)
    <3>1. \A i, j \in 1..n : s[i] = s[j] => i = j
      BY <1>9, <1>10
    <3>. QED BY <1>5, <3>1 DEF Distinct, SameBlocksIn
  <2>6. t = t - x + y
    <3>1. SumIs(s, t - x + y) /\ t - x + y \in Int /\ t \in Int
      BY <2>3, <2>4
    <3>. QED BY <1>3, <1>8, <2>5, <3>1, SumUnique
  <2>7. s[k].size = chain[k].size
    BY <2>4, <2>6
  <2>8. s[k] = Block(s[k].address, s[k].size) /\ chain[k] = Block(chain[k].address, chain[k].size)
    BY <1>9, BlockIs
  <2>. QED BY <1>9, <2>7, <2>8
<1>13. s = chain
  <2>1. PICK c \in Seq(ListBlock) : c = chain
    BY <1>1
  <2>2. Len(c) = n /\ \A i \in 1..n : s[i] = c[i]
    BY <1>4, <1>11, <1>12, <2>1
  <2>. QED BY <1>3, <1>5, <2>1, <2>2
<1>. QED BY <1>2, <1>13

\* Where every size is true both walks saw the same blocks, and that of the
\* extent saw those of the heap.
LEMMA SizedAll ==
  ASSUME Seen, Raws, Masked, Comparable, Agree
  PROVE  {list.blocks[i] : i \in DOMAIN list.blocks} = ToSet(chain)
<1>1. PICK g : g = Regions[build]
  OBVIOUS
<1>2. build \in Builds /\ heap \in Statics
  BY SeenIs
<1>3. PICK n \in Nat : n = Len(g)
  BY <1>1, <1>2, GroundIs DEF Ground
<1>4. linear.cur # NoAddress
  <2>1. linear.cur = NoAddress => linear.bytes = -1
    BY DEF Seen, Trace
  <2>2. linear.bytes \in Nat
    BY <1>2 DEF Agree, Statics
  <2>. QED BY <2>1, <2>2
<1>5. linear.cur = EndAt(g, 1) /\ n = 1
  BY <1>1, <1>3, <1>4, LinearJudged
<1>6. /\ \A j \in FreeOf(linear.blocks) : Plain(linear.blocks[j]) \in ToSet(chain)
      /\ \A x \in ToSet(chain) : \E j \in FreeOf(linear.blocks) : Plain(linear.blocks[j]) = x
  BY <1>1, <1>3, <1>4, <1>5, FreeAre
<1>7. {list.blocks[i] : i \in DOMAIN list.blocks} = {Plain(linear.blocks[j]) : j \in FreeOf(linear.blocks)}
  BY SameBlocks DEF Seen, Plain
<1>8. \A x \in {Plain(linear.blocks[j]) : j \in FreeOf(linear.blocks)} : x \in ToSet(chain)
  BY <1>6
<1>9. \A x \in ToSet(chain) : x \in {Plain(linear.blocks[j]) : j \in FreeOf(linear.blocks)}
  BY <1>6
<1>. QED BY <1>7, <1>8, <1>9

\* So an "ok" after one fault is about the blocks of the heap.
LEMMA OverwriteShown ==
  ASSUME KernelInv, Inv, Trace
  PROVE  OverwriteIsSeen
<1> SUFFICES ASSUME at = "done", Quiet, faults = 1, Masked, check = "ok"
             PROVE  {list.blocks[i] : i \in DOMAIN list.blocks} = ToSet(chain)
  BY DEF OverwriteIsSeen
<1>1. Judged
  BY DEF Trace
<1>2. Walked /\ Comparable /\ Agree
  BY <1>1 DEF Judged
<1>3. Seen
  BY <1>2 DEF Seen, Quiet
<1>4. OneOff
  BY <1>2 DEF KernelInv, KernelSound
<1>5. CASE Raws
  BY <1>2, <1>3, <1>5, SizedAll
<1>6. ASSUME Links, NEW a, ListedBut(mem, chain, a)
      PROVE  {list.blocks[i] : i \in DOMAIN list.blocks} = ToSet(chain)
  <2>1. list.blocks = chain
    BY <1>2, <1>3, <1>6, LinkedButOne
  <2>. QED BY <2>1 DEF ToSet
<1>. QED BY <1>4, <1>5, <1>6 DEF OneOff

\* One overwritten word cannot make an "ok" of blocks the heap does not have.
THEOREM OverwriteSeen == Spec => []OverwriteIsSeen
<1>1. KernelInv /\ Inv /\ Trace => OverwriteIsSeen
  BY OverwriteShown
<1>. QED BY <1>1, WalksHold, PTL
=============================================================================
