--------------------------- MODULE ListWalkProofs ---------------------------
(***************************************************************************)
(* Theorems about the list walks, for every number of items, every limit,  *)
(* every image and every number of overwritten words.                      *)
(*                                                                         *)
(* The argument: the kernel keeps the pxNext words of the end marker and   *)
(* of the members a chain through the members in order (ListInv); a store  *)
(* of an insertion or a removal replaces it by the chain of the members    *)
(* afterwards, and one overwritten word leaves a chain with one bad link.  *)
(* A walk follows the words (WalkInv): over a whole list what it took is a *)
(* beginning of the members (PathInv), over a list with one bad link a     *)
(* beginning that may have skipped some members once (SkipInv), for a link *)
(* that leads back is noticed as a cycle.  An equal count then says that   *)
(* nothing was skipped.                                                    *)
(***************************************************************************)
EXTENDS ListWalk, TLAPS, SequenceTheorems

-----------------------------------------------------------------------------
\* Chains through a sequence.

Distinct(s) == \A i, j \in DOMAIN s : s[i] = s[j] => i = j

\* The place before item i + 1 of a sequence, and what comes after it.
PlaceAt(s, i) == IF i = 0 THEN End ELSE s[i]
AfterAt(s, i) == IF i = Len(s) THEN End ELSE s[i + 1]

ChainsAt(nx, s, i) == nx[PlaceAt(s, i)] = AfterAt(s, i)
Chains(nx, s) == \A i \in 0..Len(s) : ChainsAt(nx, s, i)

\* All links but the one at k are those of the chain.
ChainsBut(nx, s, k) == \A i \in 0..Len(s) : i # k => ChainsAt(nx, s, i)

\* The kernel's list.
ListInv ==
  /\ Distinct(members)
  /\ op.kind # "count" => head.count = Len(members)
  /\ op.kind = "count" => head.count + op.by = Len(members)
  /\ Whole => dark = {}
  /\ Whole => head.index \in Holds(members) \cup {End}
  /\ Whole /\ build.smp => head.index = End
  /\ Whole /\ head.sentinel => Chains(next, members)
  /\ Whole /\ ~head.sentinel => members = << >> /\ op.kind = "none"
  /\ Whole /\ op.kind = "insert" =>
       /\ op.item \in Node \ Holds(members)
       /\ op.after \in Holds(members) \cup {End}
       /\ next[op.item] = Following(op.after)
       /\ op.by = 1
  /\ faults = 1 => \E k \in 0..Len(members) : ChainsBut(next, members, k)

\* What the walk took follows the words from the end marker.
WalkInv ==
  /\ ~walk.live => walk.path = << >> /\ walk.owners = << >> /\ walk.ending = ""
  /\ walk.live => Follows(walk.path, walk.node)
  /\ walk.live /\ walk.by # "_list_contains_item" => Distinct(walk.path)
  /\ walk.live => Len(walk.path) <= MaxCount
  /\ walk.live /\ walk.by = "_list_contains_item" =>
       \A i \in DOMAIN walk.path : walk.path[i] # walk.item
  /\ walk.ending # "" => walk.ending = Ends

\* A beginning of a sequence.
Begins(p, s) == Len(p) <= Len(s) /\ \A i \in 1..Len(p) : p[i] = s[i]

\* Over a list nobody broke a walk took a beginning of the members.
PathInv ==
  walk.live /\ Whole /\ head.sentinel =>
    /\ Begins(walk.path, members)
    /\ walk.owners = walk.path

\* A beginning of a sequence up to k, and d items further on after it.
Skips(p, s, k, d) ==
  /\ Len(p) <= k => Len(p) <= Len(s)
  /\ Len(p) > k => Len(p) + d <= Len(s)
  /\ \A i \in 1..Len(p) : p[i] = IF i <= k THEN s[i] ELSE s[i + d]

\* No word of the chain leads to a stale item.
Enclosed ==
  /\ next[End] \in Holds(members) \cup {End, Null, Wild}
  /\ \A n \in Holds(members) : next[n] \in Holds(members) \cup {End, Null, Wild}

\* Over a list with one bad link the raw walk skipped members at most once.
SkipInv ==
  walk.live /\ walk.by = "walk_list_raw" /\ faults = 1 /\ Enclosed /\ walk.node # NoRead =>
    \E k \in 0..Len(members), d \in Nat :
      ChainsBut(next, members, k) /\ Skips(walk.path, members, k, d)

IInv == TypeOK /\ ListInv /\ WalkInv /\ PathInv /\ SkipInv

-----------------------------------------------------------------------------
\* An item of a sequence of distinct items stands at one position.
LEMMA PositionIs ==
  ASSUME NEW S, NEW s \in Seq(S), Distinct(s), NEW k \in 1..Len(s)
  PROVE  Position(s, s[k]) = k
  BY DEF Position, Distinct

\* The items of a sequence are those at its positions.
LEMMA HoldsAt ==
  ASSUME NEW S, NEW s \in Seq(S), NEW n \in Holds(s)
  PROVE  \E k \in 1..Len(s) : n = s[k]
  BY DEF Holds

\* An item at a position is one of the sequence.
LEMMA At ==
  ASSUME NEW S, NEW s \in Seq(S), NEW k \in 1..Len(s)
  PROVE  s[k] \in Holds(s)
  BY DEF Holds

\* The places of a list are the end marker and its items.
LEMMA PlaceIs ==
  ASSUME NEW s \in Seq(Node), NEW a \in Holds(s) \cup {End}
  PROVE  \E k \in 0..Len(s) : a = PlaceAt(s, k)
<1>1. CASE a = End
  BY <1>1 DEF PlaceAt
<1>2. CASE a \in Holds(s)
  BY <1>2, HoldsAt DEF PlaceAt
<1> QED
  BY <1>1, <1>2

\* The place before a position is known by it, since the end marker is no item.
LEMMA PlaceApart ==
  ASSUME NEW s \in Seq(Node), Distinct(s), NEW i \in 0..Len(s), NEW j \in 0..Len(s),
         PlaceAt(s, i) = PlaceAt(s, j)
  PROVE  i = j
  BY WalkAssumption DEF PlaceAt, Distinct

\* The place before a position is one of the list.
LEMMA PlaceTyped ==
  ASSUME NEW s \in Seq(Node), NEW i \in 0..Len(s)
  PROVE  PlaceAt(s, i) \in Holds(s) \cup {End} /\ PlaceAt(s, i) \in Place
  BY DEF PlaceAt, Holds, Place

\* What comes after a position is a place.
LEMMA AfterTyped ==
  ASSUME NEW s \in Seq(Node), NEW i \in 0..Len(s)
  PROVE  AfterAt(s, i) \in Holds(s) \cup {End} /\ AfterAt(s, i) \in Place /\ AfterAt(s, i) \in Word
  BY DEF AfterAt, Holds, Place, Word

\* The position of a place.
LEMMA PlacePosition ==
  ASSUME NEW s \in Seq(Node), Distinct(s), NEW k \in 0..Len(s)
  PROVE  (IF PlaceAt(s, k) = End THEN 0 ELSE Position(s, PlaceAt(s, k))) = k
  BY PositionIs, WalkAssumption DEF PlaceAt

\* What the kernel reckons to follow a place.
LEMMA FollowingIs ==
  ASSUME members \in Seq(Node), Distinct(members), NEW k \in 0..Len(members)
  PROVE  Following(PlaceAt(members, k)) = AfterAt(members, k)
<1>1. (IF PlaceAt(members, k) = End THEN 0 ELSE Position(members, PlaceAt(members, k))) = k
  BY PlacePosition
<1> QED
  BY <1>1 DEF Following, AfterAt

\* Sequence r is s with an item more behind position k.
Inserted(r, s, k, n) ==
  /\ r \in Seq(Node)
  /\ Len(r) = Len(s) + 1
  /\ \A i \in 1..Len(r) : r[i] = IF i <= k THEN s[i] ELSE IF i = k + 1 THEN n ELSE s[i - 1]

\* Sequence r is s without the item at position k.
Removed(r, s, k) ==
  /\ r \in Seq(Node)
  /\ Len(r) = Len(s) - 1
  /\ \A i \in 1..Len(r) : r[i] = IF i < k THEN s[i] ELSE s[i + 1]

\* What InsertAfter makes of a sequence.
LEMMA InsertedIs ==
  ASSUME NEW s \in Seq(Node), NEW n \in Node, NEW k \in 0..Len(s)
  PROVE  Inserted(SubSeq(s, 1, k) \o <<n>> \o SubSeq(s, k + 1, Len(s)), s, k, n)
<1> DEFINE a == SubSeq(s, 1, k)
           b == SubSeq(s, k + 1, Len(s))
<1>1. /\ a \in Seq(Node) /\ Len(a) = k
      /\ \A i \in 1..k : a[i] = s[i]
  BY SubSeqProperties, ElementOfSeq
<1>2. /\ b \in Seq(Node) /\ Len(b) = Len(s) - k
      /\ \A i \in 1..(Len(s) - k) : b[i] = s[k + i]
  BY SubSeqProperties, ElementOfSeq
<1> HIDE DEF a, b
<1>3. <<n>> \in Seq(Node) /\ Len(<<n>>) = 1 /\ <<n>>[1] = n
  OBVIOUS
<1>4. PICK c : c = a \o <<n>>
  OBVIOUS
<1>5. /\ c \in Seq(Node) /\ Len(c) = k + 1
      /\ \A i \in 1..(k + 1) : c[i] = IF i <= k THEN a[i] ELSE n
  BY <1>1, <1>3, <1>4, ConcatProperties
<1>6. PICK r : r = c \o b
  OBVIOUS
<1>7. /\ r \in Seq(Node) /\ Len(r) = Len(c) + Len(b)
      /\ \A i \in 1..(Len(c) + Len(b)) : r[i] = IF i <= Len(c) THEN c[i] ELSE b[i - Len(c)]
  BY <1>2, <1>5, <1>6, ConcatProperties
<1>8. Inserted(r, s, k, n)
  <2>1. Len(s) \in Nat
    OBVIOUS
  <2>2. Len(r) = Len(s) + 1
    BY <1>2, <1>5, <1>7, <2>1
  <2>3. ASSUME NEW i \in 1..Len(r)
        PROVE  r[i] = IF i <= k THEN s[i] ELSE IF i = k + 1 THEN n ELSE s[i - 1]
    <3>1. r[i] = IF i <= k + 1 THEN c[i] ELSE b[i - (k + 1)]
      BY <1>5, <1>7
    <3>2. CASE i <= k + 1
      BY <1>1, <1>5, <3>1, <3>2
    <3>3. CASE i > k + 1
      <4>1. i - (k + 1) \in 1..(Len(s) - k) /\ k + (i - (k + 1)) = i - 1
        BY <2>1, <2>2, <3>3
      <4>2. b[i - (k + 1)] = s[i - 1]
        BY <1>2, <4>1
      <4> QED
        BY <3>1, <3>3, <4>2
    <3> QED
      BY <3>2, <3>3
  <2> QED
    BY <1>7, <2>2, <2>3 DEF Inserted
<1> QED
  BY <1>4, <1>6, <1>8 DEF a, b

\* What Without makes of a sequence.
LEMMA RemovedIs ==
  ASSUME NEW s \in Seq(Node), NEW k \in 1..Len(s)
  PROVE  Removed(SubSeq(s, 1, k - 1) \o SubSeq(s, k + 1, Len(s)), s, k)
<1> DEFINE a == SubSeq(s, 1, k - 1)
           b == SubSeq(s, k + 1, Len(s))
<1>1. /\ a \in Seq(Node) /\ Len(a) = k - 1
      /\ \A i \in 1..(k - 1) : a[i] = s[i]
  BY SubSeqProperties, ElementOfSeq
<1>2. /\ b \in Seq(Node) /\ Len(b) = Len(s) - k
      /\ \A i \in 1..(Len(s) - k) : b[i] = s[k + i]
  BY SubSeqProperties, ElementOfSeq
<1> HIDE DEF a, b
<1>3. PICK r : r = a \o b
  OBVIOUS
<1>4. /\ r \in Seq(Node) /\ Len(r) = Len(a) + Len(b)
      /\ \A i \in 1..(Len(a) + Len(b)) : r[i] = IF i <= Len(a) THEN a[i] ELSE b[i - Len(a)]
  BY <1>1, <1>2, <1>3, ConcatProperties
<1>5. Removed(r, s, k)
  <2>1. Len(s) \in Nat
    OBVIOUS
  <2>2. Len(r) = Len(s) - 1
    BY <1>1, <1>2, <1>4, <2>1
  <2>3. ASSUME NEW i \in 1..Len(r)
        PROVE  r[i] = IF i < k THEN s[i] ELSE s[i + 1]
    <3>1. r[i] = IF i <= k - 1 THEN a[i] ELSE b[i - (k - 1)]
      BY <1>1, <1>4
    <3>2. CASE i < k
      BY <1>1, <3>1, <3>2
    <3>3. CASE i >= k
      <4>1. i - (k - 1) \in 1..(Len(s) - k) /\ k + (i - (k - 1)) = i + 1
        BY <2>1, <2>2, <3>3
      <4> QED
        BY <1>2, <3>1, <3>3, <4>1
    <3> QED
      BY <3>2, <3>3
  <2> QED
    BY <1>4, <2>2, <2>3 DEF Removed
<1> QED
  BY <1>3, <1>5 DEF a, b

\* An item that was not there leaves the items distinct.
LEMMA InsertedDistinct ==
  ASSUME NEW s \in Seq(Node), NEW n \in Node, NEW k \in 0..Len(s), NEW r, Inserted(r, s, k, n),
         Distinct(s), n \notin Holds(s)
  PROVE  Distinct(r) /\ Holds(r) = Holds(s) \cup {n}
<1>1. /\ r \in Seq(Node)
      /\ Len(r) = Len(s) + 1
      /\ \A i \in 1..Len(r) : r[i] = IF i <= k THEN s[i] ELSE IF i = k + 1 THEN n ELSE s[i - 1]
  BY DEF Inserted
<1>2. \A i \in 1..Len(s) : s[i] # n
  BY DEF Holds
<1>d. \A i, j \in 1..Len(s) : s[i] = s[j] => i = j
  BY DEF Distinct
<1>3. Distinct(r)
  <2>1. ASSUME NEW i \in 1..Len(r)
        PROVE  \/ i = k + 1 /\ r[i] = n
               \/ i <= k /\ i \in 1..Len(s) /\ r[i] = s[i]
               \/ i > k + 1 /\ i - 1 \in 1..Len(s) /\ r[i] = s[i - 1]
    BY <1>1, <2>1
  <2>2. ASSUME NEW i \in 1..Len(r), NEW j \in 1..Len(r), r[i] = r[j] PROVE i = j
    <3>1. CASE i = k + 1 /\ r[i] = n
      <4>1. j = k + 1
        BY <1>2, <2>1, <2>2, <3>1
      <4> QED
        BY <3>1, <4>1
    <3>2. CASE i <= k /\ i \in 1..Len(s) /\ r[i] = s[i]
      <4>1. CASE j = k + 1 /\ r[j] = n
        BY <1>2, <2>2, <3>2, <4>1
      <4>2. CASE j <= k /\ j \in 1..Len(s) /\ r[j] = s[j]
        BY <1>d, <2>2, <3>2, <4>2
      <4>3. CASE j > k + 1 /\ j - 1 \in 1..Len(s) /\ r[j] = s[j - 1]
        <5>1. i = j - 1
          BY <1>d, <2>2, <3>2, <4>3
        <5> QED
          BY <3>2, <4>3, <5>1
      <4> QED
        BY <2>1, <4>1, <4>2, <4>3
    <3>3. CASE i > k + 1 /\ i - 1 \in 1..Len(s) /\ r[i] = s[i - 1]
      <4>1. CASE j = k + 1 /\ r[j] = n
        BY <1>2, <2>2, <3>3, <4>1
      <4>2. CASE j <= k /\ j \in 1..Len(s) /\ r[j] = s[j]
        <5>1. i - 1 = j
          BY <1>d, <2>2, <3>3, <4>2
        <5> QED
          BY <3>3, <4>2, <5>1
      <4>3. CASE j > k + 1 /\ j - 1 \in 1..Len(s) /\ r[j] = s[j - 1]
        <5>1. i - 1 = j - 1
          BY <1>d, <2>2, <3>3, <4>3
        <5> QED
          BY <2>2, <5>1
      <4> QED
        BY <2>1, <4>1, <4>2, <4>3
    <3> QED
      BY <2>1, <3>1, <3>2, <3>3
  <2> QED
    BY <1>1, <2>2 DEF Distinct
<1>4. ASSUME NEW i \in 1..Len(r) PROVE r[i] \in Holds(s) \cup {n}
  <2>1. CASE i <= k
    BY <1>1, <2>1, At
  <2>2. CASE i > k + 1
    BY <1>1, <2>2, i - 1 \in 1..Len(s), At
  <2> QED
    BY <1>1, <2>1, <2>2
<1>5. n \in Holds(r)
  BY <1>1, k + 1 \in 1..Len(r), r[k + 1] = n, At
<1>6. ASSUME NEW i \in 1..Len(s) PROVE s[i] \in Holds(r)
  <2>1. CASE i <= k
    BY <1>1, <2>1, i \in 1..Len(r), r[i] = s[i], At
  <2>2. CASE i > k
    BY <1>1, <2>2, i + 1 \in 1..Len(r), r[i + 1] = s[i], At
  <2> QED
    BY <2>1, <2>2
<1>7. Holds(s) \subseteq Holds(r) /\ Holds(r) \subseteq Holds(s) \cup {n}
  BY <1>1, <1>4, <1>6, HoldsAt
<1> QED
  BY <1>3, <1>5, <1>7

\* Taking an item out leaves the others.
LEMMA RemovedDistinct ==
  ASSUME NEW s \in Seq(Node), NEW k \in 1..Len(s), NEW r, Removed(r, s, k), Distinct(s)
  PROVE  Distinct(r) /\ Holds(r) = Holds(s) \ {s[k]}
<1>1. /\ r \in Seq(Node)
      /\ Len(r) = Len(s) - 1
      /\ \A i \in 1..Len(r) : r[i] = IF i < k THEN s[i] ELSE s[i + 1]
  BY DEF Removed
<1>2. \A i, j \in 1..Len(s) : s[i] = s[j] => i = j
  BY DEF Distinct
<1>3. Distinct(r)
  <2>1. ASSUME NEW i \in 1..Len(r), NEW j \in 1..Len(r), r[i] = r[j] PROVE i = j
    <3> DEFINE a == IF i < k THEN i ELSE i + 1
               b == IF j < k THEN j ELSE j + 1
    <3>1. a \in 1..Len(s) /\ b \in 1..Len(s)
      BY <1>1
    <3>2. r[i] = s[a] /\ r[j] = s[b]
      BY <1>1
    <3>3. a = b
      BY <1>2, <2>1, <3>1, <3>2
    <3> QED
      BY <1>1, <3>3
  <2> QED
    BY <1>1, <2>1 DEF Distinct
<1>6. Holds(r) \subseteq Holds(s) \ {s[k]}
  <2>1. ASSUME NEW i \in 1..Len(r) PROVE r[i] \in Holds(s) \ {s[k]}
    <3>1. CASE i < k
      <4>1. i \in 1..Len(s) /\ i # k /\ r[i] = s[i]
        BY <1>1, <3>1
      <4> QED
        BY <1>2, <4>1, At
    <3>2. CASE i >= k
      <4>1. i + 1 \in 1..Len(s) /\ i + 1 # k /\ r[i] = s[i + 1]
        BY <1>1, <3>2
      <4> QED
        BY <1>2, <4>1, At
    <3> QED
      BY <1>1, <3>1, <3>2
  <2> QED
    BY <1>1, <2>1, HoldsAt
<1>4. ASSUME NEW i \in 1..Len(s), i # k PROVE s[i] \in Holds(r)
  <2>1. CASE i < k
    BY <1>1, <2>1 DEF Holds
  <2>2. CASE i > k
    BY <1>1, <2>2, i - 1 \in 1..Len(r), r[i - 1] = s[i] DEF Holds
  <2> QED
    BY <1>4, <2>1, <2>2
<1>5. Holds(s) \ {s[k]} \subseteq Holds(r)
  BY <1>4, HoldsAt
<1> QED
  BY <1>3, <1>5, <1>6

\* Linking an item that already points to what follows extends the chain.
LEMMA InsertChains ==
  ASSUME NEW s \in Seq(Node), Distinct(s), NEW n \in Node, n \notin Holds(s), NEW k \in 0..Len(s),
         NEW r, Inserted(r, s, k, n),
         NEW nx \in [Place -> Word], Chains(nx, s), nx[n] = AfterAt(s, k),
         NEW ny, ny = [nx EXCEPT ![PlaceAt(s, k)] = n]
  PROVE  Chains(ny, r)
<1>1. /\ r \in Seq(Node)
      /\ Len(r) = Len(s) + 1
      /\ \A i \in 1..Len(r) : r[i] = IF i <= k THEN s[i] ELSE IF i = k + 1 THEN n ELSE s[i - 1]
  BY DEF Inserted
<1>2. PlaceAt(s, k) \in Place /\ n \in Place
  BY PlaceTyped DEF Place
<1>3. n # End /\ \A i \in 0..Len(s) : PlaceAt(s, i) # n
  BY PlaceTyped, WalkAssumption
<1>4. ny[PlaceAt(s, k)] = n
  BY <1>2
<1>5. ny[n] = AfterAt(s, k)
  BY <1>2, <1>3
<1>6. ASSUME NEW i \in 0..Len(s), i # k PROVE ny[PlaceAt(s, i)] = AfterAt(s, i)
  <2>1. PlaceAt(s, i) # PlaceAt(s, k)
    BY <1>6, PlaceApart
  <2>2. PlaceAt(s, i) \in Place
    BY PlaceTyped
  <2>3. nx[PlaceAt(s, i)] = AfterAt(s, i)
    BY DEF Chains, ChainsAt
  <2> QED
    BY <2>1, <2>2, <2>3
<1>7. ASSUME NEW i \in 0..Len(r) PROVE ChainsAt(ny, r, i)
  <2>1. CASE i < k
    <3>1. PlaceAt(r, i) = PlaceAt(s, i) /\ AfterAt(r, i) = AfterAt(s, i)
      BY <1>1, <2>1 DEF PlaceAt, AfterAt
    <3> QED
      BY <2>1, <3>1, <1>6 DEF ChainsAt
  <2>2. CASE i = k
    <3>1. PlaceAt(r, i) = PlaceAt(s, k) /\ AfterAt(r, i) = n
      BY <1>1, <2>2 DEF PlaceAt, AfterAt
    <3> QED
      BY <3>1, <1>4 DEF ChainsAt
  <2>3. CASE i = k + 1
    <3>1. PlaceAt(r, i) = n /\ AfterAt(r, i) = AfterAt(s, k)
      BY <1>1, <2>3 DEF PlaceAt, AfterAt
    <3> QED
      BY <3>1, <1>5 DEF ChainsAt
  <2>4. CASE i > k + 1
    <3>1. PlaceAt(r, i) = PlaceAt(s, i - 1)
      BY <1>1, <2>4 DEF PlaceAt
    <3>3. AfterAt(r, i) = AfterAt(s, i - 1)
      <4>1. CASE i = Len(r)
        BY <1>1, <4>1 DEF AfterAt
      <4>2. CASE i # Len(r)
        <5>1. /\ i + 1 \in 1..Len(r) /\ ~(i + 1 <= k) /\ i + 1 # k + 1
              /\ (i + 1) - 1 = i /\ (i - 1) + 1 = i /\ i - 1 # Len(s)
          BY <1>1, <2>4, <4>2
        <5>2. r[i + 1] = s[i]
          BY <1>1, <5>1
        <5> QED
          BY <4>2, <5>1, <5>2 DEF AfterAt
      <4> QED
        BY <4>1, <4>2
    <3>2. i - 1 \in 0..Len(s) /\ i - 1 # k
      BY <1>1, <2>4
    <3> QED
      BY <3>1, <3>2, <3>3, <1>6 DEF ChainsAt
  <2> QED
    BY <2>1, <2>2, <2>3, <2>4
<1> QED
  BY <1>7 DEF Chains

\* Unlinking an item closes the chain over it.
LEMMA RemoveChains ==
  ASSUME NEW s \in Seq(Node), Distinct(s), NEW k \in 1..Len(s),
         NEW r, Removed(r, s, k),
         NEW nx \in [Place -> Word], Chains(nx, s),
         NEW ny, ny = [nx EXCEPT ![PlaceAt(s, k - 1)] = nx[s[k]]]
  PROVE  Chains(ny, r)
<1>1. /\ r \in Seq(Node)
      /\ Len(r) = Len(s) - 1
      /\ \A i \in 1..Len(r) : r[i] = IF i < k THEN s[i] ELSE s[i + 1]
  BY DEF Removed
<1>2. PlaceAt(s, k - 1) \in Place
  BY PlaceTyped
<1>3. nx[s[k]] = AfterAt(s, k)
  <2>1. k \in 0..Len(s) /\ PlaceAt(s, k) = s[k]
    BY DEF PlaceAt
  <2> QED
    BY <2>1 DEF Chains, ChainsAt
<1>4. ny[PlaceAt(s, k - 1)] = AfterAt(s, k)
  BY <1>2, <1>3
<1>5. ASSUME NEW i \in 0..Len(s), i # k - 1 PROVE ny[PlaceAt(s, i)] = AfterAt(s, i)
  <2>1. PlaceAt(s, i) # PlaceAt(s, k - 1)
    BY <1>5, PlaceApart
  <2>2. PlaceAt(s, i) \in Place
    BY PlaceTyped
  <2>3. nx[PlaceAt(s, i)] = AfterAt(s, i)
    BY DEF Chains, ChainsAt
  <2> QED
    BY <2>1, <2>2, <2>3
<1>6. ASSUME NEW i \in 0..Len(r) PROVE ChainsAt(ny, r, i)
  <2>1. CASE i < k - 1
    <3>1. i \in 0..Len(s) /\ i # k - 1 /\ i # Len(r) /\ i # Len(s)
      BY <1>1, <2>1
    <3>2. PlaceAt(r, i) = PlaceAt(s, i)
      BY <1>1, <2>1 DEF PlaceAt
    <3>3. AfterAt(r, i) = AfterAt(s, i)
      BY <1>1, <2>1, <3>1, i + 1 \in 1..Len(r), i + 1 < k DEF AfterAt
    <3> QED
      BY <3>1, <3>2, <3>3, <1>5 DEF ChainsAt
  <2>2. CASE i = k - 1
    <3>1. PlaceAt(r, i) = PlaceAt(s, k - 1) /\ AfterAt(r, i) = AfterAt(s, k)
      BY <1>1, <2>2 DEF PlaceAt, AfterAt
    <3> QED
      BY <3>1, <1>4 DEF ChainsAt
  <2>3. CASE i > k - 1
    <3>1. PlaceAt(r, i) = PlaceAt(s, i + 1) /\ AfterAt(r, i) = AfterAt(s, i + 1)
      BY <1>1, <2>3 DEF PlaceAt, AfterAt
    <3>2. i + 1 \in 0..Len(s) /\ i + 1 # k - 1
      BY <1>1, <2>3
    <3> QED
      BY <3>1, <3>2, <1>5 DEF ChainsAt
  <2> QED
    BY <2>1, <2>2, <2>3
<1> QED
  BY <1>6 DEF Chains

-----------------------------------------------------------------------------
\* The kernel.

\* Nothing is linked into the list before it is initialised.
LEMMA InitInv == Init => IInv
<1> SUFFICES ASSUME Init PROVE IInv
  OBVIOUS
<1> USE DEF Init
<1>e. PICK e : e = << >> /\ e \in Seq(Node) /\ e \in Seq(Node \cup {Wild}) /\ Len(e) = 0
  BY EmptySeq
<1>1. TypeOK
  <2>1. /\ members \in Seq(Node)
        /\ next \in [Place -> Word] /\ dark \subseteq Node /\ faults \in Nat /\ build \in Builds
    BY <1>e DEF Word
  <2>2. /\ head \in [count : Nat, index : Place, sentinel : BOOLEAN]
        /\ op \in [kind : {"none", "insert", "count"}, item : Place, after : Place, by : {-1, 1}]
    BY DEF Idle, Place
  <2>3. walk \in [by : Walkers, item : Place, node : Word \cup {NoRead}, path : Seq(Node \cup {Wild}),
                  owners : Seq(Node), ending : Endings, live : BOOLEAN]
    BY <1>e DEF Place, Walkers, Endings
  <2> QED
    BY <2>1, <2>2, <2>3 DEF TypeOK
<1>2. ListInv
  <2>1. /\ members = << >> /\ op.kind = "none" /\ head.count = 0 /\ head.index = End /\ ~head.sentinel
        /\ dark = {} /\ faults = 0
    BY DEF Idle
  <2> HIDE DEF Init
  <2>2. members = e /\ Len(e) = 0 /\ DOMAIN e = 1..0
    BY <1>e, <2>1, LenProperties
  <2>3. Distinct(members) /\ Len(members) = 0
    BY <2>2 DEF Distinct
  <2> QED
    BY <2>1, <2>3 DEF ListInv, Whole
<1>3. WalkInv /\ PathInv /\ SkipInv
  BY DEF WalkInv, PathInv, SkipInv
<1> QED
  BY <1>1, <1>2, <1>3 DEF IInv

\* vListInitialise begins a list of no items.
LEMMA InitialiseInv ==
  ASSUME TypeOK, ListInv, Initialise
  PROVE  TypeOK' /\ ListInv'
<1> USE DEF Initialise
<1>1. members = << >> /\ op.kind = "none" /\ members' = << >> /\ op' = op
  BY DEF ListInv
<1>2. next' \in [Place -> Word] /\ next'[End] = End
  BY DEF TypeOK, Place, Word
<1>3. head' = [count |-> 0, index |-> End, sentinel |-> TRUE]
  OBVIOUS
<1>4. TypeOK'
  BY <1>2, <1>3 DEF TypeOK, Place
<1>5. Chains(next', members')
  BY <1>1, <1>2 DEF Chains, ChainsAt, PlaceAt, AfterAt
<1>6. faults' = 0 /\ dark' = {}
  BY DEF ListInv, Whole
<1>7. ListInv'
  BY <1>1, <1>3, <1>5, <1>6 DEF ListInv, Distinct, Whole, Holds
<1> QED
  BY <1>4, <1>7

\* A new item first points to what it will be linked before.
LEMMA BeginInsertInv ==
  ASSUME TypeOK, ListInv, BeginInsert
  PROVE  TypeOK' /\ ListInv'
<1> USE DEF BeginInsert
<1>1. PICK n \in Node \ Holds(members), a \in Holds(members) \cup {End} :
        /\ next' = [next EXCEPT ![n] = Following(a)]
        /\ op' = [kind |-> "insert", item |-> n, after |-> a, by |-> 1]
  OBVIOUS
<1>2. /\ Whole /\ head.sentinel /\ op.kind = "none" /\ head' = head /\ members' = members
      /\ faults' = faults /\ dark' = dark /\ build' = build /\ walk' = walk
  OBVIOUS
<1>3. Distinct(members) /\ Chains(next, members) /\ head.count = Len(members)
  BY <1>2 DEF ListInv
<1>4. members \in Seq(Node) /\ next \in [Place -> Word]
  BY DEF TypeOK
<1>5. PICK k \in 0..Len(members) : a = PlaceAt(members, k)
  BY <1>4, PlaceIs
<1>6. Following(a) = AfterAt(members, k)
  BY <1>3, <1>4, <1>5, FollowingIs
<1>7. Following(a) \in Word /\ a \in Place
  BY <1>4, <1>5, <1>6, AfterTyped, PlaceTyped
<1>8. TypeOK'
  BY <1>1, <1>2, <1>7 DEF TypeOK, Place
<1>9. next'[n] = Following(a) /\ n # End /\ \A b \in Place : b # n => next'[b] = next[b]
  BY <1>1, <1>4, WalkAssumption DEF Place
<1>10. \A i \in 0..Len(members) : PlaceAt(members, i) \in Place /\ PlaceAt(members, i) # n
  BY <1>4, <1>9, PlaceTyped
<1>11. Chains(next', members')
  BY <1>2, <1>3, <1>9, <1>10 DEF Chains, ChainsAt
<1>12. Following(a)' = Following(a)
  BY <1>2 DEF Following
<1>13. ListInv'
  BY <1>1, <1>2, <1>3, <1>9, <1>11, <1>12 DEF ListInv, Whole, Following
<1> QED
  BY <1>8, <1>13

\* The store that links it makes it a member.
LEMMA LinkInv ==
  ASSUME TypeOK, ListInv, Link
  PROVE  TypeOK' /\ ListInv'
<1> USE DEF Link
<1>1. /\ Whole /\ op.kind = "insert" /\ head' = head /\ faults' = faults /\ dark' = dark
      /\ build' = build /\ walk' = walk
      /\ next' = [next EXCEPT ![op.after] = op.item]
      /\ members' = InsertAfter(members, op.after, op.item)
      /\ op' = [op EXCEPT !.kind = "count"]
  OBVIOUS
<1>2. /\ op.item \in Node \ Holds(members)
      /\ op.after \in Holds(members) \cup {End}
      /\ next[op.item] = Following(op.after)
      /\ op.by = 1
  BY <1>1 DEF ListInv
<1>3. Distinct(members) /\ head.sentinel /\ Chains(next, members) /\ head.count = Len(members)
  BY <1>1 DEF ListInv
<1>4. members \in Seq(Node) /\ next \in [Place -> Word]
  BY DEF TypeOK
<1>5. PICK k \in 0..Len(members) : op.after = PlaceAt(members, k)
  BY <1>2, <1>4, PlaceIs
<1>6. next[op.item] = AfterAt(members, k)
  BY <1>2, <1>3, <1>4, <1>5, FollowingIs
<1>7. PICK s : s = members
  OBVIOUS
<1>8. PICK nx : nx = next
  OBVIOUS
<1>9. PICK n : n = op.item
  OBVIOUS
<1>10. PICK r : r = members'
  OBVIOUS
<1>11. PICK ny : ny = next'
  OBVIOUS
<1>12. /\ s \in Seq(Node) /\ Distinct(s) /\ k \in 0..Len(s)
       /\ n \in Node /\ n \notin Holds(s)
       /\ nx \in [Place -> Word] /\ nx[n] = AfterAt(s, k) /\ Chains(nx, s)
  BY <1>2, <1>3, <1>4, <1>6, <1>7, <1>8, <1>9 DEF Distinct, Holds, AfterAt, Chains, ChainsAt, PlaceAt
<1>13. (IF op.after = End THEN 0 ELSE Position(members, op.after)) = k
  BY <1>3, <1>4, <1>5, PlacePosition
<1>14. r = SubSeq(s, 1, k) \o <<n>> \o SubSeq(s, k + 1, Len(s))
  BY <1>1, <1>7, <1>9, <1>10, <1>13 DEF InsertAfter
<1>15. ny = [nx EXCEPT ![PlaceAt(s, k)] = n]
  BY <1>1, <1>5, <1>7, <1>8, <1>9, <1>11 DEF PlaceAt
<1>16. Inserted(r, s, k, n)
  BY <1>12, <1>14, InsertedIs
<1>17. Distinct(r) /\ Holds(r) = Holds(s) \cup {n}
  BY <1>12, <1>16, InsertedDistinct
<1>18. Chains(ny, r)
  BY <1>12, <1>15, <1>16, InsertChains
<1>19. r \in Seq(Node) /\ Len(r) = Len(s) + 1
  BY <1>16 DEF Inserted
<1>20. ny \in [Place -> Word]
  BY <1>1, <1>2, <1>4, <1>11 DEF Place, Word
<1>21. op' \in [kind : {"none", "insert", "count"}, item : Place, after : Place, by : {-1, 1}]
       /\ op'.kind = "count" /\ op'.by = 1
  BY <1>1, <1>2 DEF TypeOK
<1>22. TypeOK'
  BY <1>1, <1>10, <1>11, <1>19, <1>20, <1>21 DEF TypeOK
<1>23. Distinct(members') /\ Chains(next', members')
  BY <1>10, <1>11, <1>17, <1>18 DEF Distinct, Chains, ChainsAt, PlaceAt, AfterAt
<1>24. Holds(members') = Holds(members) \cup {op.item}
  <2>1. Holds(members') = Holds(r) /\ Holds(members) = Holds(s)
    BY <1>7, <1>10 DEF Holds
  <2> QED
    BY <1>9, <1>17, <2>1
<1>25. head'.count + op'.by = Len(members')
  BY <1>1, <1>3, <1>7, <1>10, <1>19, <1>21
<1>26. ListInv'
  BY <1>1, <1>3, <1>21, <1>23, <1>24, <1>25 DEF ListInv, Whole
<1> QED
  BY <1>22, <1>26

\* The store that unlinks an item takes it out of the members.
LEMMA UnlinkInv ==
  ASSUME TypeOK, ListInv, Unlink
  PROVE  TypeOK' /\ ListInv'
<1> USE DEF Unlink
<1>1. PICK n \in Holds(members) :
        /\ next' = [next EXCEPT ![Before(n)] = next[n]]
        /\ members' = Without(members, n)
        /\ head' = [head EXCEPT !.index = IF @ = n THEN Before(n) ELSE @]
        /\ op' = [kind |-> "count", item |-> n, after |-> End, by |-> -1]
  OBVIOUS
<1>2. /\ Whole /\ op.kind = "none" /\ faults' = faults /\ dark' = dark
      /\ build' = build /\ walk' = walk
  OBVIOUS
<1>3. members \in Seq(Node) /\ next \in [Place -> Word]
  BY DEF TypeOK
<1>4. PICK k \in 1..Len(members) : n = members[k]
  BY <1>3, HoldsAt
<1>5. members # << >>
  BY <1>4
<1>6. Distinct(members) /\ head.sentinel /\ Chains(next, members) /\ head.count = Len(members)
  BY <1>2, <1>5 DEF ListInv
<1>7. Position(members, n) = k
  BY <1>3, <1>4, <1>6, PositionIs
<1>8. Before(n) = PlaceAt(members, k - 1)
  BY <1>7 DEF Before, PlaceAt
<1>9. PICK s : s = members
  OBVIOUS
<1>10. PICK nx : nx = next
  OBVIOUS
<1>11. PICK r : r = members'
  OBVIOUS
<1>12. PICK ny : ny = next'
  OBVIOUS
<1>13. /\ s \in Seq(Node) /\ Distinct(s) /\ k \in 1..Len(s) /\ n = s[k]
       /\ nx \in [Place -> Word] /\ Chains(nx, s)
  BY <1>3, <1>4, <1>6, <1>9, <1>10 DEF Distinct, Chains, ChainsAt, PlaceAt, AfterAt
<1>14. r = SubSeq(s, 1, k - 1) \o SubSeq(s, k + 1, Len(s))
  BY <1>1, <1>7, <1>9, <1>11 DEF Without
<1>15. ny = [nx EXCEPT ![PlaceAt(s, k - 1)] = nx[s[k]]]
  BY <1>1, <1>4, <1>8, <1>9, <1>10, <1>12 DEF PlaceAt
<1>16. Removed(r, s, k)
  BY <1>13, <1>14, RemovedIs
<1>17. Distinct(r) /\ Holds(r) = Holds(s) \ {s[k]}
  BY <1>13, <1>16, RemovedDistinct
<1>18. Chains(ny, r)
  BY <1>13, <1>15, <1>16, RemoveChains
<1>19. r \in Seq(Node) /\ Len(r) = Len(s) - 1
  BY <1>16 DEF Removed
<1>20. n \in Node /\ n # End
  BY <1>3, <1>4, WalkAssumption
<1>21. next[n] \in Word
  BY <1>3, <1>20 DEF Place
<1>22. k - 1 \in 0..Len(s) /\ k - 1 # k
  BY <1>13
<1>23. /\ PlaceAt(s, k - 1) \in Holds(s) \cup {End}
       /\ PlaceAt(s, k - 1) \in Place
  BY <1>13, <1>22, PlaceTyped
<1>24. PlaceAt(s, k - 1) # n
  <2>1. k \in 0..Len(s) /\ PlaceAt(s, k) = n
    BY <1>13 DEF PlaceAt
  <2> QED
    BY <1>13, <1>22, <2>1, PlaceApart
<1>25. ny \in [Place -> Word]
  BY <1>10, <1>12, <1>13, <1>15, <1>20, <1>21
<1>26. Before(n) = PlaceAt(s, k - 1) /\ Before(n) \in Place
  BY <1>8, <1>9, <1>23 DEF PlaceAt
<1>27. /\ head' \in [count : Nat, index : Place, sentinel : BOOLEAN]
       /\ head'.count = head.count /\ head'.sentinel = head.sentinel
       /\ head'.index = IF head.index = n THEN Before(n) ELSE head.index
  BY <1>1, <1>26 DEF TypeOK
<1>28. op' \in [kind : {"none", "insert", "count"}, item : Place, after : Place, by : {-1, 1}]
       /\ op'.kind = "count" /\ op'.by = -1
  BY <1>1, <1>20 DEF Place
<1>29. TypeOK'
  BY <1>2, <1>11, <1>12, <1>19, <1>25, <1>27, <1>28 DEF TypeOK
<1>30. Distinct(members') /\ Chains(next', members')
  BY <1>11, <1>12, <1>17, <1>18 DEF Distinct, Chains, ChainsAt, PlaceAt, AfterAt
<1>31. Holds(members') = Holds(members) \ {n}
  <2>1. Holds(members') = Holds(r) /\ Holds(members) = Holds(s)
    BY <1>9, <1>11 DEF Holds
  <2> QED
    BY <1>13, <1>17, <2>1
<1>32. head'.count + op'.by = Len(members')
  BY <1>6, <1>9, <1>11, <1>13, <1>19, <1>27, <1>28
<1>33. head'.index \in Holds(members') \cup {End}
  <2>1. head.index \in Holds(members) \cup {End}
    BY <1>2 DEF ListInv
  <2>2. Before(n) \in Holds(members) \cup {End} /\ Before(n) # n
    BY <1>9, <1>23, <1>24, <1>26 DEF Holds
  <2> QED
    BY <1>27, <1>31, <2>1, <2>2
<1>34. build.smp => head'.index = End
  <2>1. build.smp => head.index = End
    BY <1>2 DEF ListInv
  <2> QED
    BY <1>20, <1>27, <2>1
<1>35. dark = {} /\ faults = 0
  BY <1>2 DEF ListInv, Whole
<1>36. ListInv'
  BY <1>2, <1>6, <1>27, <1>28, <1>30, <1>32, <1>33, <1>34, <1>35 DEF ListInv, Whole
<1> QED
  BY <1>29, <1>36

\* The number of items follows.
LEMMA CountInv ==
  ASSUME TypeOK, ListInv, Count
  PROVE  TypeOK' /\ ListInv'
<1> USE DEF Count
<1>1. /\ Whole /\ op.kind = "count" /\ members' = members /\ next' = next /\ faults' = faults
      /\ dark' = dark /\ build' = build /\ walk' = walk
      /\ head' = [head EXCEPT !.count = @ + op.by] /\ op' = Idle
  OBVIOUS
<1>2. head.count + op.by = Len(members) /\ head.sentinel
  BY <1>1 DEF ListInv
<1>3. Len(members) \in Nat
  BY DEF TypeOK
<1>4. /\ head' \in [count : Nat, index : Place, sentinel : BOOLEAN]
      /\ head'.count = Len(members) /\ head'.index = head.index /\ head'.sentinel = head.sentinel
  <2>1. head \in [count : Nat, index : Place, sentinel : BOOLEAN]
    BY DEF TypeOK
  <2>2. head' = [head EXCEPT !.count = Len(members)]
    BY <1>1, <1>2
  <2> HIDE DEF Count
  <2> QED
    BY <1>3, <2>1, <2>2
<1>5. op' \in [kind : {"none", "insert", "count"}, item : Place, after : Place, by : {-1, 1}]
      /\ op'.kind = "none"
  BY <1>1 DEF Idle, Place
<1>6. TypeOK'
  BY <1>1, <1>4, <1>5 DEF TypeOK
<1>7. ListInv'
  BY <1>1, <1>2, <1>4, <1>5 DEF ListInv, Whole, Chains, ChainsAt, ChainsBut
<1> QED
  BY <1>6, <1>7

\* The index of a list of one core goes round the members.
LEMMA RotateInv ==
  ASSUME TypeOK, ListInv, Rotate
  PROVE  TypeOK' /\ ListInv'
<1> USE DEF Rotate
<1>1. /\ Whole /\ ~build.smp /\ op.kind = "none" /\ members' = members /\ next' = next
      /\ faults' = faults /\ dark' = dark /\ build' = build /\ walk' = walk /\ op' = op
      /\ head' = [head EXCEPT !.index = Following(@)]
  OBVIOUS
<1>2. members \in Seq(Node) /\ Distinct(members) /\ head.index \in Holds(members) \cup {End}
  BY <1>1 DEF TypeOK, ListInv
<1>3. PICK k \in 0..Len(members) : head.index = PlaceAt(members, k)
  BY <1>2, PlaceIs
<1>4. Following(head.index) = AfterAt(members, k)
  BY <1>2, <1>3, FollowingIs
<1>5. Following(head.index) \in Holds(members) \cup {End} /\ Following(head.index) \in Place
  BY <1>2, <1>4, AfterTyped
<1>6. /\ head' \in [count : Nat, index : Place, sentinel : BOOLEAN]
      /\ head'.count = head.count /\ head'.sentinel = head.sentinel
      /\ head'.index = Following(head.index)
  BY <1>1, <1>5 DEF TypeOK
<1>7. TypeOK'
  BY <1>1, <1>6 DEF TypeOK
<1>8. ListInv'
  BY <1>1, <1>5, <1>6 DEF ListInv, Whole, Chains, ChainsAt, ChainsBut
<1> QED
  BY <1>7, <1>8

\* One overwritten word leaves every other link of the chain.
LEMMA FaultInv ==
  ASSUME TypeOK, ListInv, Fault
  PROVE  TypeOK' /\ ListInv'
<1> USE DEF Fault
<1>1. /\ build' = build /\ members' = members /\ op' = op /\ walk' = walk /\ head.sentinel
      /\ faults' = faults + 1 /\ faults \in Nat /\ ~Whole'
  BY DEF TypeOK, Whole
<1>2. /\ members \in Seq(Node) /\ next \in [Place -> Word] /\ dark \subseteq Node
      /\ head \in [count : Nat, index : Place, sentinel : BOOLEAN]
      /\ Holds(members) \subseteq Place
  BY DEF TypeOK, Holds, Place
<1>3. /\ next' \in [Place -> Word] /\ dark' \subseteq Node
      /\ head' \in [count : Nat, index : Place, sentinel : BOOLEAN] /\ head'.count = head.count
  <2>1. CASE \E a \in Holds(members) \cup {End}, v \in Word :
               next' = [next EXCEPT ![a] = v] /\ UNCHANGED <<dark, head>>
    BY <1>2, <2>1
  <2>2. CASE \E v \in Place : head' = [head EXCEPT !.index = v] /\ UNCHANGED <<next, dark>>
    BY <1>2, <2>2
  <2>3. CASE head' = [head EXCEPT !.sentinel = FALSE] /\ UNCHANGED <<next, dark>>
    BY <1>2, <2>3
  <2>4. CASE \E n \in Node : dark' = dark \cup {n} /\ UNCHANGED <<next, head>>
    BY <1>2, <2>4
  <2> QED
    BY <2>1, <2>2, <2>3, <2>4
<1>4. TypeOK'
  BY <1>1, <1>3 DEF TypeOK
<1>5. ASSUME faults' = 1 PROVE \E k \in 0..Len(members) : ChainsBut(next', members, k)
  <2>1. Whole /\ Chains(next, members) /\ Distinct(members)
    BY <1>1, <1>5 DEF ListInv, Whole
  <2>2. CASE next' = next
    BY <1>2, <2>1, <2>2, 0 \in 0..Len(members) DEF Chains, ChainsBut, ChainsAt
  <2>3. CASE \E a \in Holds(members) \cup {End}, v \in Word : next' = [next EXCEPT ![a] = v]
    <3>1. PICK a \in Holds(members) \cup {End}, v \in Word : next' = [next EXCEPT ![a] = v]
      BY <2>3
    <3>2. PICK k \in 0..Len(members) : a = PlaceAt(members, k)
      BY <1>2, PlaceIs
    <3>3. ASSUME NEW i \in 0..Len(members), i # k PROVE ChainsAt(next', members, i)
      <4>1. PlaceAt(members, i) \in Place /\ PlaceAt(members, i) # a
        BY <1>2, <2>1, <3>2, <3>3, PlaceTyped, PlaceApart
      <4>2. next'[PlaceAt(members, i)] = next[PlaceAt(members, i)]
        BY <1>2, <3>1, <4>1
      <4> QED
        BY <2>1, <4>2 DEF Chains, ChainsAt
    <3> QED
      BY <3>3 DEF ChainsBut
  <2> QED
    BY <2>2, <2>3
<1>6. ListInv'
  BY <1>1, <1>3, <1>5 DEF ListInv
<1> QED
  BY <1>4, <1>6

\* The kernel runs only while no walk is under way.
LEMMA KernelInv ==
  ASSUME IInv, Kernel
  PROVE  IInv'
<1>1. TypeOK /\ ListInv /\ WalkInv
  BY DEF IInv
<1>2. TypeOK' /\ ListInv'
  BY <1>1, InitialiseInv, BeginInsertInv, LinkInv, UnlinkInv, CountInv, RotateInv, FaultInv DEF Kernel
<1>3. walk' = walk /\ ~walk.live
  BY DEF Kernel, Initialise, BeginInsert, Link, Unlink, Count, Rotate, Fault, Running
<1>4. WalkInv' /\ PathInv' /\ SkipInv'
  BY <1>1, <1>3 DEF WalkInv, PathInv, SkipInv
<1> QED
  BY <1>2, <1>4 DEF IInv

-----------------------------------------------------------------------------
\* The walks.

\* What a word read at a place can be.
LEMMA NextOfIs ==
  ASSUME TypeOK, NEW a \in Place \cup {Wild}
  PROVE  /\ NextOf(a) \in Word \cup {NoRead}
         /\ NextOf(a) # NoRead => a \in Place /\ a \notin dark /\ NextOf(a) = next[a]
  BY WalkAssumption DEF TypeOK, NextOf

\* Every walker takes only items, and fewer than the limit; those that keep
\* the set of nodes only new ones.
LEMMA TurnTakes ==
  ASSUME TypeOK, Turn
  PROVE  /\ walk.live /\ walk.ending = ""
         /\ walk.node \in Node \cup {Wild}
         /\ walk.node # NoRead /\ walk.node # End
         /\ Len(walk.path) < MaxCount
         /\ walk.by # "_list_contains_item" => walk.node \notin Holds(walk.path)
         /\ walk.by = "_list_contains_item" => walk.node # walk.item
<1>1. walk.live /\ walk.ending = "" /\ Ends = ""
  BY DEF Turn
<1>2. walk.node \in Word \cup {NoRead} /\ Len(walk.path) \in Nat /\ MaxCount \in Nat
  BY WalkAssumption DEF TypeOK
<1>3. walk.node \notin {NoRead, End, Null}
  BY <1>1 DEF Ends, IterListEnds, BoundedListEnds, ContainsEnds, RawEnds
<1>4. ~(Len(walk.path) >= MaxCount)
  BY <1>1 DEF Ends, IterListEnds, BoundedListEnds, ContainsEnds, RawEnds, Steps
<1>5. walk.by # "_list_contains_item" => walk.node \notin Holds(walk.path)
  BY <1>1 DEF Ends, IterListEnds, BoundedListEnds, RawEnds, Seen
<1>6. walk.by = "_list_contains_item" => walk.node # walk.item
  BY <1>1 DEF Ends, ContainsEnds
<1>7. walk.node \in Node \cup {Wild}
  BY <1>2, <1>3 DEF Word, Place
<1>8. Len(walk.path) < MaxCount
  BY <1>2, <1>4
<1> QED
  BY <1>1, <1>3, <1>5, <1>6, <1>7, <1>8

\* A turn takes the item and goes on to the next one.
LEMMA TurnIs ==
  ASSUME TypeOK, Turn
  PROVE  /\ walk'.path = Append(walk.path, walk.node) /\ walk'.node = NextOf(walk.node)
         /\ walk'.owners = OwnersWith(walk.owners, walk.node)
         /\ walk'.by = walk.by /\ walk'.item = walk.item /\ walk'.ending = walk.ending
         /\ walk'.live = walk.live
         /\ walk' = [by |-> walk.by, item |-> walk.item, node |-> walk'.node, path |-> walk'.path,
                     owners |-> walk'.owners, ending |-> walk.ending, live |-> walk.live]
  BY DEF TypeOK, Turn

\* The path of a walk with one item more.
LEMMA PathAfterTurn ==
  ASSUME TypeOK, Turn
  PROVE  /\ walk'.path \in Seq(Node \cup {Wild})
         /\ Len(walk'.path) = Len(walk.path) + 1
         /\ \A i \in 1..Len(walk.path) : walk'.path[i] = walk.path[i]
         /\ walk'.path[Len(walk.path) + 1] = walk.node
<1>1. walk.path \in Seq(Node \cup {Wild}) /\ walk.node \in Node \cup {Wild}
  BY TurnTakes DEF TypeOK
<1>2. walk'.path = Append(walk.path, walk.node)
  BY TurnIs
<1> QED
  BY <1>1, <1>2, AppendProperties

\* What a walk looks at is the word of the place it reached.
LEMMA NodeIs ==
  ASSUME TypeOK, Follows(walk.path, walk.node), walk.node # NoRead
  PROVE  /\ walk.node = next[PlaceAt(walk.path, Len(walk.path))]
         /\ PlaceAt(walk.path, Len(walk.path)) \in Place
         /\ PlaceAt(walk.path, Len(walk.path)) \notin dark
<1>1. walk.path \in Seq(Node \cup {Wild})
  BY DEF TypeOK
<1>2. CASE walk.path = << >>
  <2>1. Len(walk.path) = 0 /\ walk.node = NextOf(End)
    BY <1>2, EmptySeq DEF Follows
  <2> QED
    BY <2>1, NextOfIs DEF PlaceAt, Place
<1>3. CASE walk.path # << >>
  <2>1. Len(walk.path) \in Nat \ {0} /\ walk.node = NextOf(walk.path[Len(walk.path)])
    BY <1>1, <1>3, EmptySeq DEF Follows
  <2>2. walk.path[Len(walk.path)] \in Node \cup {Wild}
    BY <1>1, <2>1, ElementOfSeq
  <2> QED
    BY <2>1, <2>2, NextOfIs DEF PlaceAt, Place
<1> QED
  BY <1>2, <1>3

\* A reader leaves the list as it is.
LEMMA ListStays ==
  ASSUME ListInv, UNCHANGED listVars
  PROVE  ListInv'
<1>1. next' = next /\ members' = members
  BY DEF listVars
<1>2. Following(op.after)' = Following(op.after)
  BY DEF listVars, Following
<1> QED
  BY <1>1, <1>2 DEF ListInv, listVars, Whole, Chains, ChainsBut, ChainsAt, Following

\* A walk begins at the end marker's word, with nothing taken.
LEMMA BeginInv ==
  ASSUME IInv, NEW w \in Walkers, NEW n \in Place, Begin(w, n)
  PROVE  IInv'
<1>1. TypeOK /\ ListInv
  BY DEF IInv
<1>2. /\ UNCHANGED listVars
      /\ walk' = [by |-> w, item |-> n, node |-> NextOf(End), path |-> << >>, owners |-> << >>,
                  ending |-> "", live |-> TRUE]
  BY DEF Begin
<1>3. NextOf(End) \in Word \cup {NoRead}
  BY <1>1, NextOfIs DEF Place
<1>e. PICK e : e = << >>
  OBVIOUS
<1>4. e \in Seq(Node) /\ e \in Seq(Node \cup {Wild}) /\ Len(e) = 0 /\ DOMAIN e = 1..0
  BY <1>e, EmptySeq, LenProperties
<1>5. walk' \in [by : Walkers, item : Place, node : Word \cup {NoRead}, path : Seq(Node \cup {Wild}),
                 owners : Seq(Node), ending : Endings, live : BOOLEAN]
  BY <1>2, <1>3, <1>4, <1>e DEF Endings
<1>6. TypeOK'
  BY <1>1, <1>2, <1>5 DEF TypeOK, listVars
<1>7. ListInv'
  BY <1>1, <1>2, ListStays
<1>8. /\ walk'.path = e /\ walk'.owners = e /\ walk'.ending = "" /\ walk'.live
      /\ walk'.node = NextOf(End)
  BY <1>2, <1>e
<1>9. NextOf(End)' = NextOf(End)
  BY <1>2 DEF NextOf, listVars
<1>10. WalkInv'
  <2>1. Follows(walk.path, walk.node)'
    BY <1>e, <1>8, <1>9 DEF Follows
  <2>2. Distinct(e) /\ Len(e) <= MaxCount /\ \A i \in DOMAIN e : e[i] # walk'.item
    BY <1>4, WalkAssumption DEF Distinct
  <2> QED
    BY <1>8, <2>1, <2>2 DEF WalkInv, Distinct
<1>11. members' = members /\ Len(members) \in Nat /\ next' = next /\ faults' = faults
  <2>1. UNCHANGED listVars /\ members \in Seq(Node)
    BY <1>1, <1>2 DEF TypeOK
  <2> QED
    BY <2>1, LenProperties DEF listVars
<1>12. PathInv'
  <2>1. Begins(e, members)
    BY <1>4, <1>11 DEF Begins
  <2> QED
    BY <1>8, <1>11, <2>1 DEF PathInv, Begins
<1>13. SkipInv'
  <2> SUFFICES ASSUME faults = 1
               PROVE  \E k \in 0..Len(members), d \in Nat :
                        ChainsBut(next', members, k) /\ Skips(walk'.path, members, k, d)
    BY <1>11 DEF SkipInv
  <2>1. PICK k \in 0..Len(members) : ChainsBut(next, members, k)
    BY <1>1 DEF ListInv
  <2>2. Skips(e, members, k, 0)
    BY <1>4, <1>11 DEF Skips
  <2>3. ChainsBut(next', members, k)
    BY <1>11, <2>1
  <2>4. Skips(walk'.path, members, k, 0)
    BY <1>8, <2>2
  <2> QED
    BY <2>3, <2>4
<1> QED
  BY <1>6, <1>7, <1>10, <1>12, <1>13 DEF IInv

\* A turn of any walk keeps its type.
LEMMA TurnTyped ==
  ASSUME TypeOK, Turn
  PROVE  TypeOK'
<1>1. walk.node \in Node \cup {Wild} /\ walk.owners \in Seq(Node)
  BY TurnTakes DEF TypeOK
<1>2. NextOf(walk.node) \in Word \cup {NoRead}
  BY <1>1, NextOfIs DEF Place
<1>3. OwnersWith(walk.owners, walk.node) \in Seq(Node)
  BY <1>1, AppendProperties DEF OwnersWith
<1>4. walk' \in [by : Walkers, item : Place, node : Word \cup {NoRead}, path : Seq(Node \cup {Wild}),
                 owners : Seq(Node), ending : Endings, live : BOOLEAN]
  BY <1>2, <1>3, TurnIs, PathAfterTurn DEF TypeOK
<1> QED
  BY <1>4 DEF TypeOK, Turn, listVars

\* A turn follows the word it looked at.
LEMMA TurnWalk ==
  ASSUME TypeOK, WalkInv, Turn
  PROVE  WalkInv'
<1>1. PICK p : p = walk.path
  OBVIOUS
<1>2. PICK q : q = walk'.path
  OBVIOUS
<1>3. PICK x : x = walk.node
  OBVIOUS
<1>4. /\ p \in Seq(Node \cup {Wild}) /\ q \in Seq(Node \cup {Wild}) /\ Len(q) = Len(p) + 1 /\ Len(p) \in Nat
      /\ \A i \in 1..Len(p) : q[i] = p[i]
      /\ q[Len(p) + 1] = x
  BY <1>1, <1>2, <1>3, PathAfterTurn DEF TypeOK
<1>5. /\ walk.live /\ walk.ending = "" /\ x # NoRead /\ Len(p) < MaxCount /\ Follows(walk.path, walk.node)
  BY <1>1, <1>3, TurnTakes DEF WalkInv
<1>6. /\ walk'.live /\ walk'.ending = "" /\ walk'.by = walk.by /\ walk'.item = walk.item
      /\ walk'.node = NextOf(x)
  BY <1>3, <1>5, TurnIs
<1>7. \A a \in Place \cup {Wild} : NextOf(a)' = NextOf(a)
  BY DEF NextOf, Turn, listVars
<1>8. next'[End] = next[End]
  BY DEF Turn, listVars
<1>9. q # << >> /\ q[Len(q)] = x
  BY <1>4, EmptySeq
<1>10. q[1] = next[End]
  <2>1. CASE p = << >>
    <3>1. Len(p) = 0 /\ x = NextOf(End)
      BY <1>1, <1>3, <1>5, <2>1, EmptySeq DEF Follows
    <3>2. x = next[End]
      BY <1>5, <3>1, NextOfIs DEF Place
    <3> QED
      BY <1>4, <3>1, <3>2
  <2>2. CASE p # << >>
    <3>1. Len(p) \in Nat \ {0}
      BY <1>4, <2>2, EmptySeq
    <3>2. p[1] = next[End]
      BY <1>1, <1>5, <2>2 DEF Follows
    <3> QED
      BY <1>4, <3>1, <3>2
  <2> QED
    BY <2>1, <2>2
<1>11. ASSUME NEW i \in 1..(Len(q) - 1) PROVE q[i + 1] = NextOf(q[i]) /\ q[i] \in Place \cup {Wild}
  <2>1. i \in 1..Len(p) /\ q[i] = p[i] /\ p[i] \in Node \cup {Wild}
    BY <1>4, ElementOfSeq
  <2>2. p # << >>
    BY <1>4, <2>1, EmptySeq
  <2>3. CASE i = Len(p)
    <3>1. x = NextOf(p[Len(p)])
      BY <1>1, <1>3, <1>5, <2>2 DEF Follows
    <3> QED
      BY <1>4, <2>1, <2>3, <3>1 DEF Place
  <2>4. CASE i # Len(p)
    <3>1. i \in 1..(Len(p) - 1) /\ i + 1 \in 1..Len(p)
      BY <1>4, <2>1, <2>4
    <3>2. p[i + 1] = NextOf(p[i])
      BY <1>1, <1>5, <2>2, <3>1 DEF Follows
    <3> QED
      BY <1>4, <2>1, <3>1, <3>2 DEF Place
  <2> QED
    BY <2>3, <2>4
<1>12. NextOf(x)' = NextOf(x)
  BY <1>3, <1>7, TurnTakes DEF Place
<1>13. Follows(walk.path, walk.node)'
  BY <1>2, <1>6, <1>7, <1>8, <1>9, <1>10, <1>11, <1>12 DEF Follows
<1>14. walk.by # "_list_contains_item" => Distinct(q)
  <2> SUFFICES ASSUME walk.by # "_list_contains_item" PROVE Distinct(q)
    OBVIOUS
  <2>1. Distinct(p)
    BY <1>1, <1>5 DEF WalkInv, Distinct
  <2>2. x \notin Holds(p)
    BY <1>1, <1>3, TurnTakes DEF Holds
  <2>3. \A i \in 1..Len(p) : p[i] # x
    BY <1>4, <2>2, At
  <2> QED
    BY <1>4, <2>1, <2>3 DEF Distinct
<1>15. walk.by = "_list_contains_item" => \A i \in DOMAIN q : q[i] # walk.item
  <2> SUFFICES ASSUME walk.by = "_list_contains_item" PROVE \A i \in DOMAIN q : q[i] # walk.item
    OBVIOUS
  <2>1. x # walk.item
    BY <1>3, TurnTakes
  <2>2. \A i \in DOMAIN p : p[i] # walk.item
    BY <1>1, <1>5 DEF WalkInv
  <2>3. DOMAIN p = 1..Len(p) /\ DOMAIN q = 1..(Len(p) + 1)
    BY <1>4, LenProperties
  <2> QED
    BY <1>4, <2>1, <2>2, <2>3
<1>16. Len(q) <= MaxCount
  <2>1. Len(p) \in Nat /\ MaxCount \in Nat /\ Len(q) = Len(p) + 1 /\ Len(p) < MaxCount
    BY <1>4, <1>5, WalkAssumption
  <2> QED
    BY <2>1
<1> QED
  BY <1>2, <1>6, <1>13, <1>14, <1>15, <1>16 DEF WalkInv, Distinct

\* Over a whole list a walk looks at what follows the beginning it took.
LEMMA WholeNode ==
  ASSUME TypeOK, ListInv, WalkInv, PathInv, walk.live, Whole, head.sentinel
  PROVE  /\ Distinct(members) /\ members \in Seq(Node) /\ walk.path \in Seq(Node \cup {Wild})
         /\ Begins(walk.path, members) /\ walk.owners = walk.path
         /\ walk.node = AfterAt(members, Len(walk.path))
<1>1. /\ Distinct(members) /\ Chains(next, members) /\ dark = {}
      /\ members \in Seq(Node) /\ walk.path \in Seq(Node \cup {Wild})
      /\ Begins(walk.path, members) /\ walk.owners = walk.path /\ Follows(walk.path, walk.node)
  BY DEF TypeOK, ListInv, WalkInv, PathInv
<1>2. Len(walk.path) \in 0..Len(members)
  BY <1>1 DEF Begins
<1>3. PlaceAt(walk.path, Len(walk.path)) = PlaceAt(members, Len(walk.path))
  BY <1>1, <1>2 DEF Begins, PlaceAt
<1>4. PlaceAt(members, Len(walk.path)) \in Place
  BY <1>1, <1>2, PlaceTyped
<1>5. walk.node # NoRead
  <2>1. \A a \in Place : NextOf(a) = next[a] /\ next[a] # NoRead
    <3>1. next \in [Place -> Word] /\ NoRead \notin Word /\ Wild \notin Place
      BY WalkAssumption DEF TypeOK, Place, Word, End, Null, Wild, NoRead
    <3> QED
      BY <1>1, <3>1 DEF NextOf
  <2>2. walk.node = NextOf(PlaceAt(walk.path, Len(walk.path)))
    <3>1. CASE walk.path = << >>
      BY <1>1, <3>1, EmptySeq DEF Follows, PlaceAt
    <3>2. CASE walk.path # << >>
      BY <1>1, <3>2, EmptySeq DEF Follows, PlaceAt
    <3> QED
      BY <3>1, <3>2
  <2> QED
    BY <1>3, <1>4, <2>1, <2>2
<1>6. walk.node = next[PlaceAt(members, Len(walk.path))]
  BY <1>1, <1>3, <1>5, NodeIs
<1>7. walk.node = AfterAt(members, Len(walk.path))
  BY <1>1, <1>2, <1>6 DEF Chains, ChainsAt
<1> QED
  BY <1>1, <1>7

\* A turn over a whole list takes the next member.
LEMMA TurnPathInv ==
  ASSUME TypeOK, ListInv, WalkInv, PathInv, Turn
  PROVE  PathInv'
<1>1. /\ members' = members /\ head' = head /\ faults' = faults /\ walk'.live = walk.live
  BY TurnIs DEF Turn, listVars
<1> SUFFICES ASSUME walk.live, Whole, head.sentinel
             PROVE  Begins(walk'.path, members) /\ walk'.owners = walk'.path
  BY <1>1 DEF PathInv, Whole
<1>2. PICK p : p = walk.path
  OBVIOUS
<1>3. PICK q : q = walk'.path
  OBVIOUS
<1>4. PICK s : s = members
  OBVIOUS
<1>5. PICK x : x = walk.node
  OBVIOUS
<1>6. /\ s \in Seq(Node) /\ p \in Seq(Node \cup {Wild}) /\ Begins(p, s) /\ x = AfterAt(s, Len(p))
  BY <1>2, <1>4, <1>5, WholeNode DEF Begins, AfterAt
<1>7. /\ q \in Seq(Node \cup {Wild}) /\ Len(q) = Len(p) + 1 /\ Len(p) \in Nat
      /\ \A i \in 1..Len(p) : q[i] = p[i]
      /\ q[Len(p) + 1] = x
  BY <1>2, <1>3, <1>5, PathAfterTurn DEF TypeOK
<1>8. x # End
  BY <1>5, TurnTakes
<1>9. Len(p) + 1 <= Len(s) /\ x = s[Len(p) + 1]
  BY <1>6, <1>7, <1>8 DEF AfterAt, Begins
<1>10. Begins(q, s)
  BY <1>6, <1>7, <1>9 DEF Begins
<1>11. x \in Node /\ dark = {}
  BY <1>6, <1>7, <1>9, ElementOfSeq DEF ListInv
<1>12. walk'.owners = walk'.path
  BY <1>5, <1>11, WholeNode, TurnIs, WalkAssumption DEF OwnersWith
<1> QED
  BY <1>3, <1>4, <1>10, <1>12 DEF Begins

\* A bad link that leads back ends the raw walk, so a turn over one skips forward.
LEMMA TurnSkipInv ==
  ASSUME TypeOK, ListInv, WalkInv, SkipInv, Turn
  PROVE  SkipInv'
<1>1. /\ members' = members /\ next' = next /\ faults' = faults /\ walk'.live = walk.live
      /\ walk'.by = walk.by
  BY TurnIs DEF Turn, listVars
<1> SUFFICES ASSUME walk.live, walk.by = "walk_list_raw", faults = 1, Enclosed, walk'.node # NoRead
             PROVE  \E k \in 0..Len(members), d \in Nat :
                      ChainsBut(next, members, k) /\ Skips(walk'.path, members, k, d)
  BY <1>1 DEF SkipInv, Enclosed, ChainsBut, ChainsAt
<1>2. PICK p : p = walk.path
  OBVIOUS
<1>3. PICK q : q = walk'.path
  OBVIOUS
<1>4. PICK s : s = members
  OBVIOUS
<1>5. PICK x : x = walk.node
  OBVIOUS
<1>6. PICK nx : nx = next
  OBVIOUS
<1>7. PICK k \in 0..Len(s), d \in Nat : ChainsBut(nx, s, k) /\ Skips(p, s, k, d)
  <2>1. PICK k \in 0..Len(members), d \in Nat : ChainsBut(next, members, k) /\ Skips(walk.path, members, k, d)
    BY TurnTakes DEF SkipInv
  <2>2. ChainsBut(nx, s, k)
    BY <1>4, <1>6, <2>1 DEF ChainsBut, ChainsAt, PlaceAt, AfterAt
  <2>3. Skips(p, s, k, d)
    BY <1>2, <1>4, <2>1 DEF Skips
  <2> QED
    BY <1>4, <2>2, <2>3
<1>8. /\ q \in Seq(Node \cup {Wild}) /\ Len(q) = Len(p) + 1 /\ Len(p) \in Nat
      /\ \A i \in 1..Len(p) : q[i] = p[i]
      /\ q[Len(p) + 1] = x
  BY <1>2, <1>3, <1>5, PathAfterTurn DEF TypeOK
<1>9. s \in Seq(Node) /\ Len(s) \in Nat /\ Distinct(s) /\ p \in Seq(Node \cup {Wild})
  BY <1>2, <1>4 DEF TypeOK, ListInv, Distinct
<1>10. x # End /\ x # NoRead /\ x \notin Holds(p) /\ x \in Node
  <2>1. x \in Node \cup {Wild} /\ x # End /\ x # NoRead /\ x \notin Holds(p)
    BY <1>2, <1>5, TurnTakes DEF Holds
  <2>2. x # Wild
    BY <1>5, TurnIs DEF NextOf
  <2> QED
    BY <2>1, <2>2
<1>11. x = nx[PlaceAt(p, Len(p))]
  BY <1>2, <1>5, <1>6, <1>10, NodeIs DEF WalkInv, PlaceAt
<1>12. ASSUME NEW e \in Nat, Skips(q, s, k, e)
       PROVE  \E j \in 0..Len(members), f \in Nat :
                ChainsBut(next, members, j) /\ Skips(walk'.path, members, j, f)
  <2>1. k \in 0..Len(members) /\ ChainsBut(next, members, k)
    BY <1>4, <1>6, <1>7 DEF ChainsBut, ChainsAt, PlaceAt, AfterAt
  <2>2. Skips(walk'.path, members, k, e)
    BY <1>3, <1>4, <1>12 DEF Skips
  <2> QED
    BY <2>1, <2>2
<1>13. CASE Len(p) < k
  <2>1. Len(p) \in 0..Len(s) /\ Len(p) # k
    BY <1>7, <1>8, <1>9, <1>13 DEF Skips
  <2>2. PlaceAt(p, Len(p)) = PlaceAt(s, Len(p))
    BY <1>7, <1>8, <1>13 DEF Skips, PlaceAt
  <2>3. x = AfterAt(s, Len(p))
    BY <1>7, <1>11, <2>1, <2>2 DEF ChainsBut, ChainsAt
  <2>4. Len(p) + 1 <= Len(s) /\ x = s[Len(p) + 1]
    BY <1>9, <1>10, <2>1, <2>3 DEF AfterAt
  <2>5. Skips(q, s, k, d)
    BY <1>7, <1>8, <1>9, <1>13, <2>4 DEF Skips
  <2> QED
    BY <1>12, <2>5
<1>14. CASE Len(p) = k
  <2>1. PlaceAt(p, Len(p)) = PlaceAt(s, k)
    BY <1>7, <1>8, <1>14 DEF Skips, PlaceAt
  <2>2. PlaceAt(s, k) \in Holds(s) \cup {End}
    BY <1>7, <1>9, PlaceTyped
  <2>3. nx[PlaceAt(s, k)] \in Holds(s) \cup {End, Null, Wild}
    BY <1>4, <1>6, <2>2 DEF Enclosed, Holds
  <2>4. x \in Holds(s)
    BY <1>10, <1>11, <2>1, <2>3, WalkAssumption
  <2>5. PICK j \in 1..Len(s) : x = s[j]
    BY <1>9, <2>4, HoldsAt
  <2>6. j > k
    <3>1. SUFFICES ASSUME j <= k PROVE FALSE
      BY <1>7, <1>9
    <3>2. j \in 1..Len(p) /\ p[j] = s[j]
      BY <1>7, <1>8, <1>14, <3>1 DEF Skips
    <3> QED
      BY <1>9, <1>10, <2>5, <3>2, At
  <2>7. PICK e \in Nat : j = (k + 1) + e
    <3>1. j - (k + 1) \in Nat /\ j = (k + 1) + (j - (k + 1))
      BY <1>7, <1>9, <2>6
    <3> QED
      BY <3>1
  <2>8. Skips(q, s, k, e)
    <3>1. \A i \in 1..Len(p) : q[i] = s[i]
      BY <1>7, <1>8, <1>14 DEF Skips
    <3>2. Len(q) = k + 1 /\ q[k + 1] = s[(k + 1) + e] /\ (k + 1) + e <= Len(s)
      BY <1>8, <1>14, <2>5, <2>7
    <3> QED
      BY <1>7, <1>8, <1>9, <1>14, <3>1, <3>2 DEF Skips
  <2> QED
    BY <1>12, <2>8
<1>15. CASE Len(p) > k
  <2>1. Len(p) + d \in 1..Len(s) /\ Len(p) + d # k /\ Len(p) + d \in 0..Len(s)
    BY <1>7, <1>8, <1>9, <1>15 DEF Skips
  <2>2. PlaceAt(p, Len(p)) = PlaceAt(s, Len(p) + d)
    BY <1>7, <1>8, <1>15 DEF Skips, PlaceAt
  <2>3. x = AfterAt(s, Len(p) + d)
    BY <1>7, <1>11, <2>1, <2>2 DEF ChainsBut, ChainsAt
  <2>4. (Len(p) + d) + 1 <= Len(s) /\ x = s[(Len(p) + d) + 1]
    BY <1>9, <1>10, <2>1, <2>3 DEF AfterAt
  <2>5. (Len(p) + d) + 1 = (Len(p) + 1) + d
    <3>1. Len(p) \in Nat /\ d \in Nat
      BY <1>7, <1>8
    <3> QED
      BY <3>1
  <2>6. Skips(q, s, k, d)
    <3>1. \A i \in 1..Len(p) : q[i] = IF i <= k THEN s[i] ELSE s[i + d]
      BY <1>7, <1>8 DEF Skips
    <3>2. Len(q) > k /\ Len(q) + d <= Len(s)
      BY <1>7, <1>8, <1>9, <1>15, <2>4, <2>5
    <3>3. q[Len(p) + 1] = s[(Len(p) + 1) + d] /\ Len(p) + 1 > k
      BY <1>7, <1>8, <1>15, <2>4, <2>5
    <3> QED
      BY <1>7, <1>8, <3>1, <3>2, <3>3 DEF Skips
  <2> QED
    BY <1>12, <2>6
<1> QED
  BY <1>7, <1>8, <1>13, <1>14, <1>15

\* Why a walk ends depends on the list and on what the walk is at and took.
LEMMA EndsStay ==
  ASSUME UNCHANGED listVars, walk'.by = walk.by, walk'.item = walk.item, walk'.node = walk.node,
         walk'.path = walk.path
  PROVE  Ends' = Ends
<1>1. build' = build
  BY DEF listVars
<1>2. Seen' = Seen /\ Steps' = Steps /\ OutOfRange(walk.node)' = OutOfRange(walk.node)
  BY <1>1 DEF Seen, Steps, OutOfRange, Holds
<1>3. IterListEnds' = IterListEnds
  BY <1>2 DEF IterListEnds
<1>4. BoundedListEnds' = BoundedListEnds
  BY <1>2 DEF BoundedListEnds
<1>5. ContainsEnds' = ContainsEnds
  BY <1>2 DEF ContainsEnds
<1>6. RawEnds' = RawEnds
  BY <1>2 DEF RawEnds
<1> QED
  BY <1>3, <1>4, <1>5, <1>6 DEF Ends

\* An ending and an answer keep what the walk took.
LEMMA StopInv ==
  ASSUME IInv, Stop
  PROVE  IInv'
<1>1. TypeOK /\ ListInv /\ WalkInv /\ PathInv /\ SkipInv
  BY DEF IInv
<1>2. UNCHANGED listVars /\ walk.live /\ walk' = [walk EXCEPT !.ending = Ends]
  BY DEF Stop
<1>3. Ends \in Endings
  BY DEF Ends, IterListEnds, BoundedListEnds, ContainsEnds, RawEnds, Endings
<1>4. /\ walk'.by = walk.by /\ walk'.item = walk.item /\ walk'.node = walk.node
      /\ walk'.path = walk.path /\ walk'.owners = walk.owners /\ walk'.live = walk.live
      /\ walk'.ending = Ends
      /\ walk' \in [by : Walkers, item : Place, node : Word \cup {NoRead}, path : Seq(Node \cup {Wild}),
                    owners : Seq(Node), ending : Endings, live : BOOLEAN]
  BY <1>1, <1>2, <1>3 DEF TypeOK
<1>5. TypeOK'
  BY <1>1, <1>2, <1>4 DEF TypeOK, listVars
<1>6. ListInv'
  BY <1>1, <1>2, ListStays
<1>7. /\ build' = build /\ next' = next /\ dark' = dark /\ head' = head /\ members' = members
      /\ faults' = faults
  BY <1>2 DEF listVars
<1>8. Ends' = Ends
  BY <1>2, <1>4, EndsStay
<1>9. Follows(walk.path, walk.node)' = Follows(walk.path, walk.node)
  BY <1>4, <1>7 DEF Follows, NextOf
<1>10. WalkInv'
  BY <1>1, <1>2, <1>4, <1>8, <1>9 DEF WalkInv, Distinct
<1>11. PathInv'
  BY <1>1, <1>4, <1>7 DEF PathInv, Begins, Whole
<1>12. SkipInv'
  BY <1>1, <1>4, <1>7 DEF SkipInv, Enclosed, ChainsBut, ChainsAt, Skips, Holds, PlaceAt, AfterAt
<1> QED
  BY <1>5, <1>6, <1>10, <1>11, <1>12 DEF IInv

\* With the answer out nothing is left of the walk.
LEMMA ContinueInv ==
  ASSUME IInv, Continue
  PROVE  IInv'
<1>1. TypeOK /\ ListInv
  BY DEF IInv
<1>2. /\ UNCHANGED listVars
      /\ walk' = [walk EXCEPT !.live = FALSE, !.path = << >>, !.owners = << >>, !.ending = "",
                              !.node = NoRead, !.item = End]
  BY DEF Continue
<1>3. << >> \in Seq(Node \cup {Wild}) /\ << >> \in Seq(Node)
  BY EmptySeq
<1>4. /\ walk' \in [by : Walkers, item : Place, node : Word \cup {NoRead}, path : Seq(Node \cup {Wild}),
                    owners : Seq(Node), ending : Endings, live : BOOLEAN]
      /\ ~walk'.live /\ walk'.path = << >> /\ walk'.owners = << >> /\ walk'.ending = ""
  BY <1>1, <1>2, <1>3 DEF TypeOK, Endings, Place
<1>5. TypeOK'
  BY <1>1, <1>2, <1>4 DEF TypeOK, listVars
<1>6. ListInv'
  BY <1>1, <1>2, ListStays
<1>7. WalkInv' /\ PathInv' /\ SkipInv'
  BY <1>4 DEF WalkInv, PathInv, SkipInv
<1> QED
  BY <1>5, <1>6, <1>7 DEF IInv

\* A turn keeps the invariant.
LEMMA TurnInv ==
  ASSUME IInv, Turn
  PROVE  IInv'
<1>1. TypeOK /\ ListInv /\ WalkInv /\ PathInv /\ SkipInv
  BY DEF IInv
<1>2. ListInv'
  BY <1>1, ListStays DEF Turn
<1> QED
  BY <1>1, <1>2, TurnTyped, TurnWalk, TurnPathInv, TurnSkipInv DEF IInv

\* Over every list the kernel and the faults can leave, the list, the walk and
\* what it took fit together.
THEOREM WalksAreSound == Spec => []IInv
<1>1. IInv /\ [Next]_vars => IInv'
  <2> SUFFICES ASSUME IInv, [Next]_vars PROVE IInv'
    OBVIOUS
  <2>1. CASE Kernel
    BY <2>1, KernelInv
  <2>2. CASE \E w \in Walkers : Begin(w, End)
    BY <2>2, BeginInv DEF Place
  <2>3. CASE \E n \in Node : Begin("_list_contains_item", n)
    BY <2>3, BeginInv DEF Place, Walkers
  <2>4. CASE Turn
    BY <2>4, TurnInv
  <2>5. CASE Stop
    BY <2>5, StopInv
  <2>6. CASE Continue
    BY <2>6, ContinueInv
  <2>7. CASE UNCHANGED vars
    <3>1. UNCHANGED listVars /\ walk' = walk
      BY <2>7 DEF vars
    <3>2. ListInv'
      BY <3>1, ListStays DEF IInv
    <3>3. TypeOK'
      BY <3>1 DEF IInv, TypeOK, listVars
    <3>4. WalkInv'
      <4>1. Ends' = Ends
        BY <3>1, EndsStay
      <4>2. Follows(walk.path, walk.node)' = Follows(walk.path, walk.node)
        BY <3>1 DEF Follows, NextOf, listVars
      <4> QED
        BY <3>1, <4>1, <4>2 DEF IInv, WalkInv, Distinct
    <3>5. PathInv'
      BY <3>1 DEF IInv, PathInv, listVars, Begins, Whole
    <3>6. SkipInv'
      <4>1. next' = next /\ members' = members /\ faults' = faults /\ walk' = walk /\ SkipInv
        BY <3>1 DEF IInv, listVars
      <4> QED
        BY <4>1 DEF SkipInv, Enclosed, ChainsBut, ChainsAt, Skips, Holds, PlaceAt, AfterAt
    <3> QED
      BY <3>2, <3>3, <3>4, <3>5, <3>6 DEF IInv
  <2> QED
    BY <2>1, <2>2, <2>3, <2>4, <2>5, <2>6, <2>7 DEF Next, Reader
<1> QED
  BY <1>1, InitInv, PTL DEF Spec

-----------------------------------------------------------------------------
\* What the readers say.

\* A clean ending is an ending at the end marker of a chain that closes.
LEMMA CleanEnding ==
  ASSUME IInv
  PROVE  CleanIsClosed
<1>1. TypeOK /\ WalkInv
  BY DEF IInv
<1>2. ASSUME walk.ending = "end", walk.by \in {"walk_list_raw", "iter_list"} PROVE Closes(walk.path)
  <2>1. walk.live /\ Ends = "end" /\ walk.by # "_list_contains_item"
    BY <1>1, <1>2 DEF WalkInv
  <2>2. walk.node = End
    BY <1>2, <2>1 DEF Ends, IterListEnds, RawEnds
  <2>3. Follows(walk.path, End) /\ Distinct(walk.path)
    BY <1>1, <2>1, <2>2 DEF WalkInv
  <2> QED
    BY <2>3 DEF Closes, Distinct
<1>3. ASSUME walk.ending = "bound", walk.by = "iter_list"
      PROVE  Steps = MaxCount /\ walk.node \in (Node \cup {Wild}) \ Seen
  <2>1. walk.live /\ IterListEnds = "bound" /\ Len(walk.path) <= MaxCount
    BY <1>1, <1>3 DEF WalkInv, Ends
  <2>2. walk.node \notin {NoRead, End, Null} /\ walk.node \notin Seen /\ Steps >= MaxCount
    BY <2>1 DEF IterListEnds
  <2>3. Len(walk.path) \in Nat /\ MaxCount \in Nat /\ walk.node \in Word \cup {NoRead}
    BY <1>1, WalkAssumption DEF TypeOK
  <2> QED
    BY <2>1, <2>2, <2>3 DEF Steps, Word, Place
<1> QED
  BY <1>2, <1>3 DEF CleanIsClosed

\* Every reader but the search takes a whole list, all of it and in order; the
\* two that look for the end marker before the limit find it.
LEMMA WholeIsTaken ==
  ASSUME IInv, Done, Whole, head.sentinel, Len(members) <= MaxCount,
         walk.by # "_list_contains_item"
  PROVE  /\ walk.path = members /\ walk.owners = members
         /\ walk.by \in {"iter_list", "walk_list_raw"} => walk.ending = "end"
<1>1. TypeOK /\ ListInv /\ WalkInv /\ PathInv /\ walk.live /\ walk.ending # ""
  BY DEF IInv, Done
<1>2. PICK p : p = walk.path
  OBVIOUS
<1>3. PICK s : s = members
  OBVIOUS
<1>4. PICK x : x = walk.node
  OBVIOUS
<1>5. /\ s \in Seq(Node) /\ p \in Seq(Node \cup {Wild}) /\ Begins(p, s) /\ x = AfterAt(s, Len(p))
      /\ Distinct(s) /\ walk.owners = p
  BY <1>1, <1>2, <1>3, <1>4, WholeNode DEF Begins, AfterAt, Distinct
<1>6. Len(p) \in 0..Len(s) /\ \A i \in 1..Len(p) : p[i] = s[i]
  BY <1>5 DEF Begins
<1>7. x \in Place
  BY <1>5, <1>6, AfterTyped
<1>8. x # NoRead /\ x # Null /\ x # Wild
  BY <1>7, WalkAssumption DEF Place, End, Null, Wild, NoRead
<1>9. x \notin Holds(p)
  <2>1. SUFFICES ASSUME x \in Holds(p) PROVE FALSE
    OBVIOUS
  <2>2. PICK i \in 1..Len(p) : x = p[i]
    BY <1>5, <2>1, HoldsAt
  <2>3. x = s[i] /\ i \in 1..Len(s) /\ i \in DOMAIN s
    BY <1>5, <1>6, <2>2
  <2>4. x # End
    BY <1>5, <2>3, WalkAssumption
  <2>5. Len(p) + 1 \in DOMAIN s /\ x = s[Len(p) + 1]
    BY <1>5, <1>6, <2>4 DEF AfterAt
  <2> QED
    BY <1>5, <2>2, <2>3, <2>5, i # Len(p) + 1 DEF Distinct
<1>10. Ends = walk.ending /\ Ends # ""
  BY <1>1 DEF WalkInv
<1>11. x = End \/ Len(p) >= MaxCount
  BY <1>2, <1>4, <1>8, <1>9, <1>10
     DEF Ends, IterListEnds, BoundedListEnds, RawEnds, OutOfRange, Seen, Steps, Holds
<1>12. Len(p) = Len(s)
  <2>1. CASE x = End
    <3>1. SUFFICES ASSUME Len(p) # Len(s) PROVE FALSE
      OBVIOUS
    <3>2. Len(p) + 1 \in 1..Len(s) /\ x = s[Len(p) + 1]
      BY <1>5, <1>6, <3>1 DEF AfterAt
    <3> QED
      BY <1>5, <2>1, <3>2, ElementOfSeq, WalkAssumption
  <2>2. CASE Len(p) >= MaxCount
    BY <1>3, <1>5, <1>6, <2>2, WalkAssumption
  <2> QED
    BY <1>11, <2>1, <2>2
<1>13. x = End
  BY <1>5, <1>12 DEF AfterAt
<1>14. p = s
  <2>1. s \in Seq(Node \cup {Wild})
    BY <1>5
  <2> QED
    BY <1>5, <1>6, <1>12, <2>1, SeqEqual
<1>15. walk.by \in {"iter_list", "walk_list_raw"} => walk.ending = "end"
  BY <1>4, <1>8, <1>10, <1>13 DEF Ends, IterListEnds, RawEnds
<1> QED
  BY <1>2, <1>3, <1>5, <1>14, <1>15

\* The search over a whole list finds exactly a member.
LEMMA WholeIsSearched ==
  ASSUME IInv, Done, Whole, head.sentinel, Len(members) <= MaxCount,
         walk.by = "_list_contains_item"
  PROVE  (walk.ending = "found") <=> (walk.item \in Holds(members))
<1>1. TypeOK /\ ListInv /\ WalkInv /\ PathInv /\ walk.live /\ walk.ending # ""
  BY DEF IInv, Done
<1>2. PICK p : p = walk.path
  OBVIOUS
<1>3. PICK s : s = members
  OBVIOUS
<1>4. PICK x : x = walk.node
  OBVIOUS
<1>5. /\ s \in Seq(Node) /\ p \in Seq(Node \cup {Wild}) /\ Begins(p, s) /\ x = AfterAt(s, Len(p))
  BY <1>1, <1>2, <1>3, <1>4, WholeNode DEF Begins, AfterAt
<1>6. Len(p) \in 0..Len(s) /\ \A i \in 1..Len(p) : p[i] = s[i]
  BY <1>5 DEF Begins
<1>7. x \in Holds(s) \cup {End} /\ x \in Place
  BY <1>5, <1>6, AfterTyped
<1>8. x # NoRead /\ x # Null
  BY <1>7, WalkAssumption DEF Place, End, Null, Wild, NoRead
<1>9. ContainsEnds = walk.ending
  BY <1>1 DEF WalkInv, Ends
<1>10. ASSUME walk.ending = "found" PROVE walk.item \in Holds(members)
  <2>1. x = walk.item /\ x # End
    BY <1>4, <1>9, <1>10 DEF ContainsEnds
  <2> QED
    BY <1>3, <1>7, <2>1 DEF Holds
<1>11. ASSUME walk.item \in Holds(members) PROVE walk.ending = "found"
  <2>1. PICK j \in 1..Len(s) : walk.item = s[j]
    BY <1>3, <1>5, <1>11, HoldsAt
  <2>2. \A i \in 1..Len(p) : p[i] # walk.item
    <3>1. \A i \in DOMAIN p : p[i] # walk.item
      BY <1>1, <1>2 DEF WalkInv
    <3> QED
      BY <1>5, <3>1, LenProperties
  <2>3. Len(p) # Len(s)
    BY <1>6, <2>1, <2>2
  <2>4. Len(p) < MaxCount /\ ~(Len(p) >= MaxCount)
    BY <1>3, <1>5, <1>6, <2>3, WalkAssumption
  <2>5. Len(p) + 1 \in 1..Len(s) /\ x = s[Len(p) + 1]
    BY <1>5, <1>6, <2>3 DEF AfterAt
  <2>6. x # End
    BY <1>5, <2>5, ElementOfSeq, WalkAssumption
  <2> QED
    BY <1>1, <1>2, <1>4, <1>8, <1>9, <2>4, <2>6 DEF ContainsEnds, Steps
<1> QED
  BY <1>10, <1>11

\* A healthy list passes: the walk took it all, and the number of items is its length.
LEMMA HealthyPasses ==
  ASSUME IInv
  PROVE  HealthyIsOk
<1> SUFFICES ASSUME Done, walk.by = "walk_list_raw", Whole, head.sentinel, op.kind = "none",
                    Len(members) <= MaxCount
             PROVE  /\ ListInit = "ok" /\ ListIntegrity = "ok" /\ ListCount = "ok"
                    /\ ListIndex \in {"ok", "skipped"}
                    /\ \A n \in Node : \A c \in DOMAIN TaskChecks(n) : TaskChecks(n)[c] \in {"ok", "skipped"}
                    /\ \A n \in Holds(members) \ dark : TaskChecks(n).ItemContainer = "ok"
  BY DEF HealthyIsOk
<1>1. walk.path = members /\ walk.ending = "end"
  BY WholeIsTaken
<1>2. head.count = Len(members) /\ (build.smp => head.index = End)
  BY DEF IInv, ListInv
<1>3. ~Corrupt /\ ~Truncated
  BY <1>1 DEF Corrupt, Truncated
<1>4. /\ ListInit = "ok" /\ ListIntegrity = "ok" /\ ListCount = "ok"
      /\ ListIndex \in {"ok", "skipped"}
  BY <1>1, <1>2, <1>3 DEF ListInit, ListIntegrity, ListCount, ListIndex
<1>5. Contained = Holds(members) /\ Seen = Holds(members)
  BY <1>1 DEF Contained, Seen
<1>6. \A n \in Node : \A c \in DOMAIN TaskChecks(n) : TaskChecks(n)[c] \in {"ok", "skipped"}
  BY <1>3, <1>4, <1>5 DEF TaskChecks
<1>7. \A n \in Holds(members) \ dark : TaskChecks(n).ItemContainer = "ok"
  BY <1>3, <1>5 DEF TaskChecks
<1> QED
  BY <1>4, <1>6, <1>7

\* A count that agrees leaves nothing skipped.
LEMMA OverwritePasses ==
  ASSUME IInv
  PROVE  OverwriteIsSeen
<1> SUFFICES ASSUME Done, walk.by = "walk_list_raw", faults = 1, op.kind = "none", Enclosed,
                    ListIntegrity = "ok", ListCount = "ok"
             PROVE  walk.path = members
  BY DEF OverwriteIsSeen, Enclosed
<1>1. TypeOK /\ ListInv /\ WalkInv /\ SkipInv /\ walk.live /\ walk.ending # ""
  BY DEF IInv, Done
<1>2. ~Corrupt /\ ~Truncated
  BY DEF ListIntegrity
<1>3. head.count = Len(walk.path) /\ head.count = Len(members)
  BY <1>1, <1>2 DEF ListCount, ListInv
<1>4. walk.node # NoRead
  <2>1. RawEnds = walk.ending
    BY <1>1 DEF WalkInv, Ends
  <2> QED
    BY <1>2, <2>1 DEF RawEnds, Corrupt
<1>5. PICK p : p = walk.path
  OBVIOUS
<1>6. PICK s : s = members
  OBVIOUS
<1>7. p \in Seq(Node \cup {Wild}) /\ s \in Seq(Node \cup {Wild}) /\ Len(p) = Len(s)
  <2>1. walk.path \in Seq(Node \cup {Wild}) /\ members \in Seq(Node) /\ Len(walk.path) = Len(members)
    BY <1>1, <1>3 DEF TypeOK
  <2> QED
    BY <1>5, <1>6, <2>1
<1>8. PICK k \in 0..Len(s), d \in Nat : Skips(p, s, k, d)
  <2>1. PICK k \in 0..Len(members), d \in Nat : Skips(walk.path, members, k, d)
    BY <1>1, <1>4 DEF SkipInv
  <2> QED
    BY <1>5, <1>6, <2>1 DEF Skips
<1>9. \A i \in 1..Len(p) : p[i] = s[i]
  <2>1. CASE Len(p) <= k
    BY <1>7, <1>8, <2>1 DEF Skips
  <2>2. CASE Len(p) > k
    <3>1. d = 0
      BY <1>7, <1>8, <2>2 DEF Skips
    <3> QED
      BY <1>7, <1>8, <3>1 DEF Skips
  <2> QED
    BY <1>7, <1>8, <2>1, <2>2
<1> QED
  BY <1>5, <1>6, <1>7, <1>9, SeqEqual

\* A list nobody broke is read whole and in order by every reader, whatever
\* store of an insertion or a removal the kernel was halted before; the search
\* finds exactly the members, and iter_list does not warn.
THEOREM SoundLists == Spec => []SoundIsWhole
<1>1. IInv => SoundIsWhole
  <2> SUFFICES ASSUME IInv PROVE SoundIsWhole
    OBVIOUS
  <2>1. TypeOK
    BY DEF IInv
  <2>2. ASSUME Done, Whole, head.sentinel, Len(members) <= MaxCount, walk.by = "_list_contains_item"
        PROVE  (walk.ending = "found") <=> (walk.item \in Holds(members))
    BY <2>2, WholeIsSearched
  <2>3. ASSUME Done, Whole, head.sentinel, Len(members) <= MaxCount, walk.by # "_list_contains_item"
        PROVE  Yielded = members /\ (walk.by = "iter_list" => ~Warns)
    <3>1. /\ walk.path = members /\ walk.owners = members
          /\ walk.by \in {"iter_list", "walk_list_raw"} => walk.ending = "end"
      BY <2>3, WholeIsTaken
    <3> QED
      BY <3>1 DEF Yielded, Warns
  <2> QED
    BY <2>1, <2>2, <2>3 DEF SoundIsWhole
<1> QED
  BY <1>1, WalksAreSound, PTL

\* What walk_list_raw and iter_list report as an ended list is a chain that
\* closes over distinct items, and iter_list warns of its limit only beyond it.
THEOREM CleanLists == Spec => []CleanIsClosed
BY CleanEnding, WalksAreSound, PTL

\* The verdicts of list_checks tell a healthy list from one with a bad link.
THEOREM ListChecksTell == Spec => []ChecksTell
<1>1. IInv => ChecksTell
  BY HealthyPasses, OverwritePasses DEF ChecksTell
<1> QED
  BY <1>1, WalksAreSound, PTL
=============================================================================
