---------------------------- MODULE PanelProofs ----------------------------
(***************************************************************************)
(* Proofs about Panel, for any sessions, settings and bounds.              *)
(*                                                                         *)
(* The answers under way to a session are in the order of the stops they   *)
(* are of, though GDB takes the calls in any order: whatever is delivered  *)
(* later is of a stop at least as late.  So a map that is delivered is not *)
(* older than the snapshot beside it, and a snapshot that overtakes the    *)
(* map asks for another.                                                   *)
(***************************************************************************)
EXTENDS Panel, TLAPS, SequenceTheorems

\* GDB computes at a stop, and every stop is within the bound.
StopsCounted == \A s \in Sessions : target[s] = "stopped" => stop[s] \in 1..MaxStops[s]

Typed == TypeOK /\ StopsCounted

\* The answers of a session, in the order of the stops they are of, none of a
\* stop to come.
Ordered(s) ==
  /\ \A i, j \in DOMAIN answers[s] :
       /\ i <= j /\ answers[s][i].result # None /\ answers[s][j].result # None
       => answers[s][i].result.generation <= answers[s][j].result.generation
  /\ \A i \in DOMAIN answers[s] :
       answers[s][i].result # None => answers[s][i].result.generation <= stop[s]

\* No answer under way is older than the snapshot shown.
Ahead(s) ==
  entry[s].shown # None =>
    /\ entry[s].shown <= stop[s]
    /\ \A i \in DOMAIN answers[s] :
         answers[s][i].result # None => entry[s].shown <= answers[s][i].result.generation

MapAwaited(s) == \E c \in Outstanding(s) : c.kind \in {"request", "follow"}

\* A map older than the snapshot is there only while another is awaited.
MapCurrent(s) ==
  /\ entry[s].heapRequested /\ entry[s].heapMap # None /\ entry[s].shown # None /\ ~MapAwaited(s)
  => entry[s].heapMap >= entry[s].shown

MapInv == \A s \in Sessions : Ordered(s) /\ Ahead(s) /\ MapCurrent(s)

\* A session has one tab.
OneTab == \A i, j \in DOMAIN tabs : tabs[i] = tabs[j] => i = j

\* The last event of a session that is gone is its end, and after that it has
\* neither tab nor timer.
EndComesLast(s) ==
  target[s] = "gone" =>
    IF events[s] = << >> THEN ~Tracked(s) /\ ~entry[s].debounce
    ELSE events[s][Len(events[s])].kind = "terminated"

EndInv == OneTab /\ \A s \in Sessions : EndComesLast(s)

Inv == Typed /\ MapInv /\ EndInv

-----------------------------------------------------------------------------
\* An event or an answer received leaves a queue of them, one sent makes one.
LEMMA QueueTyped ==
  ASSUME NEW S, NEW T, NEW f \in [S -> Seq(T)], NEW s \in S
  PROVE  /\ \A x \in T : [f EXCEPT ![s] = Append(@, x)] \in [S -> Seq(T)]
         /\ f[s] # << >> => Head(f[s]) \in T /\ [f EXCEPT ![s] = Tail(@)] \in [S -> Seq(T)]
<1>1. f[s] \in Seq(T)
  OBVIOUS
<1>2. ASSUME NEW x \in T
      PROVE  Append(f[s], x) \in Seq(T)
  BY <1>1
<1>3. f[s] # << >> => Head(f[s]) \in T /\ Tail(f[s]) \in Seq(T)
  BY <1>1, HeadTailProperties
<1>. QED BY <1>2, <1>3

\* A sequence without its kth element.
LEMMA RemoveAtProperties ==
  ASSUME NEW S, NEW q \in Seq(S), NEW k \in 1..Len(q)
  PROVE  /\ RemoveAt(q, k) \in Seq(S)
         /\ Len(RemoveAt(q, k)) = Len(q) - 1
         /\ \A i \in 1..(Len(q) - 1) : RemoveAt(q, k)[i] = IF i < k THEN q[i] ELSE q[i + 1]
<1> DEFINE n == Len(q)
           front == SubSeq(q, 1, k - 1)
           back  == SubSeq(q, k + 1, n)
<1>1. n \in Nat /\ k \in 1..n /\ \A i \in 1..n : q[i] \in S
  BY ElementOfSeq, LenProperties
<1>2. /\ front \in Seq(S) /\ Len(front) = k - 1
      /\ \A i \in 1..(k - 1) : front[i] = q[i]
  <2>1. \A i \in 1..(k - 1) : q[i] \in S
    BY <1>1
  <2>2. /\ front \in Seq(S) /\ Len(front) = IF 1 <= k - 1 THEN (k - 1) - 1 + 1 ELSE 0
        /\ \A i \in 1..((k - 1) - 1 + 1) : front[i] = q[1 + i - 1]
    BY <1>1, <2>1, SubSeqProperties
  <2> HIDE DEF front
  <2>. QED BY <1>1, <2>2
<1>3. /\ back \in Seq(S) /\ Len(back) = n - k
      /\ \A i \in 1..(n - k) : back[i] = q[k + i]
  <2>1. \A i \in (k + 1)..n : q[i] \in S
    BY <1>1
  <2>2. /\ back \in Seq(S) /\ Len(back) = IF k + 1 <= n THEN n - (k + 1) + 1 ELSE 0
        /\ \A i \in 1..(n - (k + 1) + 1) : back[i] = q[(k + 1) + i - 1]
    BY <1>1, <2>1, SubSeqProperties
  <2> HIDE DEF back, n
  <2>. QED BY <1>1, <2>2
<1>4. RemoveAt(q, k) = front \o back
  BY DEF RemoveAt
<1> HIDE DEF n, front, back
<1>5. /\ front \o back \in Seq(S)
      /\ Len(front \o back) = Len(front) + Len(back)
      /\ \A i \in 1..(Len(front) + Len(back)) :
           (front \o back)[i] = IF i <= Len(front) THEN front[i] ELSE back[i - Len(front)]
  BY <1>2, <1>3, ConcatProperties
<1>6. /\ RemoveAt(q, k) \in Seq(S) /\ Len(RemoveAt(q, k)) = n - 1
      /\ \A i \in 1..(n - 1) : RemoveAt(q, k)[i] = IF i <= k - 1 THEN front[i] ELSE back[i - (k - 1)]
  <2>1. Len(front) = k - 1 /\ Len(back) = n - k /\ (k - 1) + (n - k) = n - 1
    BY <1>1, <1>2, <1>3
  <2>. QED BY <1>4, <1>5, <2>1
<1>7. ASSUME NEW i \in 1..(n - 1)
      PROVE  RemoveAt(q, k)[i] = IF i < k THEN q[i] ELSE q[i + 1]
  <2>1. CASE i < k
    BY <1>1, <1>2, <1>6, <2>1
  <2>2. CASE ~(i < k)
    <3>1. i - (k - 1) \in 1..(n - k) /\ k + (i - (k - 1)) = i + 1
      BY <1>1, <2>2
    <3>2. RemoveAt(q, k)[i] = back[i - (k - 1)]
      BY <1>1, <1>6, <2>2
    <3>3. back[i - (k - 1)] = q[k + (i - (k - 1))]
      BY <1>3, <3>1
    <3>. QED BY <2>2, <3>1, <3>2, <3>3
  <2>. QED BY <2>1, <2>2
<1>. QED BY <1>6, <1>7 DEF n

\* Closing a tab leaves the others.
LEMMA ClosedTabs ==
  ASSUME tabs \in Seq(Sessions), OneTab, NEW s \in Sessions
  PROVE  /\ Closed(s) \in Seq(Sessions)
         /\ ToSet(Closed(s)) = ToSet(tabs) \ {s}
         /\ \A i, j \in DOMAIN Closed(s) : Closed(s)[i] = Closed(s)[j] => i = j
<1>1. CASE ~Tracked(s)
  <2>1. Closed(s) = tabs
    BY <1>1 DEF Closed
  <2>2. ToSet(tabs) = ToSet(tabs) \ {s}
    BY <1>1 DEF Tracked
  <2>. QED BY <2>1, <2>2 DEF OneTab
<1>2. CASE Tracked(s)
  <2> DEFINE n == Len(tabs)
  <2>1. n \in Nat /\ DOMAIN tabs = 1..n
    BY LenProperties
  <2>2. PICK k \in 1..n : tabs[k] = s /\ Closed(s) = RemoveAt(tabs, k)
    BY <1>2, <2>1 DEF Tracked, ToSet, Closed
  <2>3. /\ Closed(s) \in Seq(Sessions) /\ Len(Closed(s)) = n - 1
        /\ \A i \in 1..(n - 1) : Closed(s)[i] = IF i < k THEN tabs[i] ELSE tabs[i + 1]
    BY <2>2, RemoveAtProperties
  <2>4. DOMAIN Closed(s) = 1..(n - 1)
    BY <2>3, LenProperties
  <2>5. \A i, j \in 1..n : tabs[i] = tabs[j] => i = j
    BY <2>1 DEF OneTab
  <2> HIDE DEF n
  <2>6. ASSUME NEW i \in 1..(n - 1)
        PROVE  Closed(s)[i] \in ToSet(tabs) \ {s}
    <3>1. CASE i < k
      <4>1. i \in 1..n /\ i # k /\ Closed(s)[i] = tabs[i]
        BY <2>1, <2>2, <2>3, <3>1
      <4>2. tabs[i] # s
        BY <2>2, <2>5, <4>1
      <4>. QED BY <2>1, <4>1, <4>2 DEF ToSet
    <3>2. CASE ~(i < k)
      <4>1. i + 1 \in 1..n /\ i + 1 # k /\ Closed(s)[i] = tabs[i + 1]
        BY <2>1, <2>2, <2>3, <3>2
      <4>2. tabs[i + 1] # s
        BY <2>2, <2>5, <4>1
      <4>. QED BY <2>1, <4>1, <4>2 DEF ToSet
    <3>. QED BY <3>1, <3>2
  <2>7. ASSUME NEW i \in 1..n, tabs[i] # s
        PROVE  tabs[i] \in ToSet(Closed(s))
    <3>1. CASE i < k
      BY <2>1, <2>2, <2>3, <2>4, <3>1 DEF ToSet
    <3>2. CASE i > k
      <4>1. i - 1 \in 1..(n - 1) /\ Closed(s)[i - 1] = tabs[i]
        BY <2>1, <2>2, <2>3, <3>2
      <4>. QED BY <2>4, <4>1 DEF ToSet
    <3>. QED BY <2>1, <2>2, <2>7, <3>1, <3>2
  <2>8. \A i, j \in 1..(n - 1) : Closed(s)[i] = Closed(s)[j] => i = j
    BY <2>1, <2>2, <2>3, <2>5
  <2>9. ToSet(Closed(s)) = ToSet(tabs) \ {s}
    <3>1. ToSet(Closed(s)) \subseteq ToSet(tabs) \ {s}
      BY <2>4, <2>6 DEF ToSet
    <3>2. ToSet(tabs) \ {s} \subseteq ToSet(Closed(s))
      BY <2>1, <2>7 DEF ToSet
    <3>. QED BY <3>1, <3>2
  <2>. QED BY <2>3, <2>4, <2>8, <2>9
<1>. QED BY <1>1, <1>2

-----------------------------------------------------------------------------
\* The fields the map is about.
SameMap(e, d) == d.shown = e.shown /\ d.heapMap = e.heapMap /\ d.heapRequested = e.heapRequested

\* The fields of an entry, each of its own type.
LEMMA Fields ==
  ASSUME NEW e \in SessionEntry
  PROVE  /\ \A x \in {"waiting", "ok", "running", "error"} : [e EXCEPT !.status = x] \in SessionEntry
         /\ \A b \in BOOLEAN : /\ [e EXCEPT !.debounce = b] \in SessionEntry
                             /\ [e EXCEPT !.heapRequested = b] \in SessionEntry
         /\ \A m \in Stops \cup {None} : [e EXCEPT !.heapMap = m] \in SessionEntry
  BY DEF SessionEntry

\* What the panel's methods make of an entry is an entry, with the map and the
\* snapshot it had; and what they call is a call.
LEMMA Methods ==
  ASSUME NEW s \in Sessions, NEW e \in SessionEntry
  PROVE  /\ Failed(s, e) \in SessionEntry /\ SameMap(e, Failed(s, e))
         /\ Failed(s, e).debounce = e.debounce
         /\ \A f \in Stops : AfterInit(e, f) \in SessionEntry /\ SameMap(e, AfterInit(e, f))
         /\ Refresh(e) \in SessionEntry /\ SameMap(e, Refresh(e)) /\ Refresh(e).debounce = e.debounce
         /\ Settle(e) \in SessionEntry /\ SameMap(e, Settle(e)) /\ Settle(e).debounce = e.debounce
         /\ RefreshCall(e) \subseteq Call /\ \A c \in RefreshCall(e) : c.kind = "refresh"
         /\ \A r \in [ok: BOOLEAN, generation: Stops] : Follows(s, e, r) \subseteq Call
<1>1. Failed(s, e) \in SessionEntry /\ SameMap(e, Failed(s, e)) /\ Failed(s, e).debounce = e.debounce
  BY DEF Failed, SessionEntry, SameMap
<1>2. ASSUME NEW f \in Stops
      PROVE  AfterInit(e, f) \in SessionEntry /\ SameMap(e, AfterInit(e, f))
  BY DEF AfterInit, FirstStackTrace, SessionInitialized, Schedule, SessionEntry, SameMap
<1>3. Refresh(e) \in SessionEntry /\ SameMap(e, Refresh(e)) /\ Refresh(e).debounce = e.debounce
  BY DEF Refresh, SessionEntry, SameMap
<1>4. Settle(e) \in SessionEntry /\ SameMap(e, Settle(e)) /\ Settle(e).debounce = e.debounce
  BY DEF Settle, SessionEntry, SameMap
<1>5. RefreshCall(e) \subseteq Call /\ \A c \in RefreshCall(e) : c.kind = "refresh"
  BY DEF RefreshCall, Call
<1>6. ASSUME NEW r \in [ok: BOOLEAN, generation: Stops]
      PROVE  Follows(s, e, r) \subseteq Call
  BY DEF Follows, Call
<1>. QED BY <1>1, <1>2, <1>3, <1>4, <1>5, <1>6

\* The entry a snapshot's answer leaves, and what it makes of the map: a newer
\* snapshot is applied, and then the map is asked for again or removed.
LEMMA SnapshotStep ==
  ASSUME Typed, OneTab, NEW s \in Sessions, SnapshotAnswered(s)
  PROVE  LET r == Head(answers[s]).result
             e == entry[s]
             d == entry'[s]
         IN  /\ entry' = [entry EXCEPT ![s] = d] /\ d \in SessionEntry /\ d.debounce = e.debounce
             /\ asked' = [asked EXCEPT ![s] = asked'[s]] /\ asked'[s] \subseteq Call
             /\ asked[s] \subseteq asked'[s]
             /\ ~Tracked(s) => asked'[s] = asked[s]
             /\ d.heapRequested = e.heapRequested
             /\ \/ d.shown = e.shown /\ d.heapMap = e.heapMap
                \/ /\ r # None /\ d.shown = r.generation
                   /\ \/ ~e.heapRequested \/ d.heapMap = None
                      \/ \E c \in asked'[s] : c.kind = "follow"
<1> DEFINE r == Head(answers[s]).result
           e == entry[s]
           fresh   == r # None /\ ~IsStale(e.shown, r.generation)
           applied == fresh /\ r.ok
           e1 == IF r = None THEN Failed(s, e)
                 ELSE IF fresh THEN ApplyEnvelope(s, e, r) ELSE e
           e2 == IF applied /\ ~Tracked(s) /\ e.heapRequested
                 THEN [e1 EXCEPT !.heapMap = None] ELSE e1
           d  == IF Again(s, e2) THEN Refresh(Settle(e2)) ELSE Settle(e2)
           n  == asked[s] \cup (IF applied THEN Follows(s, e1, r) ELSE {})
                          \cup (IF Again(s, e2) THEN RefreshCall(Settle(e2)) ELSE {})
<1>1. /\ entry' = [entry EXCEPT ![s] = d] /\ asked' = [asked EXCEPT ![s] = n]
      /\ answers[s] # << >>
  BY DEF SnapshotAnswered, Deliver
<1>2. /\ entry[s] \in SessionEntry /\ asked[s] \subseteq Call
      /\ answers[s] \in Seq(Answer)
      /\ entry'[s] = d /\ asked'[s] = n
  BY <1>1 DEF Typed, TypeOK
<1>3. r \in [ok: BOOLEAN, generation: Stops] \cup {None}
  <2>1. Head(answers[s]) \in Answer
    BY <1>1, <1>2, HeadTailProperties
  <2>. QED BY <2>1 DEF Answer, Result
<1> HIDE DEF r
<1>4. /\ e1 \in SessionEntry /\ e1.debounce = e.debounce
      /\ e1.heapRequested = e.heapRequested /\ e1.heapMap = e.heapMap
      /\ e1.shown = IF applied THEN r.generation ELSE e.shown
  <2>1. Failed(s, e) \in SessionEntry /\ SameMap(e, Failed(s, e)) /\ Failed(s, e).debounce = e.debounce
    BY <1>2, Methods
  <2>2. CASE applied
    <3>1. e1 = [e EXCEPT !.shown = r.generation, !.status = "ok"] /\ r.generation \in Stops
      BY <1>3, <2>2 DEF ApplyEnvelope
    <3>. QED BY <1>2, <2>2, <3>1 DEF SessionEntry
  <2>3. CASE ~applied
    <3>1. e1 = Failed(s, e) \/ e1 = e
      BY <2>3 DEF ApplyEnvelope
    <3>. QED BY <1>2, <2>1, <2>3, <3>1 DEF SameMap
  <2>. QED BY <2>2, <2>3
<1> HIDE DEF e1
<1>5. /\ e2 \in SessionEntry /\ e2.debounce = e.debounce
      /\ e2.heapRequested = e.heapRequested /\ e2.shown = e1.shown
      /\ e2.heapMap = IF applied /\ ~Tracked(s) /\ e.heapRequested THEN None ELSE e.heapMap
  BY <1>4 DEF SessionEntry
<1> HIDE DEF e2
<1>6. d \in SessionEntry /\ SameMap(e2, d) /\ d.debounce = e.debounce
  <2>1. Settle(e2) \in SessionEntry /\ SameMap(e2, Settle(e2)) /\ Settle(e2).debounce = e2.debounce
    BY <1>5, Methods
  <2>2. /\ Refresh(Settle(e2)) \in SessionEntry /\ SameMap(Settle(e2), Refresh(Settle(e2)))
        /\ Refresh(Settle(e2)).debounce = Settle(e2).debounce
    BY <2>1, Methods
  <2>. QED BY <1>5, <2>1, <2>2 DEF SameMap
<1>7. n \subseteq Call
  <2>1. Settle(e2) \in SessionEntry
    BY <1>5, Methods
  <2>2. RefreshCall(Settle(e2)) \subseteq Call
    BY <2>1, Methods
  <2>3. r \in [ok: BOOLEAN, generation: Stops] => Follows(s, e1, r) \subseteq Call
    BY <1>4, Methods
  <2>. QED BY <1>2, <1>3, <2>2, <2>3
<1>8. ~Tracked(s) => n = asked[s]
  BY DEF Again, Follows
<1>9. applied /\ Tracked(s) /\ e.heapRequested => \E c \in n : c.kind = "follow"
  <2>. SUFFICES ASSUME applied, Tracked(s), e.heapRequested
                PROVE  \E c \in n : c.kind = "follow"
    OBVIOUS
  <2>1. Follows(s, e1, r) = {[kind |-> "follow", of |-> r.generation]}
    BY <1>4 DEF Follows
  <2>2. [kind |-> "follow", of |-> r.generation] \in n
    BY <2>1
  <2>. QED BY <2>2
<1> HIDE DEF d, n
<1>10. applied => r # None
  OBVIOUS
<1> HIDE DEF applied
<1>11. \/ d.shown = e.shown /\ d.heapMap = e.heapMap
       \/ /\ r # None /\ d.shown = r.generation
          /\ \/ ~e.heapRequested \/ d.heapMap = None
             \/ \E c \in n : c.kind = "follow"
  BY <1>4, <1>5, <1>6, <1>9, <1>10 DEF SameMap, SessionEntry
<1>12. asked[s] \subseteq n
  BY DEF n
<1>13. d.heapRequested = e.heapRequested
  BY <1>5, <1>6 DEF SameMap
<1>. QED BY <1>1, <1>2, <1>6, <1>7, <1>8, <1>11, <1>12, <1>13 DEF r

-----------------------------------------------------------------------------
\* A tab that opens is the last one, and its session has no other.
LEMMA StartedTabs ==
  ASSUME Typed, OneTab, NEW s \in Sessions, SessionStarted(s)
  PROVE  /\ tabs' \in Seq(Sessions) /\ activeId' \in Sessions \cup {None} /\ visible' \in BOOLEAN
         /\ OneTab' /\ ToSet(tabs') = ToSet(tabs) \cup {s}
<1>1. tabs \in Seq(Sessions) /\ activeId \in Sessions \cup {None} /\ visible \in BOOLEAN
  BY DEF Typed, TypeOK
<1>2. CASE Tracked(s)
  <2>1. tabs' = tabs /\ activeId' = activeId /\ visible' = visible
    BY <1>2 DEF SessionStarted, tabVars
  <2>. QED BY <1>1, <1>2, <2>1 DEF OneTab, Tracked
<1>3. CASE ~Tracked(s)
  <2>1. tabs' = Append(tabs, s) /\ activeId' = s /\ visible' = TRUE
    BY <1>3 DEF SessionStarted
  <2>2. \A i \in DOMAIN tabs : tabs[i] # s
    BY <1>3 DEF Tracked, ToSet
  <2>3. DOMAIN tabs = 1..Len(tabs) /\ Len(tabs) \in Nat
    BY <1>1, LenProperties
  <2>4. /\ tabs' \in Seq(Sessions) /\ DOMAIN tabs' = 1..(Len(tabs) + 1)
        /\ \A i \in DOMAIN tabs : tabs'[i] = tabs[i]
        /\ tabs'[Len(tabs) + 1] = s
    BY <1>1, <2>1, <2>3
  <2>5. OneTab'
    BY <2>2, <2>3, <2>4 DEF OneTab
  <2>6. ToSet(tabs') = ToSet(tabs) \cup {s}
    BY <2>3, <2>4 DEF ToSet
  <2>. QED BY <2>1, <2>4, <2>5, <2>6
<1>. QED BY <1>2, <1>3

\* The first event of a session is an event; that of a stack trace has a frame.
LEMMA ReceivedEvent ==
  ASSUME Typed, NEW s \in Sessions, NEW kind, Receive(s, kind)
  PROVE  /\ events' \in [Sessions -> Seq(Event)] /\ events[s] # << >>
         /\ events' = [events EXCEPT ![s] = Tail(@)]
         /\ Head(events[s]).kind = kind
         /\ kind = "trace" => Head(events[s]).frame \in Stops
<1>1. events \in [Sessions -> Seq(Event)] /\ events[s] # << >>
  BY DEF Typed, TypeOK, Receive
<1>2. Head(events[s]) \in Event /\ [events EXCEPT ![s] = Tail(@)] \in [Sessions -> Seq(Event)]
  BY <1>1, QueueTyped
<1>3. Head(events[s]).kind = kind /\ events' = [events EXCEPT ![s] = Tail(@)]
  BY DEF Receive
<1>4. kind = "trace" => Head(events[s]).frame \in Stops
  BY <1>2, <1>3 DEF Event
<1>. QED BY <1>1, <1>2, <1>3, <1>4

\* The first answer of a session is an answer.
LEMMA DeliveredAnswer ==
  ASSUME Typed, NEW s \in Sessions, NEW kind, Deliver(s, kind)
  PROVE  /\ answers' \in [Sessions -> Seq(Answer)] /\ answers[s] # << >>
         /\ answers' = [answers EXCEPT ![s] = Tail(@)]
         /\ Head(answers[s]).call \in Call /\ Head(answers[s]).call.kind = kind
         /\ Head(answers[s]).result \in Result
         /\ kind = "init" => Head(answers[s]).call.of \in Stops
<1>1. answers \in [Sessions -> Seq(Answer)] /\ answers[s] # << >>
  BY DEF Typed, TypeOK, Deliver
<1>2. /\ Head(answers[s]) \in Answer
      /\ [answers EXCEPT ![s] = Tail(@)] \in [Sessions -> Seq(Answer)]
  BY <1>1, QueueTyped
<1>3. Head(answers[s]).call.kind = kind /\ answers' = [answers EXCEPT ![s] = Tail(@)]
  BY DEF Deliver
<1>4. Head(answers[s]).call \in Call /\ Head(answers[s]).result \in Result
  BY <1>2 DEF Answer
<1>5. kind = "init" => Head(answers[s]).call.of \in Stops
  BY <1>3, <1>4 DEF Call
<1>. QED BY <1>1, <1>2, <1>3, <1>4, <1>5

-----------------------------------------------------------------------------
\* No step leaves the types or the bound of the stops, or opens a second tab.
LEMMA TypedKept ==
  ASSUME Typed, OneTab, [Next]_vars
  PROVE  Typed' /\ OneTab'
<1> USE DEF targetVars, tabVars
<1>0. /\ target \in [Sessions -> {"unborn", "running", "stopped", "gone"}]
      /\ stop \in [Sessions -> Nat] /\ traced \in [Sessions -> Nat]
      /\ events \in [Sessions -> Seq(Event)]
      /\ asked \in [Sessions -> SUBSET Call]
      /\ answers \in [Sessions -> Seq(Answer)]
      /\ tabs \in Seq(Sessions)
      /\ entry \in [Sessions -> SessionEntry]
      /\ initialized \in [Sessions -> BOOLEAN]
      /\ python \in [Sessions -> {"unknown", "polling", "present", "missing"}]
      /\ revealed \subseteq Sessions
      /\ activeId \in Sessions \cup {None}
      /\ visible \in BOOLEAN
      /\ \A t \in Sessions : target[t] = "stopped" => stop[t] \in 1..MaxStops[t]
  BY DEF Typed, TypeOK, StopsCounted
<1>1. ASSUME NEW s \in Sessions, Launch(s) \/ Resume(s) \/ Terminate(s)
      PROVE  Typed' /\ OneTab'
  <2>1. PICK e \in Event : Emit(s, e)
    <3>1. \A k \in {"started", "running", "terminated"} : [kind |-> k] \in Event
      BY DEF Event
    <3>. QED BY <1>1, <3>1 DEF Launch, Resume, Terminate
  <2>2. events' \in [Sessions -> Seq(Event)]
    BY <1>0, <2>1, QueueTyped DEF Emit
  <2>3. /\ target' \in [Sessions -> {"unborn", "running", "stopped", "gone"}]
        /\ \A t \in Sessions : target'[t] = "stopped" => target[t] = "stopped"
    BY <1>0, <1>1 DEF Launch, Resume, Terminate
  <2>4. UNCHANGED <<stop, traced, asked, answers, tabs, activeId, visible, entry, initialized, python, revealed>>
    BY <1>1 DEF Launch, Resume, Terminate
  <2>. QED BY <1>0, <2>2, <2>3, <2>4 DEF Typed, TypeOK, StopsCounted, OneTab
<1>2. ASSUME NEW s \in Sessions, StopTarget(s)
      PROVE  Typed' /\ OneTab'
  <2>1. /\ stop' = [stop EXCEPT ![s] = @ + 1] /\ stop[s] < MaxStops[s]
        /\ target' = [target EXCEPT ![s] = "stopped"]
        /\ UNCHANGED <<asked, answers, tabs, activeId, visible, entry, initialized, python, revealed>>
    BY <1>2 DEF StopTarget
  <2>2. stop[s] + 1 \in 1..MaxStops[s] /\ stop[s] + 1 \in Stops /\ stop'[s] = stop[s] + 1
    <3>1. stop[s] \in Nat /\ MaxStops[s] \in Nat /\ stop'[s] = stop[s] + 1
      BY <1>0, <2>1, PanelAssumption DEF PanelAssumption
    <3>2. stop[s] + 1 \in 1..MaxStops[s]
      BY <2>1, <3>1
    <3>. QED BY <3>1, <3>2 DEF Stops
  <2>3. events' \in [Sessions -> Seq(Event)] /\ traced' \in [Sessions -> Nat]
    <3>1. CASE UNCHANGED <<traced, events>>
      BY <1>0, <3>1
    <3>2. CASE traced' = [traced EXCEPT ![s] = stop'[s]] /\ Emit(s, [kind |-> "trace", frame |-> stop'[s]])
      <4>1. [kind |-> "trace", frame |-> stop'[s]] \in Event
        BY <2>2 DEF Event
      <4>2. events' \in [Sessions -> Seq(Event)]
        BY <1>0, <3>2, <4>1, QueueTyped DEF Emit
      <4>3. stop'[s] \in Nat /\ traced' = [traced EXCEPT ![s] = stop'[s]]
        BY <1>0, <2>2, <3>2
      <4>. QED BY <1>0, <4>2, <4>3
    <3>. QED BY <1>2, <3>1, <3>2 DEF StopTarget
  <2>4. /\ stop' \in [Sessions -> Nat]
        /\ target' \in [Sessions -> {"unborn", "running", "stopped", "gone"}]
        /\ \A t \in Sessions : target'[t] = "stopped" => stop'[t] \in 1..MaxStops[t]
    BY <1>0, <2>1, <2>2
  <2>. QED BY <1>0, <2>1, <2>3, <2>4 DEF Typed, TypeOK, StopsCounted, OneTab
<1>3. ASSUME NEW s \in Sessions, NEW c \in Call, AnswerCall(s, c)
      PROVE  Typed' /\ OneTab'
  <2>1. PICK r \in Results(s, c) : answers' = [answers EXCEPT ![s] = Append(@, [call |-> c, result |-> r])]
    BY <1>3 DEF AnswerCall
  <2>2. [call |-> c, result |-> r] \in Answer
    <3>1. target[s] = "stopped" => stop[s] \in Stops
      BY <1>0 DEF Stops
    <3>2. r \in Result
      BY <2>1, <3>1 DEF Results, Result
    <3>. QED BY <3>2 DEF Answer
  <2>3. answers' \in [Sessions -> Seq(Answer)]
    BY <1>0, <2>1, <2>2, QueueTyped
  <2>4. asked' \in [Sessions -> SUBSET Call]
    BY <1>0, <1>3 DEF AnswerCall
  <2>. QED BY <1>0, <1>3, <2>3, <2>4 DEF AnswerCall, Typed, TypeOK, StopsCounted, OneTab
<1>4. ASSUME NEW s \in Sessions, Started(s)
      PROVE  Typed' /\ OneTab'
  <2>1. /\ tabs' \in Seq(Sessions) /\ activeId' \in Sessions \cup {None} /\ visible' \in BOOLEAN
        /\ OneTab'
    BY <1>4, StartedTabs DEF Started
  <2>2. events' \in [Sessions -> Seq(Event)]
    BY <1>4, ReceivedEvent DEF Started
  <2>3. /\ entry' \in [Sessions -> SessionEntry]
        /\ python' \in [Sessions -> {"unknown", "polling", "present", "missing"}]
    <3>1. [entry[s] EXCEPT !.status = "error"] \in SessionEntry
      BY <1>0, Fields
    <3>. QED BY <1>0, <1>4, <3>1 DEF Started
  <2>. QED BY <1>0, <1>4, <2>1, <2>2, <2>3 DEF Started, Typed, TypeOK, StopsCounted
<1>5. ASSUME NEW s \in Sessions, PythonChecked(s)
      PROVE  Typed' /\ OneTab'
  <2>1. Failed(s, entry[s]) \in SessionEntry
    BY <1>0, Methods
  <2>2. /\ entry' \in [Sessions -> SessionEntry]
        /\ python' \in [Sessions -> {"unknown", "polling", "present", "missing"}]
    BY <1>0, <1>5, <2>1 DEF PythonChecked
  <2>. QED BY <1>0, <1>5, <2>2 DEF PythonChecked, Typed, TypeOK, StopsCounted, OneTab
<1>6. ASSUME NEW s \in Sessions, Running(s)
      PROVE  Typed' /\ OneTab'
  <2>1. /\ entry[s].status \in {"waiting", "ok", "running", "error"}
        /\ [entry[s] EXCEPT !.status = "running"] \in SessionEntry
        /\ [entry[s] EXCEPT !.status = entry[s].status] \in SessionEntry
    <3>1. entry[s].status \in {"waiting", "ok", "running", "error"}
      BY <1>0 DEF SessionEntry
    <3>. QED BY <1>0, <3>1, Fields
  <2>2. entry' \in [Sessions -> SessionEntry]
    BY <1>0, <1>6, <2>1 DEF Running
  <2>3. events' \in [Sessions -> Seq(Event)]
    BY <1>6, ReceivedEvent DEF Running
  <2>. QED BY <1>0, <1>6, <2>2, <2>3 DEF Running, Typed, TypeOK, StopsCounted, OneTab
<1>7. ASSUME NEW s \in Sessions, Trace(s)
      PROVE  Typed' /\ OneTab'
  <2>1. events' \in [Sessions -> Seq(Event)] /\ Head(events[s]).frame \in Stops
    BY <1>7, ReceivedEvent DEF Trace
  <2>2. /\ tabs' \in Seq(Sessions) /\ activeId' \in Sessions \cup {None} /\ visible' \in BOOLEAN
        /\ OneTab'
    <3>1. CASE s \notin Hosted
      BY <1>0, <1>7, <3>1 DEF Trace, OneTab
    <3>2. CASE s \in Hosted
      BY <1>7, <3>2, StartedTabs DEF Trace
    <3>. QED BY <3>1, <3>2
  <2>3. entry' \in [Sessions -> SessionEntry] /\ asked' \in [Sessions -> SUBSET Call]
    <3>1. AfterInit(entry[s], Head(events[s]).frame) \in SessionEntry
      BY <1>0, <2>1, Methods
    <3>2. [kind |-> "init", of |-> Head(events[s]).frame] \in Call
      BY <2>1 DEF Call
    <3>3. CASE s \in Hosted /\ initialized[s]
      BY <1>0, <1>7, <3>1, <3>3 DEF Trace
    <3>4. CASE s \in Hosted /\ ~initialized[s]
      <4>1. entry' = entry /\ asked' = [asked EXCEPT ![s] = @ \cup {[kind |-> "init", of |-> Head(events[s]).frame]}]
        BY <1>7, <3>4 DEF Trace
      <4>. QED BY <1>0, <3>2, <4>1
    <3>5. CASE s \notin Hosted
      BY <1>0, <1>7, <3>5 DEF Trace
    <3>. QED BY <3>3, <3>4, <3>5
  <2>. QED BY <1>0, <1>7, <2>1, <2>2, <2>3 DEF Trace, Typed, TypeOK, StopsCounted
<1>8. ASSUME NEW s \in Sessions, Terminated(s)
      PROVE  Typed' /\ OneTab'
  <2>1. events' \in [Sessions -> Seq(Event)]
    BY <1>8, ReceivedEvent DEF Terminated
  <2>2. tabs' \in Seq(Sessions) /\ OneTab'
    <3>1. /\ Closed(s) \in Seq(Sessions)
          /\ \A i, j \in DOMAIN Closed(s) : Closed(s)[i] = Closed(s)[j] => i = j
      BY <1>0, ClosedTabs
    <3>. QED BY <1>8, <3>1 DEF Terminated, OneTab
  <2>3. activeId' \in Sessions \cup {None} /\ visible' \in BOOLEAN
    <3>1. tabs' # << >> => Head(tabs') \in Sessions
      BY <2>2, HeadTailProperties
    <3>. QED BY <1>0, <1>8, <3>1 DEF Terminated, NextActive
  <2>4. [entry[s] EXCEPT !.debounce = FALSE] \in SessionEntry
    BY <1>0, Fields
  <2>5. entry' \in [Sessions -> SessionEntry] /\ revealed' \subseteq Sessions
    BY <1>0, <1>8, <2>4 DEF Terminated
  <2>. QED BY <1>0, <1>8, <2>1, <2>2, <2>3, <2>5 DEF Terminated, Typed, TypeOK, StopsCounted
<1>9. ASSUME NEW s \in Sessions, DebounceFires(s) \/ RefreshNow(s)
      PROVE  Typed' /\ OneTab'
  <2>1. PICK e \in SessionEntry : /\ entry' = [entry EXCEPT ![s] = Refresh(e)]
                                   /\ asked' = [asked EXCEPT ![s] = @ \cup RefreshCall(e)]
    <3>1. CASE DebounceFires(s)
      <4>1. [entry[s] EXCEPT !.debounce = FALSE] \in SessionEntry
        BY <1>0, Fields
      <4>. QED BY <3>1, <4>1 DEF DebounceFires
    <3>2. CASE RefreshNow(s)
      BY <1>0, <3>2 DEF RefreshNow
    <3>. QED BY <1>9, <3>1, <3>2
  <2>2. Refresh(e) \in SessionEntry /\ RefreshCall(e) \subseteq Call
    BY Methods
  <2>3. entry' \in [Sessions -> SessionEntry] /\ asked' \in [Sessions -> SUBSET Call]
    BY <1>0, <2>1, <2>2
  <2>4. UNCHANGED <<target, stop, traced, events, answers, tabs, activeId, visible, initialized, python, revealed>>
    BY <1>9 DEF DebounceFires, RefreshNow
  <2>. QED BY <1>0, <2>3, <2>4 DEF Typed, TypeOK, StopsCounted, OneTab
<1>10. ASSUME NEW s \in Sessions, SelectSession(s)
       PROVE  Typed' /\ OneTab'
  BY <1>0, <1>10 DEF SelectSession, Typed, TypeOK, StopsCounted, OneTab
<1>11. ASSUME NEW s \in Sessions, HeapDumpRequested(s)
       PROVE  Typed' /\ OneTab'
  <2>1. [entry[s] EXCEPT !.heapRequested = TRUE] \in SessionEntry /\ [kind |-> "request"] \in Call
    BY <1>0, Fields DEF Call
  <2>2. entry' \in [Sessions -> SessionEntry] /\ asked' \in [Sessions -> SUBSET Call]
    BY <1>0, <1>11, <2>1 DEF HeapDumpRequested
  <2>. QED BY <1>0, <1>11, <2>2 DEF HeapDumpRequested, Typed, TypeOK, StopsCounted, OneTab
<1>12. ASSUME NEW s \in Sessions, SnapshotAnswered(s)
       PROVE  Typed' /\ OneTab'
  <2>1. /\ entry' = [entry EXCEPT ![s] = entry'[s]] /\ entry'[s] \in SessionEntry
        /\ asked' = [asked EXCEPT ![s] = asked'[s]] /\ asked'[s] \subseteq Call
    BY <1>12, SnapshotStep
  <2>2. entry' \in [Sessions -> SessionEntry] /\ asked' \in [Sessions -> SUBSET Call]
    BY <1>0, <2>1
  <2>3. answers' \in [Sessions -> Seq(Answer)]
    BY <1>12, DeliveredAnswer DEF SnapshotAnswered
  <2>4. revealed' \subseteq Sessions
    BY <1>0, <1>12 DEF SnapshotAnswered
  <2>5. UNCHANGED <<target, stop, traced, events, tabs, activeId, visible, initialized, python>>
    BY <1>12 DEF SnapshotAnswered
  <2>. QED BY <1>0, <2>2, <2>3, <2>4, <2>5 DEF Typed, TypeOK, StopsCounted, OneTab
<1>13. ASSUME NEW s \in Sessions, RequestedMapAnswered(s) \/ FollowingMapAnswered(s)
       PROVE  Typed' /\ OneTab'
  <2>1. answers' \in [Sessions -> Seq(Answer)] /\ Head(answers[s]).result \in Result
    BY <1>13, DeliveredAnswer DEF RequestedMapAnswered, FollowingMapAnswered
  <2>2. Good(Head(answers[s]).result) => Head(answers[s]).result.generation \in Stops
    BY <2>1 DEF Good, Result
  <2>3. entry' \in [Sessions -> SessionEntry]
    <3>1. \A m \in Stops \cup {None} : [entry[s] EXCEPT !.heapMap = m] \in SessionEntry
      BY <1>0, Fields
    <3>2. [entry[s] EXCEPT !.heapRequested = FALSE] \in SessionEntry
      BY <1>0, Fields
    <3>3. CASE RequestedMapAnswered(s)
      BY <1>0, <2>2, <3>1, <3>2, <3>3 DEF RequestedMapAnswered
    <3>4. CASE FollowingMapAnswered(s)
      BY <1>0, <2>2, <3>1, <3>4 DEF FollowingMapAnswered
    <3>. QED BY <1>13, <3>3, <3>4
  <2>4. UNCHANGED <<target, stop, traced, events, asked, tabs, activeId, visible, initialized, python, revealed>>
    BY <1>13 DEF RequestedMapAnswered, FollowingMapAnswered
  <2>. QED BY <1>0, <2>1, <2>3, <2>4 DEF Typed, TypeOK, StopsCounted, OneTab
<1>14. ASSUME NEW s \in Sessions, InitAnswered(s)
       PROVE  Typed' /\ OneTab'
  <2>1. answers' \in [Sessions -> Seq(Answer)] /\ Head(answers[s]).call.of \in Stops
    BY <1>14, DeliveredAnswer DEF InitAnswered
  <2>2. /\ AfterInit(entry[s], Head(answers[s]).call.of) \in SessionEntry
        /\ Failed(s, entry[s]) \in SessionEntry
    BY <1>0, <2>1, Methods
  <2>3. entry' \in [Sessions -> SessionEntry]
    BY <1>0, <1>14, <2>2 DEF InitAnswered
  <2>4. initialized' \in [Sessions -> BOOLEAN]
    <3>1. (initialized[s] \/ Good(Head(answers[s]).result)) \in BOOLEAN
      OBVIOUS
    <3>. QED BY <1>0, <1>14, <3>1 DEF InitAnswered
  <2>. QED BY <1>0, <1>14, <2>1, <2>3, <2>4 DEF InitAnswered, Typed, TypeOK, StopsCounted, OneTab
<1>15. CASE UNCHANGED vars
  BY <1>0, <1>15 DEF vars, Typed, TypeOK, StopsCounted, OneTab
<1>. QED BY <1>1, <1>2, <1>3, <1>4, <1>5, <1>6, <1>7, <1>8, <1>9, <1>10, <1>11, <1>12, <1>13, <1>14,
           <1>15 DEF Next, Host, Reader

-----------------------------------------------------------------------------
\* What a step does to the answers, the snapshot and the map of a session: it
\* leaves them; GDB answers a call; the reader asks for the map; or an answer
\* is delivered, and the entry changes by that answer alone.
Leaves(s) ==
  /\ answers'[s] = answers[s] /\ asked[s] \subseteq asked'[s] /\ stop[s] <= stop'[s]
  /\ SameMap(entry[s], entry'[s])

Answers(s) ==
  \E c \in asked[s], r \in Result :
    /\ r # None => r.generation = stop[s]
    /\ answers'[s] = Append(answers[s], [call |-> c, result |-> r])
    /\ asked'[s] = asked[s] \ {c} /\ stop'[s] = stop[s] /\ entry'[s] = entry[s]

Asks(s) ==
  /\ answers'[s] = answers[s] /\ stop'[s] = stop[s]
  /\ \E c \in asked'[s] : c.kind = "request"
  /\ entry'[s].shown = entry[s].shown

Delivers(s) ==
  /\ answers[s] # << >> /\ answers'[s] = Tail(answers[s]) /\ stop'[s] = stop[s]
  /\ asked[s] \subseteq asked'[s]
  /\ LET a == Head(answers[s])
         e == entry[s]
         d == entry'[s]
     IN  \/ SameMap(e, d) /\ a.call.kind \in {"refresh", "init"}
         \/ /\ a.result # None /\ a.call.kind = "refresh"
            /\ d.shown = a.result.generation /\ d.heapRequested = e.heapRequested
            /\ ~e.heapRequested \/ d.heapMap = None \/ \E c \in asked'[s] : c.kind = "follow"
         \/ /\ a.result # None
            /\ d.shown = e.shown /\ d.heapMap = a.result.generation
         \/ /\ d.shown = e.shown
            /\ ~d.heapRequested \/ d.heapMap = None

\* To a session, every step is one of four: it leaves answers, calls and entry
\* alone, answers a call, makes one, or takes the first answer.
LEMMA MapSteps ==
  ASSUME Typed, OneTab, [Next]_vars, NEW t \in Sessions
  PROVE  Leaves(t) \/ Answers(t) \/ Asks(t) \/ Delivers(t)
<1> USE DEF targetVars, tabVars
<1>0. /\ stop \in [Sessions -> Nat]
      /\ asked \in [Sessions -> SUBSET Call]
      /\ answers \in [Sessions -> Seq(Answer)]
      /\ entry \in [Sessions -> SessionEntry]
      /\ \A s \in Sessions : target[s] = "stopped" => stop[s] \in Stops
  BY DEF Typed, TypeOK, StopsCounted, Stops
<1>1. ASSUME NEW s \in Sessions, Launch(s) \/ StopTarget(s) \/ Resume(s) \/ Terminate(s) \/ SelectSession(s)
      PROVE  Leaves(t)
  <2>1. UNCHANGED <<answers, asked, entry>>
    BY <1>1 DEF Launch, StopTarget, Resume, Terminate, SelectSession
  <2>2. stop' = stop \/ stop' = [stop EXCEPT ![s] = @ + 1]
    BY <1>1 DEF Launch, StopTarget, Resume, Terminate, SelectSession
  <2>3. stop[t] <= stop'[t]
    <3>1. stop[t] \in Nat
      BY <1>0
    <3>2. stop'[t] = stop[t] \/ stop'[t] = stop[t] + 1
      BY <1>0, <2>2
    <3>. QED BY <3>1, <3>2
  <2>. QED BY <2>1, <2>3 DEF Leaves, SameMap
<1>2. ASSUME NEW s \in Sessions, NEW c \in Call, AnswerCall(s, c)
      PROVE  Leaves(t) \/ Answers(t)
  <2>1. PICK r \in Results(s, c) : answers' = [answers EXCEPT ![s] = Append(@, [call |-> c, result |-> r])]
    BY <1>2 DEF AnswerCall
  <2>2. r \in Result /\ (r # None => r.generation = stop[s])
    BY <1>0, <2>1 DEF Results, Result
  <2>3. /\ c \in asked[s] /\ asked' = [asked EXCEPT ![s] = @ \ {c}]
        /\ stop' = stop /\ entry' = entry
    BY <1>2 DEF AnswerCall
  <2>4. CASE s = t
    <3>1. /\ answers'[s] = Append(answers[s], [call |-> c, result |-> r])
          /\ asked'[s] = asked[s] \ {c}
      BY <1>0, <2>1, <2>3
    <3>. QED BY <2>2, <2>3, <2>4, <3>1 DEF Answers
  <2>5. CASE s # t
    BY <1>0, <2>1, <2>3, <2>5 DEF Leaves, SameMap
  <2>. QED BY <2>4, <2>5
<1>3. ASSUME NEW s \in Sessions, NEW e \in SessionEntry,
             SameMap(entry[s], e), entry' = [entry EXCEPT ![s] = e],
             \A u \in Sessions : asked[u] \subseteq asked'[u],
             UNCHANGED <<stop, answers>>
      PROVE  Leaves(t)
  BY <1>0, <1>3 DEF Leaves, SameMap
<1>4. ASSUME NEW s \in Sessions, Started(s) \/ PythonChecked(s) \/ Running(s) \/ Trace(s) \/ Terminated(s)
      PROVE  Leaves(t)
  <2>1. UNCHANGED <<stop, answers>> /\ \A u \in Sessions : asked[u] \subseteq asked'[u]
    BY <1>0, <1>4 DEF Started, PythonChecked, Running, Trace, Terminated
  <2>2. CASE entry' = entry
    BY <1>0, <2>1, <2>2 DEF Leaves, SameMap
  <2>3. CASE \E x \in {"running", "error"} : entry' = [entry EXCEPT ![s].status = x]
    <3>1. PICK x \in {"running", "error"} : entry' = [entry EXCEPT ![s].status = x]
      BY <2>3
    <3>2. [entry[s] EXCEPT !.status = x] \in SessionEntry /\ SameMap(entry[s], [entry[s] EXCEPT !.status = x])
      BY <1>0 DEF SessionEntry, SameMap
    <3>. QED BY <1>3, <2>1, <3>1, <3>2
  <2>4. CASE Terminated(s)
    <3>1. [entry[s] EXCEPT !.debounce = FALSE] \in SessionEntry
      BY <1>0, Fields
    <3>2. SameMap(entry[s], [entry[s] EXCEPT !.debounce = FALSE])
      BY <1>0 DEF SessionEntry, SameMap
    <3>. QED BY <1>3, <2>1, <2>4, <3>1, <3>2 DEF Terminated
  <2>5. CASE Started(s)
    BY <2>2, <2>3, <2>5 DEF Started
  <2>6. CASE Running(s)
    <3>1. CASE Tracked(s)
      BY <2>3, <2>6, <3>1 DEF Running
    <3>2. CASE ~Tracked(s)
      <4>1. entry' = entry
        BY <1>0, <2>6, <3>2 DEF Running, SessionEntry
      <4>. QED BY <2>2, <4>1
    <3>. QED BY <3>1, <3>2
  <2>7. CASE PythonChecked(s)
    <3>1. Failed(s, entry[s]) \in SessionEntry /\ SameMap(entry[s], Failed(s, entry[s]))
      BY <1>0, Methods
    <3>2. SameMap(entry[s], entry[s]) /\ entry[s] \in SessionEntry
      BY <1>0 DEF SameMap
    <3>3. entry' = [entry EXCEPT ![s] = Failed(s, entry[s])] \/ entry' = [entry EXCEPT ![s] = entry[s]]
      BY <2>7 DEF PythonChecked
    <3>. QED BY <1>3, <2>1, <3>1, <3>2, <3>3
  <2>8. CASE Trace(s)
    <3>1. Head(events[s]).frame \in Stops
      BY <2>8, ReceivedEvent DEF Trace
    <3>2. /\ AfterInit(entry[s], Head(events[s]).frame) \in SessionEntry
          /\ SameMap(entry[s], AfterInit(entry[s], Head(events[s]).frame))
      BY <1>0, <3>1, Methods
    <3>3. entry' = entry \/ entry' = [entry EXCEPT ![s] = AfterInit(entry[s], Head(events[s]).frame)]
      BY <2>8 DEF Trace
    <3>. QED BY <1>3, <2>1, <2>2, <3>2, <3>3
  <2>. QED BY <1>4, <2>4, <2>5, <2>6, <2>7, <2>8
<1>5. ASSUME NEW s \in Sessions, DebounceFires(s)
      PROVE  Leaves(t)
  <2> DEFINE e == [entry[s] EXCEPT !.debounce = FALSE]
  <2>1. e \in SessionEntry
    BY <1>0, Fields
  <2>2. SameMap(entry[s], e)
    BY <1>0 DEF SessionEntry, SameMap
  <2>3. entry' = [entry EXCEPT ![s] = Refresh(e)] /\ UNCHANGED <<stop, answers>>
    BY <1>5 DEF DebounceFires
  <2>4. \A u \in Sessions : asked[u] \subseteq asked'[u]
    BY <1>0, <1>5 DEF DebounceFires
  <2> HIDE DEF e
  <2>5. Refresh(e) \in SessionEntry /\ SameMap(entry[s], Refresh(e))
    BY <2>1, <2>2, Methods DEF SameMap
  <2>. QED BY <1>3, <2>3, <2>4, <2>5
<1>6. ASSUME NEW s \in Sessions, RefreshNow(s)
      PROVE  Leaves(t)
  <2>1. entry' = [entry EXCEPT ![s] = Refresh(entry[s])] /\ UNCHANGED <<stop, answers>>
    BY <1>6 DEF RefreshNow
  <2>2. \A u \in Sessions : asked[u] \subseteq asked'[u]
    BY <1>0, <1>6 DEF RefreshNow
  <2>3. Refresh(entry[s]) \in SessionEntry /\ SameMap(entry[s], Refresh(entry[s]))
    BY <1>0, Methods
  <2>. QED BY <1>3, <2>1, <2>2, <2>3
<1>7. ASSUME NEW s \in Sessions, HeapDumpRequested(s)
      PROVE  Leaves(t) \/ Asks(t)
  <2>1. /\ asked' = [asked EXCEPT ![s] = @ \cup {[kind |-> "request"]}]
        /\ entry' = [entry EXCEPT ![s].heapRequested = TRUE]
        /\ UNCHANGED <<stop, answers>>
    BY <1>7 DEF HeapDumpRequested
  <2>2. CASE s = t
    <3>1. [kind |-> "request"] \in asked'[t] /\ entry'[t] = [entry[t] EXCEPT !.heapRequested = TRUE]
      BY <1>0, <2>1, <2>2
    <3>2. entry'[t].shown = entry[t].shown
      BY <1>0, <3>1 DEF SessionEntry
    <3>. QED BY <2>1, <3>1, <3>2 DEF Asks
  <2>3. CASE s # t
    <3>1. entry'[t] = entry[t] /\ asked'[t] = asked[t] /\ answers'[t] = answers[t] /\ stop[t] <= stop'[t]
      BY <1>0, <2>1, <2>3
    <3>. QED BY <3>1 DEF Leaves, SameMap
  <2>. QED BY <2>2, <2>3
<1>8. ASSUME NEW s \in Sessions, s # t,
             \/ SnapshotAnswered(s) \/ RequestedMapAnswered(s) \/ FollowingMapAnswered(s) \/ InitAnswered(s)
      PROVE  Leaves(t)
  <2>1. CASE SnapshotAnswered(s)
    <3>1. answers' = [answers EXCEPT ![s] = Tail(answers[s])] /\ stop' = stop
      BY <2>1 DEF SnapshotAnswered, Deliver
    <3>2. entry'[t] = entry[t]
      BY <1>0, <1>8, <2>1 DEF SnapshotAnswered
    <3>3. asked'[t] = asked[t]
      BY <1>0, <1>8, <2>1 DEF SnapshotAnswered
    <3>4. answers'[t] = answers[t] /\ stop'[t] = stop[t]
      BY <1>0, <1>8, <3>1
    <3>. QED BY <1>0, <3>2, <3>3, <3>4 DEF Leaves, SameMap
  <2>2. CASE RequestedMapAnswered(s) \/ FollowingMapAnswered(s) \/ InitAnswered(s)
    <3>1. answers' = [answers EXCEPT ![s] = Tail(answers[s])] /\ stop' = stop /\ asked' = asked
      BY <2>2 DEF RequestedMapAnswered, FollowingMapAnswered, InitAnswered, Deliver
    <3>2. \E x : entry' = [entry EXCEPT ![s] = x]
      <4>1. CASE RequestedMapAnswered(s)
        BY <4>1 DEF RequestedMapAnswered
      <4>2. CASE FollowingMapAnswered(s)
        BY <4>2 DEF FollowingMapAnswered
      <4>3. CASE InitAnswered(s)
        BY <4>3 DEF InitAnswered
      <4>. QED BY <2>2, <4>1, <4>2, <4>3
    <3>3. entry'[t] = entry[t] /\ answers'[t] = answers[t] /\ asked'[t] = asked[t] /\ stop'[t] = stop[t]
      BY <1>0, <1>8, <3>1, <3>2
    <3>. QED BY <1>0, <3>3 DEF Leaves, SameMap
  <2>. QED BY <1>8, <2>1, <2>2
<1>9. ASSUME SnapshotAnswered(t)
      PROVE  Delivers(t)
  <2>1. /\ answers[t] # << >> /\ answers'[t] = Tail(answers[t]) /\ stop' = stop
        /\ Head(answers[t]).call.kind = "refresh"
    BY <1>0, <1>9 DEF SnapshotAnswered, Deliver
  <2>2. LET r == Head(answers[t]).result
            e == entry[t]
            d == entry'[t]
        IN  /\ asked[t] \subseteq asked'[t]
            /\ d.heapRequested = e.heapRequested
            /\ \/ d.shown = e.shown /\ d.heapMap = e.heapMap
               \/ /\ r # None /\ d.shown = r.generation
                  /\ \/ ~e.heapRequested \/ d.heapMap = None
                     \/ \E c \in asked'[t] : c.kind = "follow"
    BY <1>9, SnapshotStep
  <2>. QED BY <2>1, <2>2 DEF Delivers, SameMap
<1>10. ASSUME RequestedMapAnswered(t) \/ FollowingMapAnswered(t)
       PROVE  Delivers(t)
  <2>1. /\ answers[t] # << >> /\ answers'[t] = Tail(answers[t]) /\ stop' = stop /\ asked' = asked
    BY <1>0, <1>10 DEF RequestedMapAnswered, FollowingMapAnswered, Deliver
  <2> DEFINE r == Head(answers[t]).result
  <2>2. CASE Good(r)
    <3>1. r # None /\ entry'[t] = [entry[t] EXCEPT !.heapMap = r.generation]
      BY <1>0, <1>10, <2>2 DEF RequestedMapAnswered, FollowingMapAnswered, Good
    <3>2. entry'[t].shown = entry[t].shown /\ entry'[t].heapMap = r.generation
      BY <1>0, <3>1 DEF SessionEntry
    <3>. QED BY <2>1, <3>1, <3>2 DEF Delivers
  <2>3. CASE ~Good(r)
    <3>1. \/ entry'[t] = [entry[t] EXCEPT !.heapRequested = FALSE]
          \/ entry'[t] = [entry[t] EXCEPT !.heapMap = None]
      BY <1>0, <1>10, <2>3 DEF RequestedMapAnswered, FollowingMapAnswered
    <3>2. entry'[t].shown = entry[t].shown /\ (~entry'[t].heapRequested \/ entry'[t].heapMap = None)
      BY <1>0, <3>1 DEF SessionEntry
    <3>. QED BY <2>1, <3>2 DEF Delivers
  <2>. QED BY <2>2, <2>3
<1>11. ASSUME InitAnswered(t)
       PROVE  Delivers(t)
  <2>1. /\ answers[t] # << >> /\ answers'[t] = Tail(answers[t]) /\ stop' = stop /\ asked' = asked
        /\ Head(answers[t]).call.kind = "init" /\ Head(answers[t]).call.of \in Stops
    <3>1. Head(answers[t]).call.of \in Stops
      BY <1>11, DeliveredAnswer DEF InitAnswered
    <3>. QED BY <1>0, <1>11, <3>1 DEF InitAnswered, Deliver
  <2>2. SameMap(entry[t], entry'[t])
    <3>1. /\ SameMap(entry[t], AfterInit(entry[t], Head(answers[t]).call.of))
          /\ SameMap(entry[t], Failed(t, entry[t]))
      BY <1>0, <2>1, Methods
    <3>2. \/ entry'[t] = AfterInit(entry[t], Head(answers[t]).call.of)
          \/ entry'[t] = Failed(t, entry[t])
          \/ entry'[t] = entry[t]
      BY <1>0, <1>11 DEF InitAnswered
    <3>3. SameMap(entry[t], entry[t])
      BY DEF SameMap
    <3>. QED BY <3>1, <3>2, <3>3
  <2>. QED BY <2>1, <2>2 DEF Delivers
<1>12. CASE UNCHANGED vars
  BY <1>0, <1>12 DEF vars, Leaves, SameMap
<1>. QED BY <1>1, <1>2, <1>4, <1>5, <1>6, <1>7, <1>8, <1>9, <1>10, <1>11, <1>12 DEF Next, Host, Reader

\* The order of the answers, and the map beside the snapshot, are kept by every
\* step: an answer joins the others at the stop GDB is at, the latest so far.
LEMMA MapKept ==
  ASSUME Typed, OneTab, MapInv, [Next]_vars, Typed'
  PROVE  MapInv'
<1>. SUFFICES ASSUME NEW t \in Sessions
              PROVE  (Ordered(t) /\ Ahead(t) /\ MapCurrent(t))'
  BY DEF MapInv
<1> DEFINE q == answers[t]
           p == answers'[t]
           Gen(x) == x.result.generation
<1>0. /\ q \in Seq(Answer) /\ p \in Seq(Answer)
      /\ DOMAIN q = 1..Len(q) /\ DOMAIN p = 1..Len(p) /\ Len(q) \in Nat /\ Len(p) \in Nat
      /\ entry[t] \in SessionEntry /\ entry'[t] \in SessionEntry
      /\ stop[t] \in Nat /\ stop'[t] \in Nat
  <2>1. q \in Seq(Answer) /\ p \in Seq(Answer)
    BY DEF Typed, TypeOK
  <2>2. /\ entry[t] \in SessionEntry /\ entry'[t] \in SessionEntry
        /\ stop[t] \in Nat /\ stop'[t] \in Nat
    BY DEF Typed, TypeOK
  <2>. QED BY <2>1, <2>2, LenProperties
<1>1. Ordered(t) /\ Ahead(t) /\ MapCurrent(t)
  BY DEF MapInv
<1>2. \A g \in Stops : g \in Nat /\ g # None
  <2>1. \A g \in Stops : g \in Nat
    BY PanelAssumption DEF PanelAssumption, Stops
  <2>. QED BY <2>1, PanelAssumption DEF PanelAssumption
<1>3. /\ \A i \in DOMAIN q : q[i].call \in Call /\ (q[i].result # None => Gen(q[i]) \in Stops)
      /\ \A i \in DOMAIN p : p[i].call \in Call /\ (p[i].result # None => Gen(p[i]) \in Stops)
  <2>1. /\ \A i \in DOMAIN q : q[i] \in Answer
        /\ \A i \in DOMAIN p : p[i] \in Answer
    BY <1>0, ElementOfSeq
  <2>2. \A a \in Answer : a.call \in Call /\ (a.result # None => Gen(a) \in Stops)
    BY DEF Answer, Result
  <2>. QED BY <2>1, <2>2
<1>4. /\ entry[t].shown \in Nat \cup {None} /\ entry'[t].shown \in Nat \cup {None}
      /\ entry[t].heapMap \in Nat \cup {None} /\ entry'[t].heapMap \in Nat \cup {None}
  BY <1>0, <1>2 DEF SessionEntry
<1>5. /\ MapAwaited(t) <=> \/ \E c \in asked[t] : c.kind \in {"request", "follow"}
                         \/ \E i \in DOMAIN q : q[i].call.kind \in {"request", "follow"}
      /\ MapAwaited(t)' <=> \/ \E c \in asked'[t] : c.kind \in {"request", "follow"}
                          \/ \E i \in DOMAIN p : p[i].call.kind \in {"request", "follow"}
  BY DEF MapAwaited, Outstanding, ToSet
<1>6. CASE Leaves(t)
  <2>1. p = q /\ asked[t] \subseteq asked'[t] /\ stop[t] <= stop'[t]
    BY <1>6 DEF Leaves
  <2>2. SameMap(entry[t], entry'[t])
    BY <1>6 DEF Leaves
  <2>3. Ordered(t)'
    BY <1>0, <1>1, <1>2, <1>3, <2>1 DEF Ordered
  <2>4. Ahead(t)'
    BY <1>0, <1>1, <1>2, <1>4, <2>1, <2>2 DEF Ahead, SameMap
  <2>5. MapCurrent(t)'
    BY <1>1, <1>5, <2>1, <2>2 DEF MapCurrent, SameMap
  <2>. QED BY <2>3, <2>4, <2>5
<1>7. CASE Answers(t)
  <2>1. PICK c \in asked[t], r \in Result :
          /\ r # None => r.generation = stop[t]
          /\ p = Append(q, [call |-> c, result |-> r])
          /\ asked'[t] = asked[t] \ {c} /\ stop'[t] = stop[t] /\ entry'[t] = entry[t]
    BY <1>7 DEF Answers
  <2> DEFINE n == Len(q)
  <2>2. /\ Len(p) = n + 1 /\ \A i \in 1..n : p[i] = q[i]
        /\ p[n + 1].call = c /\ p[n + 1].result = r
    BY <1>0, <2>1
  <2>3. Ordered(t)'
    <3>1. \A i \in 1..(n + 1) : p[i].result # None => Gen(p[i]) <= stop[t] /\ Gen(p[i]) \in Nat
      <4>1. \A i \in 1..n : q[i].result # None => Gen(q[i]) <= stop[t]
        BY <1>0, <1>1 DEF Ordered
      <4>. QED BY <1>0, <1>2, <1>3, <2>1, <2>2, <4>1
    <3>2. \A i, j \in 1..(n + 1) : i <= j /\ p[i].result # None /\ p[j].result # None => Gen(p[i]) <= Gen(p[j])
      <4>1. \A i, j \in 1..n : i <= j /\ q[i].result # None /\ q[j].result # None => Gen(q[i]) <= Gen(q[j])
        BY <1>0, <1>1 DEF Ordered
      <4>2. r # None => Gen(p[n + 1]) = stop[t]
        BY <2>1, <2>2
      <4>3. ASSUME NEW i \in 1..(n + 1), NEW j \in 1..(n + 1), i <= j, p[i].result # None, p[j].result # None
            PROVE  Gen(p[i]) <= Gen(p[j])
        <5>1. CASE j = n + 1
          BY <2>2, <3>1, <4>2, <4>3, <5>1
        <5>2. CASE j # n + 1
          <6>1. i \in 1..n /\ j \in 1..n
            BY <1>0, <4>3, <5>2
          <6>. QED BY <2>2, <4>1, <4>3, <6>1
        <5>. QED BY <5>1, <5>2
      <4>. QED BY <4>3
    <3>. QED BY <1>0, <2>1, <2>2, <3>1, <3>2 DEF Ordered
  <2>4. Ahead(t)'
    <3>1. entry[t].shown # None =>
            entry[t].shown <= stop[t] /\ \A i \in 1..n : q[i].result # None => entry[t].shown <= Gen(q[i])
      BY <1>0, <1>1 DEF Ahead
    <3>2. r # None => Gen(p[n + 1]) = stop[t]
      BY <2>1, <2>2
    <3>3. \A i \in 1..(n + 1) : i \in 1..n \/ i = n + 1
      BY <1>0
    <3>4. entry[t].shown # None => \A i \in 1..(n + 1) : p[i].result # None => entry[t].shown <= Gen(p[i])
      BY <2>2, <3>1, <3>2, <3>3
    <3>. QED BY <1>0, <2>1, <2>2, <3>1, <3>4 DEF Ahead
  <2>5. MapAwaited(t) => MapAwaited(t)'
    <3>1. \A i \in DOMAIN q : i \in DOMAIN p /\ p[i] = q[i]
      BY <1>0, <2>2
    <3>2. n + 1 \in DOMAIN p
      BY <1>0, <2>2
    <3>3. ASSUME NEW d \in asked[t], d.kind \in {"request", "follow"}
          PROVE  MapAwaited(t)'
      <4>1. CASE d = c
        BY <1>5, <2>2, <3>2, <3>3, <4>1
      <4>2. CASE d # c
        BY <1>5, <2>1, <3>3, <4>2
      <4>. QED BY <4>1, <4>2
    <3>. QED BY <1>5, <3>1, <3>3
  <2>6. MapCurrent(t)'
    BY <1>1, <2>1, <2>5 DEF MapCurrent
  <2>. QED BY <2>3, <2>4, <2>6
<1>8. CASE Asks(t)
  <2>1. /\ p = q /\ stop'[t] = stop[t] /\ entry'[t].shown = entry[t].shown
        /\ \E c \in asked'[t] : c.kind = "request"
    BY <1>8 DEF Asks
  <2>2. Ordered(t)' /\ Ahead(t)'
    BY <1>1, <2>1 DEF Ordered, Ahead
  <2>3. MapCurrent(t)'
    BY <1>5, <2>1 DEF MapCurrent
  <2>. QED BY <2>2, <2>3
<1>9. CASE Delivers(t)
  <2> DEFINE a == Head(q)
             e == entry[t]
             d == entry'[t]
  <2>1. /\ q # << >> /\ p = Tail(q) /\ stop'[t] = stop[t] /\ asked[t] \subseteq asked'[t]
    BY <1>9 DEF Delivers
  <2>2. /\ Len(p) = Len(q) - 1 /\ \A i \in DOMAIN p : i + 1 \in DOMAIN q /\ p[i] = q[i + 1]
        /\ 1 \in DOMAIN q /\ a = q[1] /\ \A i \in DOMAIN q : i = 1 \/ i - 1 \in DOMAIN p
    <3>1. /\ Len(p) = Len(q) - 1 /\ 1 \in DOMAIN q /\ a = q[1]
      BY <1>0, <2>1
    <3>2. \A i \in DOMAIN p : i + 1 \in DOMAIN q /\ p[i] = q[i + 1]
      BY <1>0, <2>1
    <3>3. \A i \in DOMAIN q : i = 1 \/ i - 1 \in DOMAIN p
      BY <1>0, <2>1, <3>1
    <3>. QED BY <3>1, <3>2, <3>3
  <2>3. Ordered(t)'
    <3>1. \A i, j \in DOMAIN p : i <= j => i + 1 <= j + 1
      BY <1>0
    <3>2. \A i, j \in DOMAIN p : i <= j /\ p[i].result # None /\ p[j].result # None
                                => p[i].result.generation <= p[j].result.generation
      BY <1>1, <2>2, <3>1 DEF Ordered
    <3>3. \A i \in DOMAIN p : p[i].result # None => p[i].result.generation <= stop[t]
      BY <1>1, <2>2 DEF Ordered
    <3>. QED BY <2>1, <3>2, <3>3 DEF Ordered
  <2>4. a.result # None => Gen(a) \in Stops /\ Gen(a) <= stop[t]
                           /\ \A i \in DOMAIN p : p[i].result # None => Gen(a) <= Gen(p[i])
    <3>1. \A i \in DOMAIN p : 1 <= i + 1
      BY <1>0
    <3>. QED BY <1>1, <1>3, <2>2, <3>1 DEF Ordered
  <2>5. a.result # None /\ e.shown # None => e.shown <= Gen(a)
    BY <1>1, <2>2 DEF Ahead
  <2>6. /\ e.shown # None => e.shown <= stop[t]
        /\ e.shown # None => \A i \in DOMAIN p : p[i].result # None => e.shown <= Gen(p[i])
    BY <1>1, <2>2 DEF Ahead
  <2>7. CASE SameMap(e, d) /\ a.call.kind \in {"refresh", "init"}
    <3>1. Ahead(t)'
      BY <2>1, <2>6, <2>7 DEF Ahead, SameMap
    <3>2. MapAwaited(t) => MapAwaited(t)'
      <4>1. ASSUME NEW i \in DOMAIN q, q[i].call.kind \in {"request", "follow"}
            PROVE  MapAwaited(t)'
        <5>1. i # 1
          BY <2>2, <2>7, <4>1
        <5>2. i - 1 \in DOMAIN p /\ p[i - 1] = q[i]
          BY <1>0, <2>2, <5>1
        <5>. QED BY <1>5, <4>1, <5>2
      <4>. QED BY <1>5, <2>1, <4>1
    <3>3. MapCurrent(t)'
      BY <1>1, <2>7, <3>2 DEF MapCurrent, SameMap
    <3>. QED BY <2>3, <3>1, <3>3
  <2>8. CASE /\ a.result # None /\ d.shown = Gen(a) /\ d.heapRequested = e.heapRequested
             /\ ~e.heapRequested \/ d.heapMap = None \/ \E c \in asked'[t] : c.kind = "follow"
    <3>1. Ahead(t)'
      BY <2>1, <2>4, <2>8 DEF Ahead
    <3>2. MapCurrent(t)'
      BY <1>5, <2>8 DEF MapCurrent
    <3>. QED BY <2>3, <3>1, <3>2
  <2>9. CASE a.result # None /\ d.shown = e.shown /\ d.heapMap = Gen(a)
    <3>1. Ahead(t)'
      BY <2>1, <2>6, <2>9 DEF Ahead
    <3>2. d.shown # None => d.heapMap >= d.shown
      BY <1>2, <1>4, <2>4, <2>5, <2>9
    <3>3. MapCurrent(t)'
      BY <3>2 DEF MapCurrent
    <3>. QED BY <2>3, <3>1, <3>3
  <2>10. CASE d.shown = e.shown /\ (~d.heapRequested \/ d.heapMap = None)
    <3>1. Ahead(t)'
      BY <2>1, <2>6, <2>10 DEF Ahead
    <3>2. MapCurrent(t)'
      BY <2>10 DEF MapCurrent
    <3>. QED BY <2>3, <3>1, <3>2
  <2>. QED BY <1>9, <2>7, <2>8, <2>9, <2>10 DEF Delivers
<1>. QED BY <1>6, <1>7, <1>8, <1>9, MapSteps

-----------------------------------------------------------------------------
\* The last event of a queue is still the last when another is taken from it.
LEMMA LastStays ==
  ASSUME NEW S, NEW q \in Seq(S), q # << >>, Len(q) # 1
  PROVE  Tail(q) # << >> /\ Tail(q)[Len(Tail(q))] = q[Len(q)]
<1>1. /\ Len(Tail(q)) = Len(q) - 1
      /\ \A i \in 1..Len(Tail(q)) : Tail(q)[i] = q[i + 1]
  BY HeadTailProperties
<1>2. Len(q) \in Nat /\ Len(q) > 1
  <2>1. Len(q) \in Nat /\ (Len(q) = 0 => q = << >>)
    OBVIOUS
  <2>2. \A n \in Nat : n # 0 /\ n # 1 => n > 1
    OBVIOUS
  <2>. QED BY <2>1, <2>2
<1>3. Len(Tail(q)) \in 1..Len(Tail(q)) /\ Len(Tail(q)) + 1 = Len(q) /\ Len(Tail(q)) # 0
  BY <1>1, <1>2
<1>4. Tail(q) # << >>
  BY <1>3, EmptySeq
<1>. QED BY <1>1, <1>3, <1>4

\* What a step does to the end of a session: it leaves the events, the tab and
\* the timer of a session that is gone; or handles its first event; and only a
\* session that ends becomes gone.
LEMMA EndKept ==
  ASSUME Typed, EndInv, [Next]_vars, NEW t \in Sessions
  PROVE  /\ EndComesLast(t)'
         /\ target[t] = "gone" /\ events[t] = << >> =>
              ~entry[t].debounce /\ asked'[t] \subseteq asked[t]
<1> USE DEF targetVars, tabVars
<1>0. /\ target \in [Sessions -> {"unborn", "running", "stopped", "gone"}]
      /\ events \in [Sessions -> Seq(Event)]
      /\ asked \in [Sessions -> SUBSET Call]
      /\ tabs \in Seq(Sessions)
      /\ entry \in [Sessions -> SessionEntry]
  BY DEF Typed, TypeOK
<1>1. EndComesLast(t) /\ OneTab
  BY DEF EndInv
<1>2. events[t] \in Seq(Event) /\ Len(events[t]) \in Nat
  BY <1>0, LenProperties
<1>3. target[t] = "gone" /\ events[t] = << >> => ~Tracked(t) /\ ~entry[t].debounce
  BY <1>1 DEF EndComesLast
\* A step that leaves events and target, and gives no ended session a tab or a timer.
<1>4. ASSUME events'[t] = events[t], target'[t] = target[t],
             target[t] = "gone" /\ events[t] = << >> =>
               (Tracked(t)' => Tracked(t)) /\ entry'[t].debounce = entry[t].debounce
      PROVE  EndComesLast(t)'
  BY <1>1, <1>4 DEF EndComesLast
\* A step that takes the first event, the end excepted.
<1>5. ASSUME NEW kind, Receive(t, kind), kind # "terminated", target'[t] = target[t]
      PROVE  EndComesLast(t)'
  <2>1. /\ events[t] # << >> /\ events'[t] = Tail(events[t]) /\ Head(events[t]).kind = kind
    BY <1>0, <1>5 DEF Receive
  <2>2. target[t] = "gone" => events[t][Len(events[t])].kind = "terminated"
    BY <1>1, <2>1 DEF EndComesLast
  <2>3. Head(events[t]) = events[t][1]
    BY <1>2, <2>1
  <2>4. target[t] = "gone" => Len(events[t]) # 1
    BY <1>5, <2>1, <2>2, <2>3
  <2>5. target[t] = "gone" =>
          /\ events'[t] # << >>
          /\ events'[t][Len(events'[t])] = events[t][Len(events[t])]
    BY <1>2, <2>1, <2>4, LastStays
  <2>. QED BY <1>5, <2>2, <2>5 DEF EndComesLast
\* A step of another session.
<1>6. ASSUME NEW s \in Sessions, s # t,
             \/ Started(s) \/ Running(s) \/ Trace(s) \/ Terminated(s)
             \/ PythonChecked(s) \/ DebounceFires(s) \/ SnapshotAnswered(s)
             \/ RequestedMapAnswered(s) \/ FollowingMapAnswered(s) \/ InitAnswered(s)
             \/ Reader(s)
      PROVE  events'[t] = events[t] /\ target'[t] = target[t] /\ entry'[t] = entry[t] /\ asked'[t] = asked[t]
  <2>1. CASE Started(s) \/ Running(s) \/ Trace(s) \/ Terminated(s)
    <3>1. target' = target /\ events'[t] = events[t]
      BY <1>0, <1>6, <2>1 DEF Started, Running, Trace, Terminated, Receive
    <3>2. entry'[t] = entry[t]
      BY <1>0, <1>6, <2>1 DEF Started, Running, Trace, Terminated
    <3>3. asked'[t] = asked[t]
      BY <1>0, <1>6, <2>1 DEF Started, Running, Trace, Terminated
    <3>. QED BY <3>1, <3>2, <3>3
  <2>2. CASE \/ PythonChecked(s) \/ DebounceFires(s) \/ SnapshotAnswered(s) \/ RequestedMapAnswered(s)
             \/ FollowingMapAnswered(s) \/ InitAnswered(s) \/ Reader(s)
    BY <1>0, <1>6, <2>2 DEF PythonChecked, DebounceFires, SnapshotAnswered, RequestedMapAnswered,
         FollowingMapAnswered, InitAnswered, Reader, RefreshNow, SelectSession, HeapDumpRequested
  <2>. QED BY <1>6, <2>1, <2>2
<1>7. ASSUME NEW s \in Sessions, s # t,
             \/ Started(s) \/ Running(s) \/ Trace(s) \/ Terminated(s)
             \/ PythonChecked(s) \/ DebounceFires(s) \/ SnapshotAnswered(s)
             \/ RequestedMapAnswered(s) \/ FollowingMapAnswered(s) \/ InitAnswered(s)
             \/ Reader(s)
      PROVE  Tracked(t)' => Tracked(t)
  <2>1. tabs' = tabs \/ SessionStarted(s) \/ tabs' = Closed(s)
    BY <1>7 DEF Started, Running, Trace, Terminated, PythonChecked, DebounceFires, SnapshotAnswered,
         RequestedMapAnswered, FollowingMapAnswered, InitAnswered, Reader, RefreshNow, SelectSession,
         HeapDumpRequested
  <2>2. CASE SessionStarted(s)
    BY <1>1, <1>7, <2>2, StartedTabs DEF Tracked
  <2>3. CASE tabs' = Closed(s)
    BY <1>0, <1>1, <2>3, ClosedTabs DEF Tracked
  <2>. QED BY <2>1, <2>2, <2>3 DEF Tracked
<1>8. ASSUME NEW s \in Sessions, Launch(s) \/ StopTarget(s) \/ Resume(s) \/ Terminate(s)
      PROVE  EndComesLast(t)' /\ asked' = asked
  <2>1. UNCHANGED <<asked, tabs, entry>>
    BY <1>8 DEF Launch, StopTarget, Resume, Terminate
  <2>2. CASE s # t
    <3>1. target'[t] = target[t] /\ events'[t] = events[t]
      BY <1>0, <1>8, <2>2 DEF Launch, StopTarget, Resume, Terminate, Emit
    <3>. QED BY <1>4, <2>1, <3>1 DEF Tracked
  <2>3. CASE s = t /\ ~Terminate(s)
    <3>1. target'[t] # "gone"
      BY <1>0, <1>8, <2>3 DEF Launch, StopTarget, Resume
    <3>. QED BY <2>1, <3>1 DEF EndComesLast
  <2>4. CASE s = t /\ Terminate(s)
    <3>1. events'[t] = Append(events[t], [kind |-> "terminated"])
      BY <1>0, <2>4 DEF Terminate, Emit
    <3>2. events'[t] # << >> /\ events'[t][Len(events'[t])] = [kind |-> "terminated"]
      BY <1>2, <3>1
    <3>. QED BY <2>1, <3>2 DEF EndComesLast
  <2>. QED BY <2>2, <2>3, <2>4
<1>9. ASSUME NEW s \in Sessions, NEW c \in Call, AnswerCall(s, c)
      PROVE  EndComesLast(t)' /\ asked'[t] \subseteq asked[t]
  <2>1. asked'[t] \subseteq asked[t]
    BY <1>0, <1>9 DEF AnswerCall
  <2>2. UNCHANGED <<target, events, tabs, entry>>
    BY <1>9 DEF AnswerCall
  <2>. QED BY <1>4, <2>1, <2>2 DEF Tracked
<1>10. ASSUME Started(t) \/ Running(t) \/ Trace(t)
       PROVE  EndComesLast(t)' /\ events[t] # << >>
  <2>1. target' = target /\ \E kind \in {"started", "running", "trace"} : Receive(t, kind)
    BY <1>10 DEF Started, Running, Trace
  <2>. QED BY <1>5, <2>1 DEF Receive
<1>11. ASSUME Terminated(t)
       PROVE  EndComesLast(t)' /\ asked' = asked
  <2>1. /\ events[t] # << >> /\ events'[t] = Tail(events[t]) /\ target' = target /\ asked' = asked
    BY <1>0, <1>11 DEF Terminated, Receive
  <2>2. ~entry'[t].debounce
    BY <1>0, <1>11 DEF Terminated, SessionEntry
  <2>3. ~Tracked(t)'
    BY <1>0, <1>1, <1>11, ClosedTabs DEF Terminated, Tracked
  <2>4. CASE events'[t] = << >>
    BY <2>1, <2>2, <2>3, <2>4 DEF EndComesLast
  <2>5. CASE events'[t] # << >>
    <3>1. events'[t][Len(events'[t])] = events[t][Len(events[t])]
      BY <1>2, <2>1, <2>5
    <3>. QED BY <1>1, <2>1, <2>5, <3>1 DEF EndComesLast
  <2>. QED BY <2>1, <2>4, <2>5
<1>12. ASSUME PythonChecked(t) \/ RequestedMapAnswered(t) \/ FollowingMapAnswered(t) \/ InitAnswered(t)
       PROVE  EndComesLast(t)' /\ asked' = asked
  <2>1. UNCHANGED <<target, events, tabs, asked>>
    BY <1>12 DEF PythonChecked, RequestedMapAnswered, FollowingMapAnswered, InitAnswered
  <2>2. ~Tracked(t) => entry'[t].debounce = entry[t].debounce
    <3>1. Failed(t, entry[t]).debounce = entry[t].debounce
      BY <1>0, Methods
    <3>2. CASE PythonChecked(t)
      BY <1>0, <3>1, <3>2 DEF PythonChecked
    <3>3. CASE RequestedMapAnswered(t)
      BY <1>0, <3>3 DEF RequestedMapAnswered, SessionEntry
    <3>4. CASE FollowingMapAnswered(t)
      BY <1>0, <3>4 DEF FollowingMapAnswered, SessionEntry
    <3>5. CASE InitAnswered(t)
      BY <1>0, <3>5 DEF InitAnswered
    <3>. QED BY <1>12, <3>2, <3>3, <3>4, <3>5
  <2>. QED BY <1>3, <1>4, <2>1, <2>2 DEF Tracked
<1>13. ASSUME SnapshotAnswered(t)
       PROVE  EndComesLast(t)' /\ (~Tracked(t) => asked'[t] = asked[t])
  <2>1. UNCHANGED <<target, events, tabs>>
    BY <1>13 DEF SnapshotAnswered
  <2>2. entry'[t].debounce = entry[t].debounce /\ (~Tracked(t) => asked'[t] = asked[t])
    BY <1>1, <1>13, SnapshotStep
  <2>. QED BY <1>4, <2>1, <2>2 DEF Tracked
<1>14. ASSUME DebounceFires(t) \/ Reader(t)
       PROVE  EndComesLast(t)' /\ (Tracked(t) \/ entry[t].debounce)
  <2>1. UNCHANGED <<target, events, tabs>> /\ (Tracked(t) \/ entry[t].debounce)
    BY <1>14 DEF DebounceFires, Reader, RefreshNow, SelectSession, HeapDumpRequested
  <2>. QED BY <1>3, <1>4, <2>1
<1>15. CASE UNCHANGED vars
  <2>1. UNCHANGED <<target, events, tabs, entry, asked>>
    BY <1>15 DEF vars
  <2>. QED BY <1>3, <1>4, <2>1 DEF Tracked
<1>16. ASSUME NEW s \in Sessions, s # t,
              Host(s) \/ Reader(s)
       PROVE  EndComesLast(t)' /\ asked'[t] = asked[t]
  <2>1. events'[t] = events[t] /\ target'[t] = target[t] /\ entry'[t] = entry[t] /\ asked'[t] = asked[t]
    BY <1>6, <1>16 DEF Host
  <2>2. Tracked(t)' => Tracked(t)
    BY <1>7, <1>16 DEF Host
  <2>. QED BY <1>4, <2>1, <2>2
<1>17. ASSUME Host(t) \/ Reader(t)
       PROVE  /\ EndComesLast(t)'
              /\ target[t] = "gone" /\ events[t] = << >> => asked'[t] \subseteq asked[t]
  BY <1>3, <1>10, <1>11, <1>12, <1>13, <1>14, <1>17 DEF Host
<1>. QED BY <1>3, <1>8, <1>9, <1>15, <1>16, <1>17 DEF Next, vars

-----------------------------------------------------------------------------
\* Without sessions there is nothing to be out of order.
LEMMA InvInit == Init => Inv
<1>. SUFFICES ASSUME Init PROVE Inv
  OBVIOUS
<1>1. NewEntry \in SessionEntry /\ ~NewEntry.heapRequested /\ NewEntry.shown = None
  BY DEF NewEntry, SessionEntry
<1>2. << >> \in Seq(Event) /\ << >> \in Seq(Answer) /\ << >> \in Seq(Sessions) /\ DOMAIN << >> = {}
  OBVIOUS
<1>3. Typed
  BY <1>1, <1>2 DEF Init, Typed, TypeOK, StopsCounted
<1>4. MapInv
  BY <1>1, <1>2 DEF Init, MapInv, Ordered, Ahead, MapCurrent
<1>5. EndInv
  BY <1>2 DEF Init, EndInv, OneTab, EndComesLast
<1>. QED BY <1>3, <1>4, <1>5 DEF Inv

\* Every step keeps the three parts of the invariant.
LEMMA InvKept == Inv /\ [Next]_vars => Inv'
<1>. SUFFICES ASSUME Inv, [Next]_vars PROVE Inv'
  OBVIOUS
<1>1. Typed /\ MapInv /\ EndInv /\ OneTab
  BY DEF Inv, EndInv
<1>2. Typed' /\ OneTab'
  BY <1>1, TypedKept
<1>3. MapInv'
  BY <1>1, <1>2, MapKept
<1>4. \A t \in Sessions : EndComesLast(t)'
  BY <1>1, EndKept
<1>. QED BY <1>2, <1>3, <1>4 DEF Inv, EndInv

\* The panel's state is well typed, its answers are in the order of their stops,
\* and a session that is gone is so for good.
THEOREM PanelIsSound == Spec => []Inv
  BY InvInit, InvKept, PTL DEF Spec

\* A map the reader asked for is not older than the snapshot it is drawn beside.
THEOREM MapFollowsSnapshot == Spec => []MapNotBehindSnapshot
<1>1. Inv => MapNotBehindSnapshot
  <2>. SUFFICES ASSUME Inv PROVE MapNotBehindSnapshot
    OBVIOUS
  <2>1. TypeOK /\ \A s \in Sessions : MapCurrent(s)
    BY DEF Inv, Typed, MapInv
  <2>2. ASSUME NEW s \in Sessions, \A c \in Outstanding(s) : c.kind \notin {"request", "follow"}
        PROVE  ~MapAwaited(s)
    BY <2>2 DEF MapAwaited
  <2>. QED BY <2>1, <2>2 DEF MapNotBehindSnapshot, MapCurrent
<1>. QED BY <1>1, PanelIsSound, PTL

\* A session that has ended arms no timer and makes no call.
THEOREM EndedStaysQuiet == Spec => EndedIsQuiet
<1>1. Inv /\ [Next]_vars =>
        [\A s \in Sessions :
           target[s] = "gone" /\ events[s] = << >> =>
             ~entry[s].debounce /\ asked'[s] \subseteq asked[s]]_vars
  BY EndKept DEF Inv
<1>. QED BY <1>1, PanelIsSound, PTL DEF Spec, EndedIsQuiet
=============================================================================
