------------------------ MODULE FreeRtosTasksProofs ------------------------
(***************************************************************************)
(* Proofs about FreeRtosTasks, for any tasks, tick width and notification  *)
(* slots, on one core and on two.                                          *)
(*                                                                         *)
(* The invariant says what the kernel keeps about a task block: which list *)
(* its items are on for what the task does (Shape), which core it is on    *)
(* for its run state (Placed), that nothing is delayed before the          *)
(* scheduler starts (Unstarted), that the cached deadline is not later     *)
(* than any wake time on the list in use (Deadlined), and the task count   *)
(* (Counted).  What GDR derives of a halted kernel follows from it.        *)
(***************************************************************************)
EXTENDS FreeRtosTasks, TLAPS, FiniteSetTheorems, WellFoundedInduction

Delayed == {"delayed_1", "delayed_2"}

\* Where the items of block b are, of a task that does a.
Shape(a, b, held) ==
  /\ b.waiting \subseteq NotifySlots
  /\ a = "absent" => b.state = None /\ b.event = None
  /\ a = "runnable" =>
       \/ b.state = "ready" /\ b.event = None
       \/ b.event = "pending" /\ b.state \in Delayed \cup {"suspended"} /\ held = 1
  /\ a = "blocked" =>
       /\ b.event \in {None, "object"} /\ b.state \in Delayed \cup {"suspended"}
       /\ b.state = "suspended" => b.event = "object" \/ b.waiting # {}
  /\ a = "suspended" => b.state = "suspended" /\ b.event = None /\ b.waiting = {}
  /\ a = "deleted" => b.state = "termination" /\ b.event = None /\ b.waiting = {}

Shapes == \A t \in Task : Shape(does[t], tcb[t], kernel.suspended)

\* The run state of a task on several cores is that of the core it is on.
Placed(t) ==
  /\ Runs(t) => does[t] # "absent"
  /\ \A c, d \in Cores : current[c] = t /\ current[d] = t => c = d
  /\ ~image.smp => tcb[t].run = NotRunning
  /\ image.smp => /\ (tcb[t].run # NotRunning) <=> Runs(t)
                  /\ tcb[t].run \in {0, 1} => current[tcb[t].run] = t

Unstarted(b, k) == ~k.started => k.suspended = 0 /\ \A t \in Task : b[t].state \in {None, "ready"}

Deadlined(b, k) == k.started => \A t \in Task : b[t].state = k.now => k.unblock <= b[t].wake

Counted == kernel.tasks = Cardinality({t \in Task : does[t] # "absent"})

Inv ==
  /\ TypeOK /\ Shapes
  /\ \A t \in Task : Placed(t)
  /\ Unstarted(tcb, kernel) /\ Deadlined(tcb, kernel) /\ Counted

-----------------------------------------------------------------------------
\* The least of natural numbers is one of them and not above any.
LEMMA LeastIsLeast ==
  ASSUME NEW S \in SUBSET Nat, S # {}
  PROVE  Least(S) \in S /\ \A m \in S : Least(S) <= m
<1>1. \E n \in S : \A m \in S : ~(<<m, n>> \in OpToRel(<, Nat))
  BY NatLessThanWellFounded, WFMin
<1>2. PICK n \in S : \A m \in S : ~(m < n)
  BY <1>1 DEF OpToRel
<1>3. \A m \in S : n <= m
  BY <1>2
<1>. QED BY <1>3 DEF Least

\* The deadline is a tick, and none of the list's wake times is before it.
LEMMA DeadlineIsLeast ==
  ASSUME TasksAssumption, NEW b \in [Task -> Tcb], NEW now
  PROVE  /\ Deadline(b, now) \in 0..Forever
         /\ \A t \in Task : b[t].state = now => Deadline(b, now) <= b[t].wake
<1> DEFINE due == {b[t].wake : t \in {u \in Task : b[u].state = now}}
<1>1. Forever \in Nat
  BY DEF Forever, TasksAssumption
<1>2. due \in SUBSET (0..Forever)
  BY DEF Tcb
<1>3. CASE due = {}
  <2>1. Deadline(b, now) = Forever
    BY <1>3 DEF Deadline
  <2>2. \A t \in Task : b[t].state # now
    BY <1>3
  <2> HIDE DEF due
  <2>. QED BY <1>1, <2>1, <2>2
<1>4. CASE due # {}
  <2>1. Deadline(b, now) = Least(due)
    BY <1>4 DEF Deadline
  <2>2. due \in SUBSET Nat
    BY <1>1, <1>2
  <2> HIDE DEF due
  <2>3. Least(due) \in due /\ \A m \in due : Least(due) <= m
    BY <1>4, <2>2, LeastIsLeast
  <2>. QED BY <1>2, <2>1, <2>3 DEF due
<1>. QED BY <1>3, <1>4

\* The blocks a kernel function makes of a block.
LEMMA Blocked ==
  ASSUME TasksAssumption, NEW b \in Tcb
  PROVE  /\ Fresh \in Tcb /\ [Fresh EXCEPT !.state = "ready"] \in Tcb
         /\ \A r \in {NotRunning, Yielding, 0, 1} : [b EXCEPT !.run = r] \in Tcb
         /\ \A l \in StateLists : [b EXCEPT !.state = l] \in Tcb
         /\ [b EXCEPT !.state = "ready", !.event = None, !.wake = 0] \in Tcb
         /\ [b EXCEPT !.state = "ready", !.event = None, !.waiting = {}, !.wake = 0] \in Tcb
         /\ [b EXCEPT !.event = "pending", !.waiting = {}] \in Tcb
<1>1. 0 \in 0..Forever
  BY DEF TasksAssumption, Forever
<1>. QED BY <1>1 DEF Tcb, Fresh, StateLists, NotRunning, Yielding

\* A task that stays where it is on the cores.
LEMMA PlaceKept ==
  ASSUME image' = image, current' = current, NEW t \in Task, Placed(t),
         Runs(t) => does'[t] # "absent",
         tcb'[t].run = tcb[t].run \/ (tcb'[t].run = Yielding /\ image.smp /\ Runs(t))
  PROVE  Placed(t)'
<1>1. Cores' = Cores
  BY DEF Cores
<1>2. Runs(t)' <=> Runs(t)
  BY <1>1 DEF Runs
<1>3. Yielding # NotRunning /\ Yielding \notin {0, 1}
  BY DEF Yielding, NotRunning
<1>. QED BY <1>1, <1>2, <1>3 DEF Placed

\* A task that is on no core has the run state of one that never was.
LEMMA OffCore ==
  ASSUME NEW t \in Task, Placed(t), image.smp \in BOOLEAN, ~Runs(t)
  PROVE  tcb[t].run = NotRunning
BY DEF Placed

\* The tasks are finitely many, and there is one if a task exists.
LEMMA TasksCounted ==
  ASSUME TasksAssumption
  PROVE  /\ IsFiniteSet({t \in Task : does[t] # "absent"})
         /\ \A t \in Task : does[t] # "absent" => Cardinality({u \in Task : does[u] # "absent"}) # 0
<1> DEFINE S == {t \in Task : does[t] # "absent"}
<1>1. IsFiniteSet(S)
  BY FS_Subset DEF TasksAssumption
<1>2. Cardinality(S) = 0 => S = {}
  BY <1>1, FS_EmptySet
<1>. QED BY <1>1, <1>2

\* A kernel function that moves one task and leaves the cores alone.
LEMMA OneTaskMoves ==
  ASSUME TasksAssumption, Inv, NEW t \in Task, NEW b \in Tcb, NEW a \in Activities,
         image' = image, current' = current,
         tcb' = [tcb EXCEPT ![t] = b], does' = [does EXCEPT ![t] = a],
         kernel' \in Globals, kernel'.suspended = kernel.suspended,
         kernel'.started = kernel.started, kernel'.now = kernel.now,
         Shape(a, b, kernel.suspended),
         Runs(t) => a # "absent",
         b.run = tcb[t].run \/ (b.run = Yielding /\ image.smp /\ Runs(t)),
         kernel.started \/ b.state \in {None, "ready"},
         \/ kernel'.unblock = Deadline(tcb', kernel.now)
         \/ /\ kernel'.unblock <= kernel.unblock
            /\ kernel.started /\ b.state = kernel.now => kernel'.unblock <= b.wake,
         \/ (does[t] = "absent") = (a = "absent") /\ kernel'.tasks = kernel.tasks
         \/ does[t] = "absent" /\ a # "absent" /\ kernel'.tasks = kernel.tasks + 1
         \/ does[t] # "absent" /\ a = "absent" /\ kernel'.tasks = kernel.tasks - 1
  PROVE  Inv'
<1>0. /\ tcb \in [Task -> Tcb] /\ does \in [Task -> Activities] /\ kernel \in Globals
      /\ current \in [Cores -> Task \cup {None}] /\ Shapes
  BY DEF Inv, TypeOK
<1>1. tcb' \in [Task -> Tcb] /\ does' \in [Task -> Activities] /\ Cores' = Cores /\ NotifySlots' = NotifySlots
  BY <1>0 DEF Cores, NotifySlots
<1>2. /\ tcb'[t] = b /\ does'[t] = a
      /\ \A u \in Task \ {t} : tcb'[u] = tcb[u] /\ does'[u] = does[u]
  BY <1>0
<1>3. TypeOK'
  BY <1>0, <1>1 DEF Inv, TypeOK
<1>4. \A u \in Task : Shape(does'[u], tcb'[u], kernel.suspended)
  BY <1>0, <1>2 DEF Shapes
<1>5. Shapes'
  BY <1>1, <1>4 DEF Shapes, Shape
<1>6. \A u \in Task : Placed(u)'
  <2> SUFFICES ASSUME NEW u \in Task PROVE Placed(u)'
    OBVIOUS
  <2>1. Placed(u)
    BY DEF Inv
  <2>2. Runs(u) => does'[u] # "absent"
    BY <1>2, <2>1 DEF Placed
  <2>3. tcb'[u].run = tcb[u].run \/ (tcb'[u].run = Yielding /\ image.smp /\ Runs(u))
    BY <1>2
  <2>. QED BY <2>1, <2>2, <2>3, PlaceKept
<1>7. Unstarted(tcb', kernel')
  BY <1>2 DEF Inv, Unstarted
<1>8. Deadlined(tcb', kernel')
  <2>1. CASE kernel'.unblock = Deadline(tcb', kernel.now)
    <3>1. \A u \in Task : tcb'[u].state = kernel.now => Deadline(tcb', kernel.now) <= tcb'[u].wake
      BY <1>1, DeadlineIsLeast
    <3>. QED BY <2>1, <3>1 DEF Deadlined
  <2>2. CASE /\ kernel'.unblock <= kernel.unblock
             /\ kernel.started /\ b.state = kernel.now => kernel'.unblock <= b.wake
    <3> SUFFICES ASSUME kernel.started, NEW u \in Task, tcb'[u].state = kernel.now
                 PROVE  kernel'.unblock <= tcb'[u].wake
      BY DEF Deadlined
    <3>1. CASE u = t
      BY <1>2, <2>2, <3>1
    <3>2. CASE u # t
      <4>1. kernel.unblock <= tcb[u].wake /\ tcb'[u] = tcb[u]
        BY <1>2, <3>2 DEF Inv, Deadlined
      <4>2. kernel.unblock \in Int /\ kernel'.unblock \in Int /\ tcb[u].wake \in Int
        BY <1>0 DEF Globals, Tcb
      <4>3. kernel'.unblock <= kernel.unblock
        BY <2>2
      <4>. QED BY <4>1, <4>2, <4>3
    <3>. QED BY <3>1, <3>2
  <2>. QED BY <2>1, <2>2
<1>9. Counted'
  <2> DEFINE S == {u \in Task : does[u] # "absent"}
             T == {u \in Task : does'[u] # "absent"}
  <2>1. kernel.tasks = Cardinality(S) /\ IsFiniteSet(S)
    BY TasksCounted DEF Inv, Counted
  <2>2. T = IF a = "absent" THEN S \ {t} ELSE S \cup {t}
    BY <1>2
  <2>3. t \in S <=> does[t] # "absent"
    OBVIOUS
  <2> HIDE DEF S, T
  <2>4. CASE (does[t] = "absent") = (a = "absent") /\ kernel'.tasks = kernel.tasks
    <3>1. T = S
      BY <2>2, <2>3, <2>4
    <3>. QED BY <2>1, <2>4, <3>1 DEF Counted, T
  <2>5. CASE does[t] = "absent" /\ a # "absent" /\ kernel'.tasks = kernel.tasks + 1
    <3>1. Cardinality(T) = Cardinality(S) + 1
      BY <2>1, <2>2, <2>3, <2>5, FS_AddElement
    <3>. QED BY <2>1, <2>5, <3>1 DEF Counted, T
  <2>6. CASE does[t] # "absent" /\ a = "absent" /\ kernel'.tasks = kernel.tasks - 1
    <3>1. Cardinality(T) = Cardinality(S) - 1
      BY <2>1, <2>2, <2>3, <2>6, FS_RemoveElement
    <3>. QED BY <2>1, <2>6, <3>1 DEF Counted, T
  <2>. QED BY <2>4, <2>5, <2>6
<1>. QED BY <1>3, <1>5, <1>6, <1>7, <1>8, <1>9 DEF Inv

\* What the invariant says of the types, for the actions.
LEMMA Typed ==
  ASSUME TasksAssumption, Inv
  PROVE  /\ image.smp \in BOOLEAN /\ kernel \in Globals
         /\ kernel.tick \in 0..Forever /\ kernel.now \in Delayed /\ kernel.unblock \in 0..Forever
         /\ kernel.suspended \in 0..1 /\ kernel.tasks \in Nat
         /\ 0 \in 0..Forever /\ Forever \in Nat /\ Later \in Delayed /\ Later # kernel.now
         /\ NotifySlots \subseteq 0..(MaxSlots - 1)
         /\ \A t \in Task : /\ tcb[t] \in Tcb /\ does[t] \in Activities /\ Placed(t)
                            /\ Shape(does[t], tcb[t], kernel.suspended)
<1>1. image \in [smp : BOOLEAN, array : BOOLEAN] /\ kernel \in Globals
  BY DEF Inv, TypeOK, TasksAssumption
<1>2. /\ kernel.tick \in 0..Forever /\ kernel.now \in Delayed /\ kernel.unblock \in 0..Forever
      /\ kernel.suspended \in 0..1 /\ kernel.tasks \in Nat
  BY <1>1 DEF Globals, Delayed
<1>3. 0 \in 0..Forever /\ Forever \in Nat
  BY DEF Forever, TasksAssumption
<1>4. Later \in Delayed /\ Later # kernel.now
  BY <1>2 DEF Later, Delayed
<1>5. NotifySlots \subseteq 0..(MaxSlots - 1)
  BY DEF NotifySlots, TasksAssumption
<1>6. \A t \in Task : /\ tcb[t] \in Tcb /\ does[t] \in Activities /\ Placed(t)
                      /\ Shape(does[t], tcb[t], kernel.suspended)
  BY DEF Inv, TypeOK, Shapes
<1>. QED BY <1>1, <1>2, <1>3, <1>4, <1>5, <1>6

\* A task is created on a ready list.
LEMMA CreateKeeps == ASSUME TasksAssumption, Inv, NEW t \in Task, Create(t) PROVE Inv'
<1> DEFINE b == [Fresh EXCEPT !.state = "ready"]
<1>1. /\ does[t] = "absent" /\ image' = image /\ current' = current
      /\ tcb' = [tcb EXCEPT ![t] = b] /\ does' = [does EXCEPT ![t] = "runnable"]
      /\ kernel' = [kernel EXCEPT !.tasks = kernel.tasks + 1]
  BY DEF Create
<1>2. b \in Tcb
  BY Blocked, Typed
<1>3. b.run = NotRunning /\ b.state = "ready" /\ b.event = None /\ b.waiting = {}
  BY DEF Fresh
<1>4. /\ kernel' \in Globals /\ kernel'.suspended = kernel.suspended
      /\ kernel'.started = kernel.started /\ kernel'.now = kernel.now
      /\ kernel'.unblock = kernel.unblock /\ kernel'.tasks = kernel.tasks + 1
  BY <1>1, Typed DEF Globals
<1> HIDE DEF b
<1>5. Shape("runnable", b, kernel.suspended)
  BY <1>3 DEF Shape
<1>6. ~Runs(t) /\ b.run = tcb[t].run
  <2>1. ~Runs(t)
    BY <1>1, Typed DEF Placed
  <2>. QED BY <1>3, <2>1, Typed, OffCore
<1>7. kernel'.unblock <= kernel.unblock /\ b.state # kernel.now
  BY <1>3, <1>4, Typed DEF Delayed
<1>8. "runnable" \in Activities
  BY DEF Activities
<1>. QED BY <1>1, <1>2, <1>3, <1>4, <1>5, <1>6, <1>7, <1>8, OneTaskMoves

\* A task blocks: on the list of this turn of the tick counter or the next with
\* a deadline, and on the suspended list without.
LEMMA BlocksKeeps ==
  ASSUME TasksAssumption, Inv, NEW c \in Cores, NEW on \in {"time", "object", "notification"},
         Blocks(c, on)
  PROVE  Inv'
<1> DEFINE t == current[c]
<1>1. /\ t \in Task /\ does[t] = "runnable" /\ tcb[t].state = "ready"
      /\ kernel.started /\ kernel.suspended = 0
      /\ image' = image /\ current' = current /\ does' = [does EXCEPT ![t] = "blocked"]
  BY DEF Blocks, OnCore, Going, Inv, TypeOK
<1>2. PICK event \in (IF on = "object" THEN {"object"} ELSE {None}),
           slots \in (IF on = "notification" THEN {{s} : s \in NotifySlots} ELSE {{}}) :
        \/ \E d \in 1..(Ticks - 2) :
             LET wake == (kernel.tick + d) % Ticks IN
             /\ tcb' = [tcb EXCEPT ![t] = DelayedUntil([tcb[t] EXCEPT !.event = event, !.waiting = slots], wake)]
             /\ kernel' = [kernel EXCEPT !.unblock =
                             IF wake >= kernel.tick /\ wake < @ THEN wake ELSE @]
        \/ /\ on # "time"
           /\ tcb' = [tcb EXCEPT ![t] = [[tcb[t] EXCEPT !.event = event, !.waiting = slots]
                                           EXCEPT !.state = "suspended"]]
           /\ UNCHANGED kernel
  BY DEF Blocks, OnCore
<1>3. /\ event \in {None, "object"} /\ slots \subseteq NotifySlots /\ slots \in SUBSET (0..(MaxSlots - 1))
      /\ on # "time" => event = "object" \/ slots # {}
  BY Typed
<1> DEFINE e == [tcb[t] EXCEPT !.event = event, !.waiting = slots]
           B(l, w) == [e EXCEPT !.wake = w, !.state = l]
<1>4. \A l \in StateLists, w \in 0..Forever :
        /\ B(l, w) \in Tcb /\ B(l, w).run = tcb[t].run /\ B(l, w).event = event
        /\ B(l, w).waiting = slots /\ B(l, w).state = l /\ B(l, w).wake = w
  <2>1. tcb[t] \in Tcb
    BY <1>1, Typed
  <2>2. e \in Tcb /\ e.run = tcb[t].run /\ e.event = event /\ e.waiting = slots
    BY <1>3, <2>1 DEF Tcb
  <2> HIDE DEF e
  <2>. QED BY <2>2 DEF Tcb
<1>5. [e EXCEPT !.state = "suspended"] = B("suspended", tcb[t].wake) /\ tcb[t].wake \in 0..Forever
  BY <1>1, Typed DEF Tcb
<1>10. \A w : DelayedUntil(e, w) = B(IF w < kernel.tick THEN Later ELSE kernel.now, w)
  BY DEF DelayedUntil
<1> HIDE DEF e, t, B
<1>6. "blocked" \in Activities /\ Delayed \subseteq StateLists /\ "suspended" \in StateLists
  BY DEF Activities, Delayed, StateLists
<1>7. ASSUME NEW l \in StateLists, NEW w \in 0..Forever,
             tcb' = [tcb EXCEPT ![t] = B(l, w)],
             kernel' \in Globals, kernel'.suspended = kernel.suspended, kernel'.tasks = kernel.tasks,
             kernel'.started = kernel.started, kernel'.now = kernel.now,
             kernel'.unblock <= kernel.unblock, l = kernel.now => kernel'.unblock <= w,
             l \in Delayed \/ (l = "suspended" /\ (event = "object" \/ slots # {}))
      PROVE  Inv'
  <2> DEFINE b == B(l, w)
  <2>1. /\ b \in Tcb /\ b.run = tcb[t].run /\ b.event = event /\ b.waiting = slots
        /\ b.state = l /\ b.wake = w
    BY <1>4, <1>7
  <2>2. tcb' = [tcb EXCEPT ![t] = b]
    BY <1>7
  <2> HIDE DEF b
  <2>3. Shape("blocked", b, kernel.suspended)
    BY <1>3, <1>7, <2>1 DEF Shape, Delayed
  <2>. QED BY <1>1, <1>6, <1>7, <2>1, <2>2, <2>3, OneTaskMoves
<1>8. CASE \E d \in 1..(Ticks - 2) :
             LET wake == (kernel.tick + d) % Ticks IN
             /\ tcb' = [tcb EXCEPT ![t] = DelayedUntil(e, wake)]
             /\ kernel' = [kernel EXCEPT !.unblock =
                             IF wake >= kernel.tick /\ wake < @ THEN wake ELSE @]
  <2>1. PICK d \in 1..(Ticks - 2) :
             LET wake == (kernel.tick + d) % Ticks IN
             /\ tcb' = [tcb EXCEPT ![t] = DelayedUntil(e, wake)]
             /\ kernel' = [kernel EXCEPT !.unblock =
                             IF wake >= kernel.tick /\ wake < @ THEN wake ELSE @]
    BY <1>8
  <2>2. PICK wake : wake = (kernel.tick + d) % Ticks
    OBVIOUS
  <2>3. PICK list : list = IF wake < kernel.tick THEN Later ELSE kernel.now
    OBVIOUS
  <2>4. PICK next : next = IF wake >= kernel.tick /\ wake < kernel.unblock THEN wake ELSE kernel.unblock
    OBVIOUS
  <2>5. wake \in 0..Forever
    BY <2>2, Typed DEF TasksAssumption, Forever
  <2>6. /\ tcb' = [tcb EXCEPT ![t] = B(list, wake)]
        /\ kernel' = [kernel EXCEPT !.unblock = next]
    BY <1>10, <2>1, <2>2, <2>3, <2>4
  <2>7. /\ list \in Delayed /\ list \in StateLists /\ next \in 0..Forever /\ next <= kernel.unblock
        /\ list = kernel.now => next <= wake
    BY <1>6, <2>3, <2>4, <2>5, Typed
  <2>8. /\ kernel' \in Globals /\ kernel'.suspended = kernel.suspended /\ kernel'.tasks = kernel.tasks
        /\ kernel'.started = kernel.started /\ kernel'.now = kernel.now /\ kernel'.unblock = next
    BY <2>6, <2>7, Typed DEF Globals
  <2>9. /\ kernel'.unblock <= kernel.unblock
        /\ list = kernel.now => kernel'.unblock <= wake
    BY <2>7, <2>8
  <2>. QED BY <1>7, <2>5, <2>6, <2>7, <2>8, <2>9
<1>9. CASE /\ on # "time"
           /\ tcb' = [tcb EXCEPT ![t] = [e EXCEPT !.state = "suspended"]]
           /\ UNCHANGED kernel
  <2>1. kernel.unblock <= kernel.unblock /\ "suspended" # kernel.now
    BY Typed DEF Delayed
  <2>. QED BY <1>3, <1>5, <1>6, <1>7, <1>9, <2>1, Typed
<1>. QED BY <1>2, <1>8, <1>9 DEF e, t

\* A task that is woken is ready, or pending while the scheduler is suspended.
LEMMA WakesKeeps == ASSUME TasksAssumption, Inv, NEW t \in Task, Wakes(t) PROVE Inv'
<1>1. /\ kernel.started /\ does[t] = "blocked" /\ image' = image /\ current' = current
      /\ kernel' = kernel /\ does' = [does EXCEPT ![t] = "runnable"]
  BY DEF Wakes
<1>2. kernel' \in Globals /\ kernel'.unblock <= kernel.unblock /\ "runnable" \in Activities
  BY <1>1, Typed DEF Activities
<1>3. CASE kernel.suspended = 0
  <2> DEFINE b == [tcb[t] EXCEPT !.state = "ready", !.event = None, !.waiting = {}, !.wake = 0]
  <2>1. tcb' = [tcb EXCEPT ![t] = b]
    BY <1>3 DEF Wakes
  <2>2. b \in Tcb
    BY Typed, Blocked
  <2>3. b.state = "ready" /\ b.event = None /\ b.waiting = {} /\ b.run = tcb[t].run
    BY Typed DEF Tcb
  <2> HIDE DEF b
  <2>4. Shape("runnable", b, kernel.suspended) /\ b.state # kernel.now
    BY <2>3, Typed DEF Shape, Delayed
  <2>. QED BY <1>1, <1>2, <2>1, <2>2, <2>3, <2>4, OneTaskMoves
<1>4. CASE kernel.suspended # 0
  <2> DEFINE b == [tcb[t] EXCEPT !.event = "pending", !.waiting = {}]
  <2>1. tcb' = [tcb EXCEPT ![t] = b]
    BY <1>4 DEF Wakes
  <2>2. b \in Tcb
    BY Typed, Blocked
  <2>3. b.event = "pending" /\ b.waiting = {} /\ b.run = tcb[t].run
        /\ b.state = tcb[t].state /\ b.wake = tcb[t].wake
    BY Typed DEF Tcb
  <2> HIDE DEF b
  <2>4. kernel.suspended = 1
    BY <1>4, Typed
  <2>5. b.state \in Delayed \cup {"suspended"}
    BY <1>1, <2>3, Typed DEF Shape
  <2>6. Shape("runnable", b, kernel.suspended)
    BY <2>3, <2>4, <2>5 DEF Shape
  <2>7. b.state = kernel.now => kernel'.unblock <= b.wake
    BY <1>1, <2>3 DEF Inv, Deadlined
  <2>. QED BY <1>1, <1>2, <2>1, <2>2, <2>3, <2>6, <2>7, OneTaskMoves
<1>. QED BY <1>3, <1>4

\* A task is suspended, also one that runs.
LEMMA SuspendKeeps == ASSUME TasksAssumption, Inv, NEW t \in Task, Suspend(t) PROVE Inv'
<1> DEFINE r == IF image.smp /\ Runs(t) THEN Yielding ELSE tcb[t].run
           b == [tcb[t] EXCEPT !.state = "suspended", !.event = None, !.waiting = {}, !.wake = 0,
                               !.run = r]
<1>1. /\ kernel.started /\ does[t] \in {"runnable", "blocked"} /\ image' = image /\ current' = current
      /\ does' = [does EXCEPT ![t] = "suspended"]
      /\ tcb' = [tcb EXCEPT ![t] = b]
      /\ kernel' = [kernel EXCEPT !.unblock = Deadline(tcb', kernel.now)]
  BY DEF Suspend, Going
<1>2. b \in Tcb /\ b.state = "suspended" /\ b.event = None /\ b.waiting = {} /\ b.run = r
  BY Typed DEF Tcb, StateLists
<1> HIDE DEF b
<1>3. tcb' \in [Task -> Tcb]
  BY <1>1, <1>2 DEF Inv, TypeOK
<1>4. Deadline(tcb', kernel.now) \in 0..Forever
  BY <1>3, DeadlineIsLeast
<1>5. /\ kernel' \in Globals /\ kernel'.suspended = kernel.suspended
      /\ kernel'.started = kernel.started /\ kernel'.now = kernel.now
      /\ kernel'.unblock = Deadline(tcb', kernel.now) /\ kernel'.tasks = kernel.tasks
  BY <1>1, <1>4, Typed DEF Globals
<1>6. Shape("suspended", b, kernel.suspended) /\ "suspended" \in Activities
  BY <1>2 DEF Shape, Activities
<1>. QED BY <1>1, <1>2, <1>5, <1>6, OneTaskMoves

\* A suspended task is resumed.
LEMMA ResumeKeeps == ASSUME TasksAssumption, Inv, NEW t \in Task, Resume(t) PROVE Inv'
<1> DEFINE b == [tcb[t] EXCEPT !.state = "ready"]
<1>1. /\ kernel.started /\ does[t] = "suspended" /\ image' = image /\ current' = current
      /\ kernel' = kernel /\ does' = [does EXCEPT ![t] = "runnable"]
      /\ tcb' = [tcb EXCEPT ![t] = b]
  BY DEF Resume, Going
<1>2. b \in Tcb /\ b.state = "ready" /\ b.event = None /\ b.waiting = {} /\ b.run = tcb[t].run
  BY <1>1, Typed DEF Tcb, StateLists, Shape
<1> HIDE DEF b
<1>3. Shape("runnable", b, kernel.suspended) /\ "runnable" \in Activities /\ b.state # kernel.now
  BY <1>2, Typed DEF Shape, Activities, Delayed
<1>4. kernel' \in Globals /\ kernel'.unblock <= kernel.unblock
  BY <1>1, Typed
<1>. QED BY <1>1, <1>2, <1>3, <1>4, OneTaskMoves

\* A task that is deleted is freed, unless it runs.
LEMMA DeleteKeeps == ASSUME TasksAssumption, Inv, NEW t \in Task, Delete(t) PROVE Inv'
<1> DEFINE r == IF image.smp THEN Yielding ELSE tcb[t].run
           b == IF Runs(t) THEN [tcb[t] EXCEPT !.state = "termination", !.event = None,
                                               !.waiting = {}, !.run = r]
                ELSE Fresh
           a == IF Runs(t) THEN "deleted" ELSE "absent"
           n == IF Runs(t) THEN kernel.tasks ELSE kernel.tasks - 1
<1>1. /\ kernel.started /\ does[t] # "absent" /\ image' = image /\ current' = current
      /\ does' = [does EXCEPT ![t] = a]
      /\ tcb' = [tcb EXCEPT ![t] = b]
      /\ kernel' = [kernel EXCEPT !.unblock = Deadline(tcb', kernel.now), !.tasks = n]
  BY DEF Delete, Going
<1>2. ASSUME Runs(t)
      PROVE  /\ b \in Tcb /\ Shape("deleted", b, kernel.suspended)
             /\ b.run = tcb[t].run \/ (b.run = Yielding /\ image.smp /\ Runs(t))
  <2>1. b \in Tcb /\ b.state = "termination" /\ b.event = None /\ b.waiting = {} /\ b.run = r
    BY <1>2, Typed DEF Tcb, StateLists
  <2> HIDE DEF b
  <2>2. Shape("deleted", b, kernel.suspended)
    BY <2>1 DEF Shape
  <2>. QED BY <1>2, <2>1, <2>2
<1>3. ASSUME ~Runs(t)
      PROVE  b \in Tcb /\ Shape("absent", b, kernel.suspended) /\ b.run = tcb[t].run
  <2>1. b = Fresh /\ b \in Tcb
    BY <1>3, Blocked, Typed
  <2>2. Fresh.run = tcb[t].run
    BY <1>3, Typed, OffCore DEF Fresh
  <2>. QED BY <1>3, <2>1, <2>2 DEF Shape, Fresh
<1>4. /\ b \in Tcb /\ Shape(a, b, kernel.suspended)
      /\ b.run = tcb[t].run \/ (b.run = Yielding /\ image.smp /\ Runs(t))
  <2> HIDE DEF b
  <2>. QED BY <1>2, <1>3
<1>5. n \in Nat
  <2>1. kernel.tasks # 0 /\ kernel.tasks \in Nat
    BY <1>1, TasksCounted, Typed DEF Inv, Counted
  <2>. QED BY <2>1
<1> HIDE DEF b, n
<1>6. Deadline(tcb', kernel.now) \in 0..Forever
  <2>1. tcb' \in [Task -> Tcb]
    BY <1>1, <1>4 DEF Inv, TypeOK
  <2>. QED BY <2>1, DeadlineIsLeast
<1>7. /\ kernel' \in Globals /\ kernel'.suspended = kernel.suspended
      /\ kernel'.started = kernel.started /\ kernel'.now = kernel.now
      /\ kernel'.unblock = Deadline(tcb', kernel.now) /\ kernel'.tasks = n
  BY <1>1, <1>5, <1>6, Typed DEF Globals
<1>8. a \in Activities /\ (Runs(t) => a # "absent")
  BY DEF Activities
<1>9. \/ (does[t] = "absent") = (a = "absent") /\ kernel'.tasks = kernel.tasks
      \/ does[t] # "absent" /\ a = "absent" /\ kernel'.tasks = kernel.tasks - 1
  BY <1>1, <1>7 DEF n
<1> HIDE DEF a
<1>. QED BY <1>1, <1>4, <1>7, <1>8, <1>9, OneTaskMoves

\* The idle task frees a deleted task that left its core.
LEMMA ReapKeeps == ASSUME TasksAssumption, Inv, NEW t \in Task, Reap(t) PROVE Inv'
<1>1. /\ kernel.started /\ does[t] = "deleted" /\ ~Runs(t) /\ image' = image /\ current' = current
      /\ does' = [does EXCEPT ![t] = "absent"]
      /\ tcb' = [tcb EXCEPT ![t] = Fresh]
      /\ kernel' = [kernel EXCEPT !.tasks = kernel.tasks - 1]
  BY DEF Reap, Going
<1>2. Fresh \in Tcb /\ Fresh.run = tcb[t].run /\ Shape("absent", Fresh, kernel.suspended)
  BY <1>1, Blocked, Typed, OffCore DEF Fresh, Shape
<1>3. kernel.tasks - 1 \in Nat
  <2>1. kernel.tasks # 0 /\ kernel.tasks \in Nat
    BY <1>1, TasksCounted, Typed DEF Inv, Counted
  <2>. QED BY <2>1
<1>4. /\ kernel' \in Globals /\ kernel'.suspended = kernel.suspended
      /\ kernel'.started = kernel.started /\ kernel'.now = kernel.now
      /\ kernel'.unblock = kernel.unblock /\ kernel'.tasks = kernel.tasks - 1
  BY <1>1, <1>3, Typed DEF Globals
<1>5. kernel'.unblock <= kernel.unblock /\ Fresh.state # kernel.now /\ "absent" \in Activities
  BY <1>4, Typed DEF Fresh, Delayed, TasksAssumption, StateLists, Activities
<1>. QED BY <1>1, <1>2, <1>4, <1>5, OneTaskMoves

\* A kernel function that creates and frees no task.
LEMMA NoneFreed ==
  ASSUME TasksAssumption, Inv, image' = image,
         tcb' \in [Task -> Tcb], does' \in [Task -> Activities], kernel' \in Globals,
         current' \in [Cores -> Task \cup {None}],
         \A t \in Task : Shape(does'[t], tcb'[t], kernel'.suspended),
         \A t \in Task : Placed(t)',
         Unstarted(tcb', kernel'), Deadlined(tcb', kernel'),
         kernel'.tasks = kernel.tasks,
         \A t \in Task : (does'[t] = "absent") <=> (does[t] = "absent")
  PROVE  Inv'
<1>1. Cores' = Cores /\ NotifySlots' = NotifySlots
  BY DEF Cores, NotifySlots
<1>2. TypeOK'
  BY <1>1 DEF Inv, TypeOK
<1>3. Shapes'
  BY <1>1 DEF Shapes, Shape
<1>4. Counted'
  <2>1. {t \in Task : does'[t] # "absent"} = {t \in Task : does[t] # "absent"}
    OBVIOUS
  <2>. QED BY <2>1 DEF Inv, Counted
<1>. QED BY <1>2, <1>3, <1>4 DEF Inv

\* The scheduler starts, is suspended, or owes a tick.
LEMMA GlobalsKeep ==
  ASSUME TasksAssumption, Inv, Start \/ PendTick \/ SuspendAll
  PROVE  Inv'
<1>1. image' = image /\ tcb' = tcb /\ current' = current /\ does' = does
  BY DEF Start, PendTick, SuspendAll
<1>2. /\ tcb' \in [Task -> Tcb] /\ does' \in [Task -> Activities]
      /\ current' \in [Cores -> Task \cup {None}]
  BY <1>1 DEF Inv, TypeOK
<1>3. \A t \in Task : Placed(t)'
  BY <1>1, Typed, PlaceKept DEF Placed
<1>4. ASSUME kernel' \in Globals, kernel'.tasks = kernel.tasks,
             kernel'.suspended \in {kernel.suspended, 1},
             Unstarted(tcb, kernel'), Deadlined(tcb, kernel')
      PROVE  Inv'
  <2>1. \A t \in Task : Shape(does'[t], tcb'[t], kernel'.suspended)
    BY <1>1, <1>4, Typed DEF Shape
  <2>. QED BY <1>1, <1>2, <1>3, <1>4, <2>1, NoneFreed
<1>5. CASE Start
  <2>1. ~kernel.started /\ kernel' = [kernel EXCEPT !.started = TRUE, !.unblock = Forever]
    BY <1>5 DEF Start
  <2>2. /\ kernel' \in Globals /\ kernel'.tasks = kernel.tasks /\ kernel'.started
        /\ kernel'.suspended = kernel.suspended /\ kernel'.now \in Delayed
    <3>1. kernel \in Globals /\ Forever \in 0..Forever
      BY Typed
    <3>2. kernel' \in Globals
      BY <2>1, <3>1 DEF Globals
    <3>3. kernel'.tasks = kernel.tasks /\ kernel'.suspended = kernel.suspended /\ kernel'.now = kernel.now
      BY <2>1, <3>1 DEF Globals
    <3>4. kernel'.started
      BY <2>1, <3>1 DEF Globals
    <3>. QED BY <3>2, <3>3, <3>4, Typed
  <2>3. \A t \in Task : tcb[t].state # kernel'.now
    BY <2>1, <2>2 DEF Inv, Unstarted, Delayed, TasksAssumption, StateLists
  <2>. QED BY <1>4, <2>2, <2>3 DEF Unstarted, Deadlined
<1>6. CASE PendTick
  <2>1. /\ kernel.pended < MaxPended /\ kernel' = [kernel EXCEPT !.pended = kernel.pended + 1]
        /\ kernel.pended \in 0..MaxPended
    BY <1>6, Typed DEF PendTick, Globals
  <2>2. kernel.pended + 1 \in 0..MaxPended
    BY <2>1 DEF TasksAssumption
  <2>3. /\ kernel' \in Globals /\ kernel'.tasks = kernel.tasks
        /\ kernel'.suspended = kernel.suspended /\ kernel'.now = kernel.now
        /\ kernel'.started = kernel.started /\ kernel'.unblock = kernel.unblock
    BY <2>1, <2>2, Typed DEF Globals
  <2>. QED BY <1>4, <2>3 DEF Inv, Unstarted, Deadlined
<1>7. CASE SuspendAll
  <2>1. kernel.started /\ kernel' = [kernel EXCEPT !.suspended = 1]
    BY <1>7 DEF SuspendAll, Going
  <2>2. /\ kernel' \in Globals /\ kernel'.tasks = kernel.tasks
        /\ kernel'.suspended = 1 /\ kernel'.now = kernel.now
        /\ kernel'.started = kernel.started /\ kernel'.unblock = kernel.unblock
    <3>1. kernel \in Globals
      BY Typed
    <3>2. kernel' \in Globals
      BY <2>1, <3>1 DEF Globals
    <3>. QED BY <2>1, <3>1, <3>2 DEF Globals
  <2>. QED BY <1>4, <2>1, <2>2 DEF Inv, Unstarted, Deadlined
<1>. QED BY <1>5, <1>6, <1>7

\* A task on the ready lists is runnable and waits for nothing but a core.
LEMMA ReadyIsRunnable ==
  ASSUME TasksAssumption, Inv, NEW t \in Task, tcb[t].state = "ready"
  PROVE  does[t] = "runnable" /\ tcb[t].event = None
<1>1. Shape(does[t], tcb[t], kernel.suspended) /\ does[t] \in Activities
  BY Typed
<1>2. None # "ready"
  BY DEF TasksAssumption, StateLists
<1>. QED BY <1>1, <1>2 DEF Shape, Activities, Delayed

\* A core takes another task.
LEMMA SwitchKeeps ==
  ASSUME TasksAssumption, Inv, NEW c \in Cores, Switch(c)
  PROVE  Inv'
<1>1. PICK t \in {u \in Task : tcb[u].state = "ready" /\ ~Runs(u)} \cup {None} :
        /\ t # current[c]
        /\ tcb' = [u \in Task |->
             IF u = t THEN [tcb[u] EXCEPT !.run = IF image.smp THEN c ELSE NotRunning,
                                          !.waiting = {}]
             ELSE IF u = current[c] THEN [tcb[u] EXCEPT !.run = NotRunning]
             ELSE tcb[u]]
        /\ current' = [current EXCEPT ![c] = t]
  BY DEF Switch
<1>2. image' = image /\ kernel' = kernel /\ does' = does /\ Cores' = Cores
  BY DEF Switch, Cores
<1> DEFINE r == IF image.smp THEN c ELSE NotRunning
<1>3. r \in {NotRunning, Yielding, 0, 1} /\ c \in {0, 1} /\ (~image.smp => c = 0)
  BY DEF Cores
<1>4. \A b \in Tcb : /\ [b EXCEPT !.run = r, !.waiting = {}] \in Tcb
                     /\ [b EXCEPT !.run = r, !.waiting = {}].run = r
                     /\ [b EXCEPT !.run = r, !.waiting = {}].waiting = {}
                     /\ [b EXCEPT !.run = r, !.waiting = {}].state = b.state
                     /\ [b EXCEPT !.run = r, !.waiting = {}].event = b.event
                     /\ [b EXCEPT !.run = r, !.waiting = {}].wake = b.wake
  BY <1>3 DEF Tcb, NotRunning, Yielding
<1>5. \A b \in Tcb : /\ [b EXCEPT !.run = NotRunning] \in Tcb
                     /\ [b EXCEPT !.run = NotRunning].run = NotRunning
                     /\ [b EXCEPT !.run = NotRunning].waiting = b.waiting
                     /\ [b EXCEPT !.run = NotRunning].state = b.state
                     /\ [b EXCEPT !.run = NotRunning].event = b.event
                     /\ [b EXCEPT !.run = NotRunning].wake = b.wake
  BY DEF Tcb, NotRunning, Yielding
<1>6. \A u \in Task :
        /\ u = t => tcb'[u] = [tcb[u] EXCEPT !.run = r, !.waiting = {}]
        /\ u # t /\ u = current[c] => tcb'[u] = [tcb[u] EXCEPT !.run = NotRunning]
        /\ u # t /\ u # current[c] => tcb'[u] = tcb[u]
  BY <1>1
<1> HIDE DEF r
<1>7. \A u \in Task :
        /\ tcb'[u] \in Tcb /\ tcb'[u].state = tcb[u].state /\ tcb'[u].event = tcb[u].event
        /\ tcb'[u].wake = tcb[u].wake
        /\ tcb'[u].waiting = tcb[u].waiting \/ (u = t /\ tcb'[u].waiting = {})
        /\ u = t => tcb'[u].run = r
        /\ u # t /\ u = current[c] => tcb'[u].run = NotRunning
        /\ u # t /\ u # current[c] => tcb'[u].run = tcb[u].run
  <2> SUFFICES ASSUME NEW u \in Task
               PROVE  /\ tcb'[u] \in Tcb /\ tcb'[u].state = tcb[u].state /\ tcb'[u].event = tcb[u].event
                      /\ tcb'[u].wake = tcb[u].wake
                      /\ tcb'[u].waiting = tcb[u].waiting \/ (u = t /\ tcb'[u].waiting = {})
                      /\ u = t => tcb'[u].run = r
                      /\ u # t /\ u = current[c] => tcb'[u].run = NotRunning
                      /\ u # t /\ u # current[c] => tcb'[u].run = tcb[u].run
    OBVIOUS
  <2>1. tcb[u] \in Tcb
    BY Typed
  <2>2. CASE u = t
    BY <1>4, <1>6, <2>1, <2>2
  <2>3. CASE u # t /\ u = current[c]
    BY <1>5, <1>6, <2>1, <2>3
  <2>4. CASE u # t /\ u # current[c]
    BY <1>6, <2>1, <2>4
  <2>. QED BY <2>2, <2>3, <2>4
<1>8. tcb' \in [Task -> Tcb] /\ current' \in [Cores -> Task \cup {None}] /\ does' \in [Task -> Activities]
  <2>1. DOMAIN tcb' = Task /\ tcb' = [u \in Task |-> tcb'[u]]
    BY <1>1
  <2>. QED BY <1>1, <1>2, <1>7, <2>1 DEF Inv, TypeOK
<1>9. \A u \in Task : Shape(does'[u], tcb'[u], kernel'.suspended)
  <2> SUFFICES ASSUME NEW u \in Task PROVE Shape(does'[u], tcb'[u], kernel'.suspended)
    OBVIOUS
  <2>1. CASE u # t
    BY <1>2, <1>7, <2>1, Typed DEF Shape
  <2>2. CASE u = t
    <3>1. tcb[u].state = "ready"
      BY <1>1, <2>2 DEF TasksAssumption
    <3>2. does[u] = "runnable" /\ tcb[u].event = None
      BY <3>1, ReadyIsRunnable
    <3>3. tcb'[u].waiting \subseteq NotifySlots
      BY <1>7, Typed DEF Shape
    <3>. QED BY <1>2, <1>7, <3>1, <3>2, <3>3 DEF Shape
  <2>. QED BY <2>1, <2>2
<1>10. \A u \in Task : Placed(u)'
  <2> SUFFICES ASSUME NEW u \in Task PROVE Placed(u)'
    OBVIOUS
  <2>1. Placed(u) /\ current \in [Cores -> Task \cup {None}] /\ image.smp \in BOOLEAN
    BY Typed DEF Inv, TypeOK
  <2>2. current'[c] = t /\ \A d \in Cores \ {c} : current'[d] = current[d]
    BY <1>1, <2>1
  <2>3. CASE u = t
    <3>1. ~Runs(u) /\ does[u] = "runnable"
      BY <1>1, <2>3, ReadyIsRunnable DEF TasksAssumption
    <3>2. \A d \in Cores : current'[d] = u <=> d = c
      BY <2>2, <2>3, <3>1 DEF Runs
    <3>3. tcb'[u].run = r /\ c # NotRunning
      BY <1>3, <1>7, <2>3 DEF NotRunning
    <3>. QED BY <1>2, <1>3, <2>1, <3>1, <3>2, <3>3 DEF Placed, Runs, r
  <2>4. CASE u # t /\ u = current[c]
    <3>1. \A d \in Cores : current'[d] # u
      BY <2>1, <2>2, <2>4 DEF Placed
    <3>2. tcb'[u].run = NotRunning /\ NotRunning \notin {0, 1}
      BY <1>7, <2>4 DEF NotRunning
    <3>. QED BY <1>2, <3>1, <3>2 DEF Placed, Runs
  <2>5. CASE u # t /\ u # current[c]
    <3>1. \A d \in Cores : current'[d] = u <=> current[d] = u
      BY <2>2, <2>5
    <3>2. tcb'[u].run = tcb[u].run
      BY <1>7, <2>5
    <3>3. image.smp => {0, 1} \subseteq Cores
      BY DEF Cores
    <3>. QED BY <1>2, <2>1, <3>1, <3>2, <3>3 DEF Placed, Runs
  <2>. QED BY <2>3, <2>4, <2>5
<1>11. Unstarted(tcb', kernel') /\ Deadlined(tcb', kernel')
  BY <1>2, <1>7 DEF Inv, Unstarted, Deadlined
<1>12. kernel' \in Globals /\ kernel'.tasks = kernel.tasks
  BY <1>2, Typed
<1>. QED BY <1>2, <1>8, <1>9, <1>10, <1>11, <1>12, NoneFreed

\* Tasks that become ready where they are: those due at a tick, and those that
\* were pending.
LEMMA SomeAwake ==
  ASSUME TasksAssumption, Inv, NEW woken \in SUBSET Task,
         image' = image, current' = current,
         tcb' = [t \in Task |-> IF t \in woken
                                THEN [tcb[t] EXCEPT !.state = "ready", !.event = None, !.wake = 0]
                                ELSE tcb[t]],
         does' = [t \in Task |-> IF t \in woken THEN "runnable" ELSE does[t]],
         \A t \in woken : does[t] # "absent",
         \A t \in Task \ woken : Shape(does[t], tcb[t], kernel'.suspended),
         kernel' \in Globals, kernel'.started, kernel'.tasks = kernel.tasks,
         \/ kernel'.unblock = Deadline(tcb', kernel'.now)
         \/ \A t \in Task \ woken : tcb[t].state = kernel'.now => kernel'.unblock <= tcb[t].wake
  PROVE  Inv'
<1>1. \A b \in Tcb : LET d == [b EXCEPT !.state = "ready", !.event = None, !.wake = 0]
                     IN /\ d \in Tcb /\ d.state = "ready" /\ d.event = None
                        /\ d.waiting = b.waiting /\ d.run = b.run
  <2>1. 0 \in 0..Forever
    BY Typed
  <2>. QED BY <2>1 DEF Tcb, StateLists
<1>2. \A t \in Task :
        /\ t \in woken => /\ tcb'[t] \in Tcb /\ tcb'[t].state = "ready" /\ tcb'[t].event = None
                          /\ tcb'[t].waiting = tcb[t].waiting /\ tcb'[t].run = tcb[t].run
                          /\ does'[t] = "runnable"
        /\ t \notin woken => tcb'[t] = tcb[t] /\ does'[t] = does[t]
  BY <1>1, Typed
<1>3. /\ tcb' \in [Task -> Tcb] /\ does' \in [Task -> Activities]
      /\ current' \in [Cores -> Task \cup {None}]
  <2>1. \A t \in Task : tcb'[t] \in Tcb /\ does'[t] \in Activities
    BY <1>2, Typed DEF Activities
  <2>2. tcb' = [t \in Task |-> tcb'[t]] /\ does' = [t \in Task |-> does'[t]]
    OBVIOUS
  <2>. QED BY <2>1, <2>2 DEF Inv, TypeOK
<1>4. \A t \in Task : Shape(does'[t], tcb'[t], kernel'.suspended)
  <2> SUFFICES ASSUME NEW t \in Task PROVE Shape(does'[t], tcb'[t], kernel'.suspended)
    OBVIOUS
  <2>1. CASE t \in woken
    BY <1>2, <2>1, Typed DEF Shape
  <2>2. CASE t \notin woken
    BY <1>2, <2>2
  <2>. QED BY <2>1, <2>2
<1>5. \A t \in Task : (does'[t] = "absent") <=> (does[t] = "absent")
  BY <1>2
<1>6. \A t \in Task : Placed(t)'
  <2> SUFFICES ASSUME NEW t \in Task PROVE Placed(t)'
    OBVIOUS
  <2>1. Placed(t) /\ tcb'[t].run = tcb[t].run
    BY <1>2, Typed
  <2>2. Runs(t) => does'[t] # "absent"
    BY <1>5, <2>1 DEF Placed
  <2>. QED BY <2>1, <2>2, PlaceKept
<1>7. Deadlined(tcb', kernel')
  <2>1. CASE kernel'.unblock = Deadline(tcb', kernel'.now)
    <3>1. \A t \in Task : tcb'[t].state = kernel'.now => Deadline(tcb', kernel'.now) <= tcb'[t].wake
      BY <1>3, DeadlineIsLeast
    <3>. QED BY <2>1, <3>1 DEF Deadlined
  <2>2. CASE \A t \in Task \ woken : tcb[t].state = kernel'.now => kernel'.unblock <= tcb[t].wake
    <3>1. kernel'.now # "ready"
      BY DEF Globals
    <3>. QED BY <1>2, <2>2, <3>1 DEF Deadlined
  <2>. QED BY <2>1, <2>2
<1>. QED BY <1>3, <1>4, <1>5, <1>6, <1>7, NoneFreed DEF Unstarted

\* A tick wakes the tasks that are due, also one that turns the counter over.
LEMMA TickKeeps == ASSUME TasksAssumption, Inv, Tick PROVE Inv'
<1>a. PICK tick : tick = (kernel.tick + 1) % Ticks
  OBVIOUS
<1>b. PICK now : now = IF tick = 0 THEN Later ELSE kernel.now
  OBVIOUS
<1>c. PICK unblock : unblock = IF tick = 0 THEN Deadline(tcb, now) ELSE kernel.unblock
  OBVIOUS
<1>d. PICK due : due = IF tick < unblock THEN {} ELSE {t \in OnList(now) : tcb[t].wake <= tick}
  OBVIOUS
<1>1. /\ tcb' = [t \in Task |-> IF t \in due THEN [tcb[t] EXCEPT !.state = "ready", !.event = None, !.wake = 0]
                                ELSE tcb[t]]
      /\ does' = [t \in Task |-> IF t \in due THEN "runnable" ELSE does[t]]
      /\ kernel' = [kernel EXCEPT !.tick = tick, !.now = now,
                      !.unblock = IF tick < unblock THEN unblock ELSE Deadline(tcb', now)]
  BY <1>a, <1>b, <1>c, <1>d DEF Tick
<1>2. kernel.started /\ kernel.suspended = 0 /\ image' = image /\ current' = current
  BY DEF Tick, Going
<1>3. tick \in 0..Forever
  <2>1. kernel.tick \in Nat
    BY Typed DEF Globals
  <2>2. Ticks \in Nat \ {0}
    BY DEF TasksAssumption
  <2>. QED BY <1>a, <2>1, <2>2 DEF Forever
<1>4. now \in Delayed /\ unblock \in 0..Forever /\ tcb \in [Task -> Tcb]
  <2>1. now \in Delayed
    BY <1>b, Typed DEF Globals, Later, Delayed
  <2>2. tcb \in [Task -> Tcb]
    BY DEF Inv, TypeOK
  <2>3. Deadline(tcb, now) \in 0..Forever
    BY <2>2, DeadlineIsLeast
  <2>4. kernel.unblock \in 0..Forever
    BY Typed DEF Globals
  <2>. QED BY <1>c, <2>1, <2>2, <2>3, <2>4
<1>5. \A t \in Task : tcb[t].state = now => unblock <= tcb[t].wake
  <2>1. CASE tick = 0
    BY <1>c, <1>4, <2>1, DeadlineIsLeast
  <2>2. CASE tick # 0
    BY <1>b, <1>c, <1>2, <2>2 DEF Inv, Deadlined
  <2>. QED BY <2>1, <2>2
<1>6. due \in SUBSET Task /\ \A t \in due : tcb[t].state = now
  BY <1>d, <1>4 DEF OnList, Delayed
<1>7. \A t \in due : does[t] # "absent"
  BY <1>4, <1>6, Typed DEF Shape, Delayed, TasksAssumption, StateLists
<1>8. tcb' \in [Task -> Tcb]
  <2>1. \A b \in Tcb : [b EXCEPT !.state = "ready", !.event = None, !.wake = 0] \in Tcb
    BY Blocked
  <2>. QED BY <1>1, <1>4, <2>1
<1>9. PICK next : next = IF tick < unblock THEN unblock ELSE Deadline(tcb', now)
  OBVIOUS
<1>10. next \in 0..Forever
  <2>1. Deadline(tcb', now) \in 0..Forever
    BY <1>8, DeadlineIsLeast
  <2>. QED BY <1>4, <1>9, <2>1
<1>11. /\ kernel' \in Globals /\ kernel'.started = kernel.started /\ kernel'.tasks = kernel.tasks
       /\ kernel'.now = now /\ kernel'.unblock = next /\ kernel'.suspended = kernel.suspended
  <2>1. kernel' = [kernel EXCEPT !.tick = tick, !.now = now, !.unblock = next]
    BY <1>1, <1>9
  <2>. QED BY <1>3, <1>4, <1>10, <2>1, Typed DEF Globals, Delayed
<1>12. \A t \in Task \ due : Shape(does[t], tcb[t], kernel'.suspended)
  BY <1>11, Typed
<1>13. \/ kernel'.unblock = Deadline(tcb', kernel'.now)
       \/ \A t \in Task \ due : tcb[t].state = kernel'.now => kernel'.unblock <= tcb[t].wake
  BY <1>5, <1>9, <1>11
<1>. QED BY <1>1, <1>2, <1>6, <1>7, <1>11, <1>12, <1>13, SomeAwake

\* The scheduler goes on: the pending tasks become ready.
LEMMA ResumeAllKeeps == ASSUME TasksAssumption, Inv, ResumeAll PROVE Inv'
<1> DEFINE woken == {t \in Task : tcb[t].event = "pending"}
<1>1. /\ kernel.suspended = 1 /\ image' = image /\ current' = current /\ does' = does
      /\ tcb' = [t \in Task |-> IF tcb[t].event = "pending"
                                THEN [tcb[t] EXCEPT !.state = "ready", !.event = None, !.wake = 0]
                                ELSE tcb[t]]
      /\ kernel' = [kernel EXCEPT !.suspended = 0, !.pended = 0,
                      !.unblock = IF woken # {} THEN Deadline(tcb', kernel.now) ELSE kernel.unblock]
  BY DEF ResumeAll, OnList
<1>2. kernel.started
  <2>1. ~kernel.started => kernel.suspended = 0
    BY Zenon DEF Inv, Unstarted
  <2>2. kernel.suspended = 1
    BY <1>1
  <2>. QED BY <2>1, <2>2
<1>3. \A t \in woken : does[t] = "runnable"
  BY Typed DEF Shape, Activities, TasksAssumption
<1>4. does' = [t \in Task |-> IF t \in woken THEN "runnable" ELSE does[t]]
  BY <1>1, <1>3 DEF Inv, TypeOK
<1>5. tcb' = [t \in Task |-> IF t \in woken
                             THEN [tcb[t] EXCEPT !.state = "ready", !.event = None, !.wake = 0]
                             ELSE tcb[t]]
  BY <1>1
<1>6. tcb' \in [Task -> Tcb]
  <2>1. \A b \in Tcb : [b EXCEPT !.state = "ready", !.event = None, !.wake = 0] \in Tcb
    BY Blocked
  <2>. QED BY <1>1, <2>1, Typed
<1>7. PICK next : next = IF woken # {} THEN Deadline(tcb', kernel.now) ELSE kernel.unblock
  OBVIOUS
<1>8. next \in 0..Forever
  <2>1. Deadline(tcb', kernel.now) \in 0..Forever
    BY <1>6, DeadlineIsLeast
  <2>. QED BY <1>7, <2>1, Typed
<1>9. /\ kernel' \in Globals /\ kernel'.started = kernel.started /\ kernel'.tasks = kernel.tasks
      /\ kernel'.now = kernel.now /\ kernel'.unblock = next /\ kernel'.suspended = 0
  <2>1. kernel' = [kernel EXCEPT !.suspended = 0, !.pended = 0, !.unblock = next]
    BY <1>1, <1>7
  <2>2. 0 \in 0..1 /\ 0 \in 0..MaxPended
    BY DEF TasksAssumption
  <2>. QED BY <1>8, <2>1, <2>2, Typed DEF Globals
<1>10. \A t \in Task \ woken : Shape(does[t], tcb[t], kernel'.suspended)
  BY <1>9, Typed DEF Shape
<1>11. \/ kernel'.unblock = Deadline(tcb', kernel'.now)
       \/ \A t \in Task \ woken : tcb[t].state = kernel'.now => kernel'.unblock <= tcb[t].wake
  BY <1>2, <1>7, <1>9 DEF Inv, Deadlined
<1> HIDE DEF woken
<1>12. woken \in SUBSET Task /\ \A t \in woken : does[t] # "absent"
  BY <1>3 DEF woken
<1>. QED BY <1>1, <1>2, <1>4, <1>5, <1>9, <1>10, <1>11, <1>12, SomeAwake

-----------------------------------------------------------------------------
\* A kernel starts without tasks.
LEMMA InvInit == ASSUME TasksAssumption, Init PROVE Inv
<1>1. TypeOK
  <2>1. Fresh \in Tcb
    <3>1. 0 \in 0..Forever
      BY DEF Forever, TasksAssumption
    <3>. QED BY <3>1 DEF Fresh, Tcb
  <2>2. kernel \in Globals
    <3>1. 0 \in 0..Forever /\ 0 \in 0..MaxPended
      BY DEF Forever, TasksAssumption
    <3>. QED BY <3>1 DEF Init, Globals
  <2>. QED BY <2>1, <2>2 DEF Init, TypeOK, Activities
<1>2. Shapes
  BY DEF Init, Shapes, Shape, Fresh
<1>3. \A t \in Task : Placed(t)
  BY DEF Init, Placed, Runs, Fresh, TasksAssumption, NotRunning
<1>4. Unstarted(tcb, kernel) /\ Deadlined(tcb, kernel)
  BY DEF Init, Unstarted, Deadlined, Fresh
<1>5. Counted
  <2>1. {t \in Task : does[t] # "absent"} = {}
    BY DEF Init
  <2>. QED BY <2>1, FS_EmptySet DEF Init, Counted
<1>. QED BY <1>1, <1>2, <1>3, <1>4, <1>5 DEF Inv

\* Every step of the kernel keeps the invariant.
LEMMA InvKept == ASSUME TasksAssumption, Inv, [Next]_vars PROVE Inv'
<1>1. CASE UNCHANGED vars
  <2>1. image' = image /\ tcb' = tcb /\ current' = current /\ kernel' = kernel /\ does' = does
    BY <1>1 DEF vars
  <2>2. Cores' = Cores /\ NotifySlots' = NotifySlots
    BY <2>1 DEF Cores, NotifySlots
  <2>. QED BY <2>1, <2>2
       DEF Inv, TypeOK, Shapes, Shape, Placed, Runs, Unstarted, Deadlined, Counted
<1>2. ASSUME NEW t \in Task, Create(t) \/ Wakes(t) \/ Suspend(t) \/ Resume(t) \/ Delete(t) \/ Reap(t)
      PROVE  Inv'
  BY <1>2, CreateKeeps, WakesKeeps, SuspendKeeps, ResumeKeeps, DeleteKeeps, ReapKeeps
<1>3. ASSUME NEW c \in Cores,
             Switch(c) \/ \E on \in {"time", "object", "notification"} : Blocks(c, on)
      PROVE  Inv'
  BY <1>3, SwitchKeeps, BlocksKeeps
<1>4. CASE Start \/ Tick \/ PendTick \/ SuspendAll \/ ResumeAll
  BY <1>4, GlobalsKeep, TickKeeps, ResumeAllKeeps
<1>. QED BY <1>1, <1>2, <1>3, <1>4 DEF Next

-----------------------------------------------------------------------------
\* The state field of a task that is on a core names that core, and no other
\* task has one.
LEMMA CoreRead ==
  ASSUME TasksAssumption, Inv, NEW t \in Task
  PROVE  /\ Occupies(t) <=> Runs(t)
         /\ Runs(t) => /\ RunningState(t)[1] \in {"Running", "Running(yielding)"}
                       /\ RunningState(t)[2] \in Cores
                       /\ current[RunningState(t)[2]] = t
<1>1. Placed(t) /\ image.smp \in BOOLEAN
  BY DEF Inv, TypeOK, TasksAssumption
<1>2. tcb[t].run \in {NotRunning, Yielding, 0, 1}
  BY Typed DEF Tcb
<1>3. Yielding # NotRunning /\ Yielding \notin {0, 1} /\ NotRunning \notin {0, 1}
  BY DEF Yielding, NotRunning
<1>4. CASE ~image.smp
  BY <1>4 DEF Occupies, Runs, RunningState, Cores
<1>5. CASE image.smp
  <2>1. Cores = {0, 1}
    BY <1>5 DEF Cores
  <2>2. CASE tcb[t].run = NotRunning
    BY <1>1, <1>3, <1>5, <2>1, <2>2 DEF Placed, Occupies
  <2>3. CASE tcb[t].run \in {0, 1}
    BY <1>1, <1>3, <1>5, <2>1, <2>3 DEF Placed, Occupies, RunningState
  <2>4. CASE tcb[t].run = Yielding
    <3>1. Runs(t)
      BY <1>1, <1>3, <1>5, <2>4 DEF Placed
    <3>2. CoreOf(t) = Least({c \in Cores : current[c] = t})
      BY <1>3, <1>5, <2>1, <2>4, <3>1 DEF CoreOf
    <3>3. {c \in Cores : current[c] = t} \in SUBSET Nat /\ {c \in Cores : current[c] = t} # {}
      BY <2>1, <3>1 DEF Runs
    <3>4. CoreOf(t) \in {c \in Cores : current[c] = t}
      BY <3>2, <3>3, LeastIsLeast
    <3>5. CoreOf(t) # None
      BY <2>1, <3>4 DEF TasksAssumption
    <3>. QED BY <1>5, <2>4, <3>1, <3>4, <3>5 DEF Occupies, RunningState
  <2>. QED BY <1>2, <2>2, <2>3, <2>4
<1>. QED BY <1>4, <1>5

\* Off the cores a task is shown as what it does.
LEMMA StateRead ==
  ASSUME TasksAssumption, Inv, NEW t \in Task, does[t] # "absent", ~Runs(t)
  PROVE  TaskState(t) = <<Truth(t), None>>
<1>1. ~Occupies(t)
  BY CoreRead
<1>2. {kernel.now, Later} = Delayed
  BY Typed DEF Globals, Later, Delayed
<1>3. Shape(does[t], tcb[t], kernel.suspended)
  BY Typed
<1>4. does[t] \in {"runnable", "blocked", "suspended", "deleted"}
  BY Typed DEF Activities
<1>5. WaitingNotification(t) <=> tcb[t].waiting # {}
  <2>1. tcb[t].waiting \subseteq NotifySlots
    BY <1>3 DEF Shape
  <2>. QED BY <2>1 DEF WaitingNotification, NotifySlots
<1>6. None \notin {"pending", "object", "ready", "delayed_1", "delayed_2", "suspended", "termination"}
  BY DEF TasksAssumption, StateLists
<1>7. CASE does[t] = "runnable"
  BY <1>1, <1>2, <1>3, <1>6, <1>7 DEF Shape, TaskState, Truth, Delayed
<1>8. CASE does[t] = "blocked"
  BY <1>1, <1>2, <1>3, <1>5, <1>6, <1>8 DEF Shape, TaskState, Truth, Delayed
<1>9. CASE does[t] = "suspended"
  BY <1>1, <1>2, <1>3, <1>5, <1>6, <1>9 DEF Shape, TaskState, Truth, Delayed
<1>10. CASE does[t] = "deleted"
  BY <1>1, <1>2, <1>3, <1>6, <1>10 DEF Shape, TaskState, Truth, Delayed
<1>. QED BY <1>4, <1>7, <1>8, <1>9, <1>10

\* A row has a core just when its task is on one, and it is that core.
LEMMA RowCore ==
  ASSUME TasksAssumption, Inv, NEW t \in Task, does[t] # "absent"
  PROVE  /\ (TaskState(t)[2] # None) <=> Runs(t)
         /\ Runs(t) => TaskState(t)[2] \in Cores /\ current[TaskState(t)[2]] = t
<1>1. CASE Runs(t)
  <2>1. TaskState(t) = RunningState(t)
    BY <1>1, CoreRead DEF TaskState
  <2>2. Cores \subseteq {0, 1}
    BY DEF Cores
  <2>. QED BY <1>1, <2>1, <2>2, CoreRead DEF TasksAssumption
<1>2. CASE ~Runs(t)
  BY <1>2, StateRead
<1>. QED BY <1>1, <1>2

\* Every state is the true one, and the cores are those of pxCurrentTCBs.
LEMMA InvReadsStates == ASSUME TasksAssumption, Inv PROVE TypeOK /\ StateIsTruth /\ RunnersAgree
<1>1. StateIsTruth
  <2> SUFFICES ASSUME NEW t \in Task, does[t] # "absent"
               PROVE  \/ TaskState(t)[1] = Truth(t)
                      \/ TaskState(t)[1] = "Running(yielding)" /\ Truth(t) = "Running"
    BY DEF StateIsTruth, Exists
  <2>1. CASE Runs(t)
    <3>1. TaskState(t) = RunningState(t) /\ Truth(t) = "Running"
      BY <2>1, CoreRead DEF TaskState, Truth
    <3>. QED BY <2>1, <3>1, CoreRead
  <2>2. CASE ~Runs(t)
    BY <2>2, StateRead
  <2>. QED BY <2>1, <2>2
<1>2. RunnersAgree
  <2> DEFINE runners == {u \in Task : does[u] # "absent" /\ TaskState(u)[2] # None}
             rows == {<<TaskState(t)[2], t>> : t \in runners}
  <2>1. ASSUME NEW r \in rows PROVE r \in CurrentTasks
    <3>1. PICK t \in runners : r = <<TaskState(t)[2], t>>
      BY <2>1
    <3>2. TaskState(t)[2] \in Cores /\ current[TaskState(t)[2]] = t
      BY <3>1, RowCore
    <3>. QED BY <3>1, <3>2 DEF CurrentTasks, TasksAssumption
  <2>2. ASSUME NEW r \in CurrentTasks PROVE r \in rows
    <3>1. PICK c \in Cores : current[c] # None /\ r = <<c, current[c]>>
      BY <2>2 DEF CurrentTasks
    <3>2. current[c] \in Task
      BY <3>1 DEF Inv, TypeOK
    <3>3. PICK t \in Task : t = current[c]
      BY <3>2
    <3>4. Runs(t) /\ Placed(t)
      BY <3>3 DEF Runs, Inv
    <3>5. does[t] # "absent"
      BY <3>4 DEF Placed
    <3>6. t \in runners /\ TaskState(t)[2] = c
      BY <3>3, <3>4, <3>5, RowCore DEF Placed
    <3>. QED BY <3>1, <3>3, <3>6
  <2>3. RunnersAgree <=> rows = CurrentTasks
    BY DEF RunnersAgree, Exists
  <2>. QED BY <2>1, <2>2, <2>3
<1>. QED BY <1>1, <1>2 DEF Inv

-----------------------------------------------------------------------------
\* The places of a task in the walk's list of lists.
Met(t) == {i \in 1..8 : t \in OnList(Sources[i])}

\* A task is on one of the lists just when it exists.
LEMMA MetIfExists ==
  ASSUME TasksAssumption, Inv, NEW t \in Task
  PROVE  does[t] # "absent" <=> Met(t) # {}
<1>1. Shape(does[t], tcb[t], kernel.suspended) /\ does[t] \in Activities
  BY Typed
<1>2. None \notin {"pending", "object", "ready", "delayed_1", "delayed_2", "suspended", "termination"}
  BY DEF TasksAssumption, StateLists
<1>3. kernel.now \in Delayed /\ Later \in Delayed
  BY Typed
<1>4. /\ t \in OnList("pending") <=> tcb[t].event = "pending"
      /\ \A l \in StateLists : t \in OnList(l) <=> tcb[t].state = l
  BY DEF OnList, StateLists
<1>5. /\ Sources[1] = "ready" /\ Sources[2] = "delayed_1" /\ Sources[3] = "delayed_2"
      /\ Sources[4] = kernel.now /\ Sources[5] = Later
      /\ Sources[6] = "pending" /\ Sources[7] = "suspended" /\ Sources[8] = "termination"
  BY DEF Sources
<1>6. \A i \in 1..8 : i = 1 \/ i = 2 \/ i = 3 \/ i = 4 \/ i = 5 \/ i = 6 \/ i = 7 \/ i = 8
  OBVIOUS
<1>7. ASSUME does[t] = "absent" PROVE Met(t) = {}
  <2>1. tcb[t].state = None /\ tcb[t].event = None
    BY <1>1, <1>7 DEF Shape
  <2>2. \A i \in 1..8 : Sources[i] \in StateLists \cup {"pending"}
    BY <1>3, <1>5, <1>6 DEF StateLists, Delayed
  <2>3. \A i \in 1..8 : t \notin OnList(Sources[i])
    BY <1>2, <1>4, <2>1, <2>2 DEF StateLists
  <2>. QED BY <2>3 DEF Met
<1>8. ASSUME does[t] # "absent" PROVE Met(t) # {}
  <2>1. tcb[t].state \in StateLists
    BY <1>1, <1>8 DEF Shape, Activities, StateLists, Delayed
  <2>2. \E i \in 1..8 : Sources[i] = tcb[t].state
    BY <1>5, <2>1 DEF StateLists
  <2>. QED BY <1>4, <2>1, <2>2 DEF Met
<1>. QED BY <1>7, <1>8

\* The walk has every task that exists where it is met first.
LEMMA WalkIsFirst ==
  ASSUME TasksAssumption, Inv
  PROVE  /\ IterTasks = {<<Least(Met(t)), t>> : t \in {u \in Task : does[u] # "absent"}}
         /\ \A t \in Task : does[t] # "absent" => Least(Met(t)) \in 1..8
<1> DEFINE first == {<<Least(Met(t)), t>> : t \in {u \in Task : does[u] # "absent"}}
<1>1. \A t : t \in Task /\ does[t] # "absent" =>
        Least(Met(t)) \in Met(t) /\ \A i \in Met(t) : Least(Met(t)) <= i
  <2> SUFFICES ASSUME NEW t \in Task, does[t] # "absent"
               PROVE  Least(Met(t)) \in Met(t) /\ \A i \in Met(t) : Least(Met(t)) <= i
    OBVIOUS
  <2>1. Met(t) # {}
    BY MetIfExists
  <2>2. Met(t) \in SUBSET Nat
    BY DEF Met
  <2>. QED BY <2>1, <2>2, LeastIsLeast
<1>2. \A i, t : <<i, t>> \in Listed <=> i \in 1..8 /\ t \in OnList(Sources[i])
  <2>1. DOMAIN Sources = 1..8
    BY DEF Sources
  <2>2. Listed = UNION {{i} \X OnList(Sources[i]) : i \in DOMAIN Sources}
    BY DEF Listed
  <2>. QED BY <2>1, <2>2
<1>3. \A e \in Listed : e = <<e[1], e[2]>>
  <2>1. Listed = UNION {{i} \X OnList(Sources[i]) : i \in DOMAIN Sources}
    BY DEF Listed
  <2>. QED BY <2>1
<1>4. \A i, t : <<i, t>> \in Listed <=> t \in Task /\ i \in Met(t)
  <2>1. \A l : OnList(l) \subseteq Task
    BY DEF OnList
  <2>. QED BY <1>2, <2>1 DEF Met
<1>5. \A t \in Task : Met(t) # {} => does[t] # "absent"
  BY MetIfExists
<1>6. IterTasks = {e \in Listed : \A f \in Listed : f[2] = e[2] => e[1] <= f[1]}
  BY DEF IterTasks
<1>7. ASSUME NEW e \in IterTasks PROVE e \in first
  <2>1. PICK i, t : e = <<i, t>> /\ t \in Task /\ i \in Met(t)
    BY <1>3, <1>4, <1>6
  <2>2. does[t] # "absent"
    BY <1>5, <2>1
  <2>3. <<Least(Met(t)), t>> \in Listed
    BY <1>1, <1>4, <2>1, <2>2
  <2>4. i <= Least(Met(t))
    BY <1>6, <2>1, <2>3
  <2>5. Least(Met(t)) <= i /\ i \in Nat /\ Least(Met(t)) \in Nat
    BY <1>1, <2>1, <2>2 DEF Met
  <2>6. i = Least(Met(t))
    BY <2>4, <2>5
  <2>. QED BY <2>1, <2>2, <2>6
<1>8. ASSUME NEW e \in first PROVE e \in IterTasks
  <2>1. PICK t \in Task : does[t] # "absent" /\ e = <<Least(Met(t)), t>>
    BY <1>8
  <2>2. e \in Listed
    BY <1>1, <1>4, <2>1
  <2>3. ASSUME NEW f \in Listed, f[2] = e[2] PROVE e[1] <= f[1]
    <3>1. f = <<f[1], t>>
      BY <1>3, <2>1, <2>3
    <3>2. f[1] \in Met(t)
      BY <1>4, <3>1, <2>3
    <3>. QED BY <1>1, <2>1, <3>2
  <2>. QED BY <1>6, <2>2, <2>3
<1>9. \A t \in Task : does[t] # "absent" => Least(Met(t)) \in 1..8
  BY <1>1 DEF Met
<1>. QED BY <1>7, <1>8, <1>9

\* The walk has as many tasks as there are.
LEMMA WalkCounts ==
  ASSUME TasksAssumption, Inv
  PROVE  IsFiniteSet(IterTasks) /\ Cardinality(IterTasks) = Cardinality({t \in Task : does[t] # "absent"})
<1> DEFINE E == {u \in Task : does[u] # "absent"}
           W == {<<Least(Met(t)), t>> : t \in E}
           f == [t \in E |-> <<Least(Met(t)), t>>]
<1>1. f \in Bijection(E, W)
  BY DEF Bijection, Injection, Surjection, IsInjective
<1>2. ExistsBijection(E, W)
  BY <1>1 DEF ExistsBijection
<1>3. IsFiniteSet(E)
  BY TasksCounted
<1>. QED BY <1>2, <1>3, FS_Bijection, WalkIsFirst

\* The tasks of the walk are those that exist.
LEMMA WalkHolds ==
  ASSUME TasksAssumption, Inv
  PROVE  /\ \A e \in IterTasks : e[2] \in Task /\ does[e[2]] # "absent" /\ e[1] \in Nat
         /\ \A t \in Task : does[t] # "absent" => \E e \in IterTasks : e[2] = t
         /\ \A e, f \in IterTasks : e[2] = f[2] => e = f
<1>1. IterTasks = {<<Least(Met(t)), t>> : t \in {u \in Task : does[u] # "absent"}}
  BY WalkIsFirst
<1>2. ASSUME NEW e \in IterTasks
      PROVE  \E t \in Task : does[t] # "absent" /\ e = <<Least(Met(t)), t>> /\ Least(Met(t)) \in 1..8
  BY <1>1, <1>2, WalkIsFirst
<1>3. ASSUME NEW t \in Task, does[t] # "absent" PROVE \E e \in IterTasks : e[2] = t
  <2>1. <<Least(Met(t)), t>> \in IterTasks
    BY <1>1, <1>3
  <2>2. <<Least(Met(t)), t>>[2] = t
    OBVIOUS
  <2>. QED BY <2>1, <2>2
<1>4. \A e \in IterTasks : e[2] \in Task /\ does[e[2]] # "absent" /\ e[1] \in Nat
  BY <1>2
<1>5. \A e \in IterTasks : e = <<Least(Met(e[2])), e[2]>>
  BY <1>2
<1>. QED BY <1>3, <1>4, <1>5

\* The walk has every task once.
LEMMA InvWalksOnce == ASSUME TasksAssumption, Inv PROVE EachTaskOnce
BY WalkHolds DEF EachTaskOnce, Exists

\* The cached deadline is not after the first wake time of the list in use.
LEMMA UnblockIsDue ==
  ASSUME TasksAssumption, Inv, kernel.started
  PROVE  kernel.unblock <= Deadline(tcb, kernel.now)
<1> DEFINE due == {tcb[t].wake : t \in {u \in Task : tcb[u].state = kernel.now}}
<1>1. kernel.unblock \in 0..Forever
  BY Typed
<1>2. CASE due = {}
  <2>1. Deadline(tcb, kernel.now) = Forever
    BY <1>2 DEF Deadline
  <2>. QED BY <1>1, <2>1
<1>3. CASE due # {}
  <2>1. Deadline(tcb, kernel.now) = Least(due)
    BY <1>3 DEF Deadline
  <2>2. due \in SUBSET Nat
    <3>1. \A t \in Task : tcb[t].wake \in 0..Forever
      BY Typed DEF Tcb
    <3>. QED BY <3>1
  <2>3. \A n \in due : kernel.unblock <= n
    BY DEF Inv, Deadlined
  <2> HIDE DEF due
  <2>4. Least(due) \in due
    BY <1>3, <2>2, LeastIsLeast
  <2>. QED BY <2>1, <2>3, <2>4
<1>. QED BY <1>2, <1>3

\* A kernel nobody broke passes the checks.
LEMMA InvPassesChecks == ASSUME TasksAssumption, Inv PROVE ChecksPass
<1>1. TaskCountCheck(IterTasks) = "ok"
  BY WalkCounts DEF Inv, Counted, TaskCountCheck
<1>2. NextUnblockCheck # "fail"
  BY UnblockIsDue DEF NextUnblockCheck
<1>. QED BY <1>1, <1>2 DEF ChecksPass

\* The counts of two sets without a common member add up.
LEMMA CountsAdd ==
  ASSUME NEW S, NEW T, IsFiniteSet(S), IsFiniteSet(T), \A x \in S : x \notin T
  PROVE  IsFiniteSet(S \cup T) /\ Cardinality(S \cup T) = Cardinality(S) + Cardinality(T)
<1>1. S \cap T = {}
  OBVIOUS
<1>2. Cardinality({}) = 0
  BY FS_EmptySet
<1>3. Cardinality(S) \in Nat /\ Cardinality(T) \in Nat
  BY FS_CardinalityType
<1>4. /\ IsFiniteSet(S \cup T)
      /\ Cardinality(S \cup T) = Cardinality(S) + Cardinality(T) - Cardinality(S \cap T)
  BY FS_Union
<1>5. Cardinality(S \cap T) = 0
  BY <1>1, <1>2
<1>. QED BY <1>3, <1>4, <1>5

\* Every task that exists is counted in the header of one list, but the pending.
LEMMA ListsAddUp ==
  ASSUME TasksAssumption, Inv
  PROVE  /\ ListCount("ready") + (ListCount("delayed_1") + ListCount("delayed_2"))
              + ListCount("suspended") + ListCount("termination")
              = Cardinality({t \in Task : does[t] # "absent"})
         /\ ListCount("pending") <= Cardinality({t \in Task : does[t] # "absent"})
         /\ \A l \in StateLists : ListCount(l) \in Nat
<1> DEFINE On(l) == {t \in Task : tcb[t].state = l}
           E == {t \in Task : does[t] # "absent"}
<1>1. \A l \in StateLists : OnList(l) = On(l)
  BY DEF OnList, StateLists
<1>2. \A S \in SUBSET Task : IsFiniteSet(S) /\ Cardinality(S) \in Nat
  BY FS_Subset, FS_CardinalityType DEF TasksAssumption
<1>3. \A t \in Task : does[t] # "absent" <=> tcb[t].state \in StateLists
  <2> SUFFICES ASSUME NEW t \in Task PROVE does[t] # "absent" <=> tcb[t].state \in StateLists
    OBVIOUS
  <2>1. Shape(does[t], tcb[t], kernel.suspended) /\ does[t] \in Activities
    BY Typed
  <2>. QED BY <2>1 DEF Shape, Activities, StateLists, Delayed, TasksAssumption
<1>4. PICK A, B, C, D, F : /\ A = On("ready") /\ B = On("delayed_1") /\ C = On("delayed_2")
                           /\ D = On("suspended") /\ F = On("termination")
  OBVIOUS
<1>5. E = ((A \cup (B \cup C)) \cup D) \cup F
  BY <1>3, <1>4 DEF StateLists
<1>6. Cardinality(B \cup C) = Cardinality(B) + Cardinality(C) /\ IsFiniteSet(B \cup C)
  <2>1. \A x \in B : x \notin C
    BY <1>4
  <2>. QED BY <1>2, <1>4, <2>1, CountsAdd
<1>7. Cardinality(A \cup (B \cup C)) = Cardinality(A) + Cardinality(B \cup C) /\ IsFiniteSet(A \cup (B \cup C))
  <2>1. \A x \in A : x \notin B \cup C
    BY <1>4
  <2>. QED BY <1>2, <1>4, <1>6, <2>1, CountsAdd
<1>8. /\ Cardinality((A \cup (B \cup C)) \cup D) = Cardinality(A \cup (B \cup C)) + Cardinality(D)
      /\ IsFiniteSet((A \cup (B \cup C)) \cup D)
  <2>1. \A x \in A \cup (B \cup C) : x \notin D
    BY <1>4
  <2>. QED BY <1>2, <1>4, <1>7, <2>1, CountsAdd
<1>9. Cardinality(((A \cup (B \cup C)) \cup D) \cup F) = Cardinality((A \cup (B \cup C)) \cup D) + Cardinality(F)
  <2>1. \A x \in (A \cup (B \cup C)) \cup D : x \notin F
    BY <1>4
  <2>. QED BY <1>2, <1>4, <1>8, <2>1, CountsAdd
<1>10. /\ ListCount("ready") = Cardinality(A) /\ ListCount("delayed_1") = Cardinality(B)
       /\ ListCount("delayed_2") = Cardinality(C) /\ ListCount("suspended") = Cardinality(D)
       /\ ListCount("termination") = Cardinality(F)
  BY <1>1, <1>4 DEF ListCount, StateLists
<1>11. ListCount("pending") <= Cardinality(E)
  <2>1. OnList("pending") \subseteq E
    <3>1. \A t \in Task : tcb[t].event = "pending" => does[t] # "absent"
      BY Typed DEF Shape, TasksAssumption
    <3>. QED BY <3>1 DEF OnList
  <2>2. IsFiniteSet(E)
    BY <1>2
  <2>. QED BY <2>1, <2>2, FS_Subset DEF ListCount
<1>12. \A l \in StateLists : ListCount(l) \in Nat
  BY <1>1, <1>2 DEF ListCount
<1>. QED BY <1>5, <1>6, <1>7, <1>8, <1>9, <1>10, <1>11, <1>12

\* The summary adds up, and its current task is one that is on a core.
LEMMA InvAddsUp == ASSUME TasksAssumption, Inv PROVE SummaryAddsUp
<1> DEFINE walk == IterTasks
           s == SystemSummary(walk)
           cored == {e \in walk : TaskState(e[2])[2] # None}
           first == {f \in cored : \A g \in cored : f[1] <= g[1]}
           E == {t \in Task : does[t] # "absent"}
<1>1. \A e \in walk : e[2] \in E /\ e[1] \in Nat
  BY WalkHolds
<1>2. \A t \in E : \E e \in walk : e[2] = t
  BY WalkHolds
<1>3. \A t \in E : (TaskState(t)[2] # None) <=> Runs(t)
  BY RowCore
<1>4. /\ s.current = {e[2] : e \in first} /\ s.number = kernel.tasks /\ s.walked = Cardinality(walk)
      /\ s.states.Ready = ListCount("ready") /\ s.states.Pending = ListCount("pending")
      /\ s.states.Delayed = ListCount("delayed_1") + ListCount("delayed_2")
      /\ s.states.Suspended = ListCount("suspended") /\ s.states.Termination = ListCount("termination")
  BY DEF SystemSummary
<1>5. cored # {} => first # {}
  <2> SUFFICES ASSUME cored # {} PROVE first # {}
    OBVIOUS
  <2>1. {e[1] : e \in cored} \in SUBSET Nat /\ {e[1] : e \in cored} # {}
    BY <1>1
  <2>2. PICK n : n = Least({e[1] : e \in cored})
    OBVIOUS
  <2>3. n \in {e[1] : e \in cored} /\ \A m \in {e[1] : e \in cored} : n <= m
    BY <2>1, <2>2, LeastIsLeast
  <2>4. PICK f \in cored : f[1] = n
    BY <2>3
  <2>5. \A g \in cored : f[1] <= g[1]
    BY <2>3, <2>4
  <2>. QED BY <2>4, <2>5
<1>6. CurrentTasks # {} <=> \E t \in E : Runs(t)
  <2>1. ASSUME CurrentTasks # {} PROVE \E t \in E : Runs(t)
    <3>1. PICK c \in Cores : current[c] # None
      BY <2>1 DEF CurrentTasks
    <3>2. current[c] \in Task
      BY <3>1 DEF Inv, TypeOK
    <3>3. Runs(current[c])
      BY DEF Runs
    <3>. QED BY <3>2, <3>3, Typed DEF Placed
  <2>2. ASSUME NEW t \in E, Runs(t) PROVE CurrentTasks # {}
    <3>1. PICK c \in Cores : current[c] = t
      BY <2>2 DEF Runs
    <3>2. t # None
      BY DEF TasksAssumption
    <3>. QED BY <3>1, <3>2 DEF CurrentTasks
  <2>. QED BY <2>1, <2>2
<1>7. cored # {} <=> \E t \in E : Runs(t)
  BY <1>1, <1>2, <1>3
<1>8. (s.current = {}) = (CurrentTasks = {})
  <2>1. s.current = {} <=> first = {}
    <3>1. \A f \in first : f[2] \in s.current
      BY <1>4
    <3>2. s.current # {} => \E f \in first : TRUE
      BY <1>4
    <3>. QED BY <3>1, <3>2
  <2>2. first # {} => cored # {}
    OBVIOUS
  <2>. QED BY <1>5, <1>6, <1>7, <2>1, <2>2
<1>9. ASSUME NEW t \in s.current
       PROVE  (\E c \in Cores : current[c] = t) /\ \E r \in TaskTable(walk) : r.addr = t /\ r.star
  <2>1. PICK e \in cored : e[2] = t
    BY <1>4, <1>9
  <2>2. t \in E /\ TaskState(t)[2] # None /\ Runs(t)
    BY <1>1, <1>3, <2>1
  <2>3. t \in {f[2] : f \in walk}
    BY <2>1
  <2>4. [addr |-> t, star |-> TaskState(t)[2] # None, state |-> TaskState(t)[1], core |-> TaskState(t)[2]]
          \in TaskTable(walk)
    BY <2>3 DEF TaskTable
  <2>. QED BY <2>2, <2>4 DEF Runs
<1>10. Cardinality(walk) = Cardinality(E) /\ kernel.tasks = Cardinality(E)
  BY WalkCounts DEF Inv, Counted
<1>11. /\ s.states.Ready + s.states.Delayed + s.states.Suspended + s.states.Termination = s.walked
       /\ s.walked = s.number /\ s.states.Pending <= s.walked
  BY <1>4, <1>10, ListsAddUp
<1> HIDE DEF s, walk, cored, first
<1>12. (\A t \in s.current : (\E c \in Cores : current[c] = t) /\ \E r \in TaskTable(walk) : r.addr = t /\ r.star)
  BY <1>9
<1>. QED BY <1>8, <1>11, <1>12 DEF SummaryAddsUp, s, walk

-----------------------------------------------------------------------------
\* The kernel keeps the invariant.
THEOREM TasksAreSound == ASSUME TasksAssumption PROVE Spec => []Inv
<1>1. Init => Inv
  BY InvInit
<1>2. Inv /\ [Next]_vars => Inv'
  BY InvKept
<1>. QED BY <1>1, <1>2, PTL DEF Spec

=============================================================================
