------------------------- MODULE KernelObjectsProofs -------------------------
(***************************************************************************)
(* Proofs about KernelObjects.  A behaviour of it is about one kind of     *)
(* object, and keeps the invariant of that object's own module, so what is *)
(* proved of the module holds of KernelObjects.                            *)
(***************************************************************************)
EXTENDS KernelObjects, Integers, FiniteSets, Sequences, SequenceTheorems, TLAPS

-----------------------------------------------------------------------------
\* The task lists.  P is L with the proofs about it: its definitions are the
\* same ones.
P == INSTANCE FreeRtosTasksProofs WITH Images <- TaskImages, Ticks <- TickPeriod, image <- taskImage,
                                       current <- running, kernel <- scheduler

\* Both take the same constants.
LEMMA SameAssumption == L!TasksAssumption => P!TasksAssumption
BY DEF L!TasksAssumption, P!TasksAssumption, L!StateLists, P!StateLists,
       L!IsFiniteSet, P!IsFiniteSet

\* Both start the same.
LEMMA SameInit == L!Init <=> P!Init
BY DEF L!Init, P!Init, L!Fresh, P!Fresh, L!Cores, P!Cores, L!NotRunning, P!NotRunning

\* Both take the same steps.
LEMMA SameNext == L!Next <=> P!Next
<1> USE DEF L!Fresh, P!Fresh, L!NotRunning, P!NotRunning, L!Yielding, P!Yielding, L!Cores, P!Cores,
            L!Runs, P!Runs, L!Going, P!Going, L!Later, P!Later, L!Least, P!Least,
            L!Forever, P!Forever, L!Deadline, P!Deadline, L!OnList, P!OnList
<1>1. \A t : /\ L!Create(t) <=> P!Create(t)
             /\ L!Resume(t) <=> P!Resume(t)
             /\ L!Wakes(t) <=> P!Wakes(t)
             /\ L!Suspend(t) <=> P!Suspend(t)
             /\ L!Delete(t) <=> P!Delete(t)
             /\ L!Reap(t) <=> P!Reap(t)
  <2>1. \A t : L!Create(t) <=> P!Create(t)
    BY DEF L!Create, P!Create
  <2>2. \A t : L!Resume(t) <=> P!Resume(t)
    BY DEF L!Resume, P!Resume
  <2>3. \A t : L!Wakes(t) <=> P!Wakes(t)
    BY DEF L!Wakes, P!Wakes
  <2>4. \A t : L!Suspend(t) <=> P!Suspend(t)
    BY DEF L!Suspend, P!Suspend
  <2>5. \A t : L!Delete(t) <=> P!Delete(t)
    BY DEF L!Delete, P!Delete
  <2>6. \A t : L!Reap(t) <=> P!Reap(t)
    BY DEF L!Reap, P!Reap
  <2>. QED BY <2>1, <2>2, <2>3, <2>4, <2>5, <2>6
<1>2. \A c : L!Switch(c) <=> P!Switch(c)
  BY DEF L!Switch, P!Switch
<1>3. \A c, on : L!Blocks(c, on) <=> P!Blocks(c, on)
  BY DEF L!Blocks, P!Blocks, L!OnCore, P!OnCore, L!NotifySlots, P!NotifySlots,
         L!DelayedUntil, P!DelayedUntil
<1>4. /\ L!Start <=> P!Start
      /\ L!Tick <=> P!Tick
      /\ L!PendTick <=> P!PendTick
      /\ L!SuspendAll <=> P!SuspendAll
      /\ L!ResumeAll <=> P!ResumeAll
  <2>1. L!Start <=> P!Start
    BY DEF L!Start, P!Start
  <2>2. L!Tick <=> P!Tick
    BY DEF L!Tick, P!Tick
  <2>3. L!PendTick <=> P!PendTick
    BY DEF L!PendTick, P!PendTick
  <2>4. L!SuspendAll <=> P!SuspendAll
    BY DEF L!SuspendAll, P!SuspendAll
  <2>5. L!ResumeAll <=> P!ResumeAll
    BY DEF L!ResumeAll, P!ResumeAll
  <2>. QED BY <2>1, <2>2, <2>3, <2>4, <2>5
<1>5. L!Cores = P!Cores
  OBVIOUS
<1>. QED BY <1>1, <1>2, <1>3, <1>4, <1>5, Zenon DEF L!Next, P!Next

\* Both show the same tasks.
LEMMA SameReadings ==
  /\ L!TypeOK <=> P!TypeOK
  /\ L!StateIsTruth <=> P!StateIsTruth
  /\ L!RunnersAgree <=> P!RunnersAgree
  /\ L!EachTaskOnce <=> P!EachTaskOnce
  /\ L!ChecksPass <=> P!ChecksPass
  /\ L!SummaryAddsUp <=> P!SummaryAddsUp
<1> USE DEF L!OnList, P!OnList, L!Runs, P!Runs, L!Later, P!Later, L!Least, P!Least,
            L!Deadline, P!Deadline, L!Cores, P!Cores, L!Yielding, P!Yielding,
            L!NotRunning, P!NotRunning, L!Forever, P!Forever, L!Cardinality, P!Cardinality
<1>1. L!TypeOK <=> P!TypeOK
  BY DEF L!TypeOK, P!TypeOK, L!Tcb, P!Tcb, L!Globals, P!Globals, L!Activities, P!Activities,
         L!StateLists, P!StateLists
<1> USE DEF L!TaskState, P!TaskState, L!Occupies, P!Occupies, L!RunningState, P!RunningState,
            L!CoreOf, P!CoreOf, L!WaitingNotification, P!WaitingNotification, L!Exists, P!Exists,
            L!IterTasks, P!IterTasks, L!Listed, P!Listed, L!Sources, P!Sources
<1>2. L!StateIsTruth <=> P!StateIsTruth
  BY DEF L!StateIsTruth, P!StateIsTruth, L!Truth, P!Truth
<1>3. L!RunnersAgree <=> P!RunnersAgree
  BY DEF L!RunnersAgree, P!RunnersAgree, L!CurrentTasks, P!CurrentTasks
<1>4. L!EachTaskOnce <=> P!EachTaskOnce
  BY DEF L!EachTaskOnce, P!EachTaskOnce
<1>5. L!ChecksPass <=> P!ChecksPass
  BY DEF L!ChecksPass, P!ChecksPass, L!TaskCountCheck, P!TaskCountCheck,
         L!NextUnblockCheck, P!NextUnblockCheck
<1>6. L!SummaryAddsUp <=> P!SummaryAddsUp
  BY DEF L!SummaryAddsUp, P!SummaryAddsUp, L!TaskTable, P!TaskTable, L!ListCount, P!ListCount,
         L!SystemSummary, P!SystemSummary, L!CurrentTasks, P!CurrentTasks
<1>. QED BY <1>1, <1>2, <1>3, <1>4, <1>5, <1>6

TasksInv == object = "tasks" => P!Inv

\* A behaviour about the tasks starts in the invariant.
LEMMA TasksInvInit == ASSUME L!TasksAssumption, Init PROVE TasksInv
<1> SUFFICES ASSUME object = "tasks" PROVE P!Inv
  BY DEF TasksInv
<1>1. L!Init
  BY DEF Init
<1>. QED BY <1>1, SameAssumption, SameInit, P!InvInit

\* Its steps are those of the kernel's tasks, and keep the invariant.
LEMMA TasksInvKept == ASSUME L!TasksAssumption, TasksInv, [Next]_vars PROVE TasksInv'
<1> SUFFICES ASSUME object' = "tasks" PROVE P!Inv'
  BY DEF TasksInv
<1>1. object = "tasks" /\ [L!Next]_L!vars
  BY DEF Next, vars, L!vars, taskVars
<1>2. [P!Next]_P!vars
  BY <1>1, SameNext DEF L!vars, P!vars
<1>. QED BY <1>1, <1>2, SameAssumption, P!InvKept DEF TasksInv

\* In the invariant the tasks are shown as they are.
LEMMA TasksInvReads == ASSUME L!TasksAssumption, TasksInv PROVE StateIsTruth /\ EachTaskOnce /\ ChecksPass
<1> SUFFICES ASSUME object = "tasks"
             PROVE  /\ L!TypeOK /\ L!StateIsTruth /\ L!RunnersAgree /\ L!EachTaskOnce
                    /\ L!ChecksPass /\ L!SummaryAddsUp
  BY DEF StateIsTruth, EachTaskOnce, ChecksPass
<1>1. P!TasksAssumption /\ P!Inv
  BY SameAssumption DEF TasksInv
<1>. QED BY <1>1, SameReadings, P!InvReadsStates, P!InvWalksOnce, P!InvPassesChecks, P!InvAddsUp

\* A behaviour about the tasks stays in the invariant.
THEOREM TasksAreSound == Spec => []TasksInv
<1>1. L!TasksAssumption
  BY ObjectsAssumption
<1>2. Init => TasksInv
  BY <1>1, TasksInvInit
<1>3. TasksInv /\ [Next]_vars => TasksInv'
  BY <1>1, TasksInvKept
<1>. QED BY <1>2, <1>3, PTL DEF Spec

\* The state shown of a task is what it does, on one core and on two, for any
\* number of tasks and of notification slots and any tick width.
THEOREM StatesAreTrue == Spec => []StateIsTruth
<1>1. TasksInv => StateIsTruth
  BY TasksInvReads, ObjectsAssumption
<1>. QED BY <1>1, TasksAreSound, PTL

\* No task is walked twice, and none is lost.
THEOREM TasksAreWalkedOnce == Spec => []EachTaskOnce
<1>1. TasksInv => EachTaskOnce
  BY TasksInvReads, ObjectsAssumption
<1>. QED BY <1>1, TasksAreSound, PTL

\* The checks of a healthy kernel's task lists pass wherever it is halted, and
\* the summary adds up.
THEOREM TaskChecksPass == Spec => []ChecksPass
<1>1. TasksInv => ChecksPass
  BY TasksInvReads, ObjectsAssumption
<1>. QED BY <1>1, TasksAreSound, PTL

-----------------------------------------------------------------------------
\* The queues (Queues).

\* A queue whose scheduler is in state `stopped' and whose kernel operation is `o'.
QueueRecords ==
  [kind : {"queue", "semaphore", "mutex"}, length : Nat \ {0}, size : Nat, count : Nat,
   head : Nat, tail : Nat, write : Int, read : Int, rx : Int, tx : Int,
   holder : Owner \cup {Q!Nobody}, nesting : Nat]

Inside(q, a) == q.head <= a /\ a < q.tail

\* The pointers of a ring stay in its storage.
RingSound(q, o) ==
  /\ q.size > 0 /\ q.head = Q!Storage /\ q.tail - q.head = q.length * q.size
  /\ q.head + q.size <= q.tail
  /\ Inside(q, q.write) /\ Inside(q, q.read)
  /\ o.kind \in {"none", "back", "front", "over", "receive"}
  /\ o.kind \in {"back", "front"} => q.count < q.length
  /\ o.kind = "receive" => q.count > 0

\* A mutex has a holder or a count, but between the two stores of a call.
MutexSound(q, o) ==
  /\ q.head = Q!Null /\ q.size = 0 /\ q.length = 1
  /\ o.kind \in {"none", "take", "give"}
  /\ o.kind = "take" => o.with \in Owner
  /\ q.count = IF q.holder = Q!Nobody /\ o.kind = "none" THEN 1 ELSE 0
  /\ q.holder # Q!Nobody => o.kind = "none"

QueueSound(q, o, stopped) ==
  /\ q \in QueueRecords
  /\ stopped \in {0, 1}
  /\ q.count <= q.length
  /\ q.rx = Q!Unlocked <=> q.tx = Q!Unlocked
  /\ q.rx # Q!Unlocked => stopped = 1 /\ q.rx >= 0 /\ q.tx >= 0
  /\ q.nesting > 0 => q.holder # Q!Nobody
  /\ q.kind # "mutex" => q.holder = Q!Nobody
  /\ q.kind = "queue" => RingSound(q, o)
  /\ q.kind = "semaphore" => q.head = Q!Self /\ q.size = 0 /\ o.kind = "none"
  /\ q.kind = "mutex" => MutexSound(q, o)

QueueInv == object = "queue" => QueueSound(queue, queueOp, suspended)

\* A ring moved by one item stays in the storage.
LEMMA PointersStay ==
  ASSUME NEW q \in QueueRecords, NEW o, RingSound(q, o), NEW a \in Int, Inside(q, a)
  PROVE  /\ Inside(q, IF a + q.size >= q.tail THEN q.head ELSE a + q.size)
         /\ Inside(q, IF a - q.size < q.head THEN q.tail - q.size ELSE a - q.size)
<1>1. q.head \in Nat /\ q.tail \in Nat /\ q.size \in Nat
  BY DEF QueueRecords
<1>. QED BY <1>1 DEF RingSound, Inside

\* A queue, a semaphore or a mutex is created sound.
LEMMA CreatedSound == ASSUME Q!QueueAssumption, Q!Init PROVE QueueSound(queue, queueOp, suspended)
<1>1. queueOp.kind = "none" /\ suspended = 0
  BY DEF Q!Init
<1>2. CASE \E l \in Lengths, s \in ItemSizes : queue = Q!Created("queue", l, s)
  <2>1. PICK l \in Lengths, s \in ItemSizes : queue = Q!Created("queue", l, s)
    BY <1>2
  <2>2. l \in Nat \ {0} /\ s \in Nat \ {0}
    BY DEF Q!QueueAssumption
  <2>3. PICK span : span = l * s
    OBVIOUS
  <2>4. span \in Nat /\ span >= s
    BY <2>2, <2>3
  <2>5. queue = [kind |-> "queue", length |-> l, size |-> s, count |-> 0,
                 head |-> 8, tail |-> 8 + span, write |-> 8, read |-> 8 + span - s,
                 rx |-> -1, tx |-> -1, holder |-> Q!Nobody, nesting |-> 0]
    BY <2>1, <2>2, <2>3 DEF Q!Created, Q!Storage, Q!Unlocked
  <2>6. queue \in QueueRecords
    BY <2>2, <2>4, <2>5 DEF QueueRecords
  <2>7. RingSound(queue, queueOp)
    BY <1>1, <2>2, <2>3, <2>4, <2>5 DEF RingSound, Inside, Q!Storage
  <2>. QED BY <1>1, <2>2, <2>5, <2>6, <2>7 DEF QueueSound, Q!Unlocked
<1>3. CASE \E l \in Lengths : queue = Q!Created("semaphore", l, 0)
  <2>1. PICK l \in Lengths : queue = Q!Created("semaphore", l, 0)
    BY <1>3
  <2>2. l \in Nat \ {0}
    BY DEF Q!QueueAssumption
  <2>3. queue = [kind |-> "semaphore", length |-> l, size |-> 0, count |-> 0,
                 head |-> 1, tail |-> 1, write |-> 1, read |-> 1,
                 rx |-> -1, tx |-> -1, holder |-> Q!Nobody, nesting |-> 0]
    BY <2>1, <2>2 DEF Q!Created, Q!Self, Q!Unlocked
  <2>4. queue \in QueueRecords
    BY <2>2, <2>3 DEF QueueRecords
  <2>. QED BY <1>1, <2>2, <2>3, <2>4 DEF QueueSound, Q!Unlocked, Q!Self
<1>4. CASE queue = Q!Created("mutex", 1, 0)
  <2>1. queue = [kind |-> "mutex", length |-> 1, size |-> 0, count |-> 1,
                 head |-> 0, tail |-> 0, write |-> 0, read |-> 0,
                 rx |-> -1, tx |-> -1, holder |-> Q!Nobody, nesting |-> 0]
    BY <1>4 DEF Q!Created, Q!Null, Q!Unlocked
  <2>2. queue \in QueueRecords
    BY <2>1 DEF QueueRecords
  <2>3. MutexSound(queue, queueOp)
    BY <1>1, <2>1 DEF MutexSound, Q!Null
  <2>. QED BY <1>1, <2>1, <2>2, <2>3 DEF QueueSound, Q!Unlocked
<1>. QED BY <1>2, <1>3, <1>4 DEF Q!Init

SameRing(n, q) ==
  /\ n \in QueueRecords
  /\ n.kind = q.kind /\ n.length = q.length /\ n.size = q.size /\ n.head = q.head /\ n.tail = q.tail
SamePlaces(n, q) == n.write = q.write /\ n.read = q.read
SameLocks(n, q) == n.rx = q.rx /\ n.tx = q.tx
SameHolder(n, q) == n.holder = q.holder /\ n.nesting = q.nesting

\* Every store of the kernel keeps it sound.
LEMMA QueueStep ==
  ASSUME Q!QueueAssumption, QueueSound(queue, queueOp, suspended), Q!Next
  PROVE  QueueSound(queue', queueOp', suspended')
<1> USE DEF Q!Idle, Q!Bounded, Q!IsQueue, Q!Unlocked, Inside, SameRing, SamePlaces, SameLocks, SameHolder
<1>a. /\ queue \in QueueRecords /\ suspended \in {0, 1}
      /\ queue.kind = "queue" => RingSound(queue, queueOp)
      /\ queue.kind = "mutex" => MutexSound(queue, queueOp)
  BY DEF QueueSound
<1>b. queue.kind = "queue" => Inside(queue, queue.write) /\ Inside(queue, queue.read)
  BY <1>a DEF RingSound
<1>c. /\ queue.write \in Int /\ queue.read \in Int /\ queue.count \in Nat /\ queue.length \in Nat \ {0}
      /\ queue.size \in Nat /\ queue.head \in Nat /\ queue.tail \in Nat /\ queue.rx \in Int /\ queue.tx \in Int
  BY <1>a DEF QueueRecords
<1>d. queue.kind = "queue" =>
        /\ Inside(queue, Q!Forward(queue.write)) /\ Q!Forward(queue.write) \in Int
        /\ Inside(queue, Q!Forward(queue.read)) /\ Q!Forward(queue.read) \in Int
        /\ Inside(queue, Q!Back(queue.read)) /\ Q!Back(queue.read) \in Int
  BY <1>a, <1>b, <1>c, PointersStay DEF Q!Forward, Q!Back
<1>e. /\ (queue.rx = -1) <=> (queue.tx = -1)
      /\ queue.rx = -1 \/ (queue.rx >= 0 /\ queue.tx >= 0)
  BY DEF QueueSound
<1>1. ASSUME NEW v \in Value, NEW where \in {"back", "front", "over"}, Q!SendCopies(v, where)
      PROVE  QueueSound(queue', queueOp', suspended')
  <2>1. /\ queueOp.kind = "none" /\ queue.kind = "queue" /\ suspended' = suspended
        /\ queue.count < queue.length \/ (where = "over" /\ queue.length = 1)
        /\ queueOp'.kind = where
    BY <1>1 DEF Q!SendCopies
  <2>2. \/ queue' = [queue EXCEPT !.write = Q!Forward(queue.write)]
        \/ queue' = [queue EXCEPT !.read = Q!Back(queue.read)]
    BY <1>1 DEF Q!SendCopies
  <2>3. PICK w \in Int : /\ Inside(queue, w)
                         /\ queue' = [queue EXCEPT !.write = w] \/ queue' = [queue EXCEPT !.read = w]
    BY <1>d, <2>1, <2>2
  <2>4. /\ SameRing(queue', queue) /\ SameLocks(queue', queue) /\ SameHolder(queue', queue)
        /\ queue'.count = queue.count /\ Inside(queue, queue'.write) /\ Inside(queue, queue'.read)
    <3>1. CASE queue' = [queue EXCEPT !.write = w]
      <4>1. /\ SameRing(queue', queue) /\ SameLocks(queue', queue) /\ SameHolder(queue', queue)
            /\ queue'.count = queue.count /\ queue'.write = w /\ queue'.read = queue.read
        BY <1>a, <3>1 DEF QueueRecords
      <4>. QED BY <1>b, <2>1, <2>3, <4>1
    <3>2. CASE queue' = [queue EXCEPT !.read = w]
      <4>1. /\ SameRing(queue', queue) /\ SameLocks(queue', queue) /\ SameHolder(queue', queue)
            /\ queue'.count = queue.count /\ queue'.read = w /\ queue'.write = queue.write
        BY <1>a, <3>2 DEF QueueRecords
      <4>. QED BY <1>b, <2>1, <2>3, <4>1
    <3>. QED BY <2>3, <3>1, <3>2
  <2>5. RingSound(queue', queueOp')
    BY <1>a, <2>1, <2>4 DEF RingSound, SameRing, Inside
  <2>. QED BY <2>1, <2>4, <2>5 DEF QueueSound, SameRing, SameLocks, SameHolder
<1>2. ASSUME Q!SendCounts PROVE QueueSound(queue', queueOp', suspended')
  <2>1. /\ queueOp.kind \in {"back", "front", "over"} /\ queueOp'.kind = "none" /\ suspended' = suspended
        /\ queue' = [queue EXCEPT !.count = IF queueOp.kind = "over" THEN 1 ELSE queue.count + 1,
                                  !.tx = IF queue.tx = -1 THEN queue.tx ELSE queue.tx + 1]
    BY <1>2 DEF Q!SendCounts
  <2>2. queue.kind = "queue"
    BY <1>a, <2>1 DEF QueueSound, MutexSound, QueueRecords
  <2>a. PICK c : c = IF queueOp.kind = "over" THEN 1 ELSE queue.count + 1
    OBVIOUS
  <2>b. PICK x : x = IF queue.tx = -1 THEN queue.tx ELSE queue.tx + 1
    OBVIOUS
  <2>c. RingSound(queue, queueOp)
    BY <1>a, <2>2
  <2>d. c \in Nat /\ c <= queue.length
    BY <1>c, <2>1, <2>a, <2>c DEF RingSound
  <2>e. x \in Int /\ ((x = -1) <=> (queue.tx = -1)) /\ (queue.tx >= 0 => x >= 0)
    BY <1>c, <1>e, <2>b
  <2>3. queue' = [queue EXCEPT !.count = c, !.tx = x]
    BY <2>1, <2>a, <2>b
  <2>4. /\ SameRing(queue', queue) /\ SamePlaces(queue', queue) /\ SameHolder(queue', queue)
        /\ queue'.rx = queue.rx /\ queue'.tx = x /\ queue'.count = c
    BY <1>a, <2>d, <2>e, <2>3 DEF QueueRecords
  <2>5. RingSound(queue', queueOp')
    BY <1>a, <2>1, <2>2, <2>4 DEF RingSound
  <2>. QED BY <1>c, <2>1, <2>2, <2>d, <2>e, <2>4, <2>5 DEF QueueSound
<1>3. ASSUME Q!ReceiveCounts PROVE QueueSound(queue', queueOp', suspended')
  <2>1. /\ queueOp.kind = "receive" /\ queueOp'.kind = "none" /\ suspended' = suspended
        /\ queue' = [queue EXCEPT !.count = queue.count - 1,
                                  !.rx = IF queue.rx = -1 THEN queue.rx ELSE queue.rx + 1]
    BY <1>3 DEF Q!ReceiveCounts
  <2>2. queue.kind = "queue" /\ queue.count > 0
    BY <1>a, <2>1 DEF QueueSound, MutexSound, RingSound, QueueRecords
  <2>a. PICK c : c = queue.count - 1
    OBVIOUS
  <2>b. PICK x : x = IF queue.rx = -1 THEN queue.rx ELSE queue.rx + 1
    OBVIOUS
  <2>d. c \in Nat /\ c <= queue.count
    BY <1>c, <2>2, <2>a
  <2>e. x \in Int /\ ((x = -1) <=> (queue.rx = -1)) /\ (queue.rx >= 0 => x >= 0)
    BY <1>c, <1>e, <2>b
  <2>3. queue' = [queue EXCEPT !.count = c, !.rx = x]
    BY <2>1, <2>a, <2>b
  <2>4. /\ SameRing(queue', queue) /\ SamePlaces(queue', queue) /\ SameHolder(queue', queue)
        /\ queue'.tx = queue.tx /\ queue'.rx = x /\ queue'.count = c
    BY <1>a, <2>d, <2>e, <2>3 DEF QueueRecords
  <2>5. RingSound(queue', queueOp')
    BY <1>a, <2>1, <2>2, <2>4 DEF RingSound
  <2>. QED BY <1>c, <2>1, <2>2, <2>d, <2>e, <2>4, <2>5 DEF QueueSound
<1>4. ASSUME Q!ReceiveCopies PROVE QueueSound(queue', queueOp', suspended')
  <2>1. /\ queueOp.kind = "none" /\ queue.kind = "queue" /\ queue.count > 0 /\ suspended' = suspended
        /\ queueOp'.kind = "receive" /\ queue' = [queue EXCEPT !.read = Q!Forward(queue.read)]
    BY <1>4 DEF Q!ReceiveCopies
  <2>2. /\ SameRing(queue', queue) /\ SameLocks(queue', queue) /\ SameHolder(queue', queue)
        /\ queue'.count = queue.count /\ queue'.write = queue.write /\ Inside(queue, queue'.read)
    BY <1>a, <1>d, <2>1 DEF QueueRecords
  <2>3. RingSound(queue', queueOp')
    BY <1>a, <2>1, <2>2 DEF RingSound
  <2>. QED BY <2>1, <2>2, <2>3 DEF QueueSound
<1>5. ASSUME Q!Reset PROVE QueueSound(queue', queueOp', suspended')
  <2>1. /\ queueOp.kind = "none" /\ queue.kind = "queue" /\ suspended' = suspended /\ queueOp' = queueOp
        /\ queue' = [queue EXCEPT !.count = 0, !.write = queue.head, !.read = queue.tail - queue.size]
    BY <1>5 DEF Q!Reset
  <2>2. PICK w, r \in Int : w = queue.head /\ r = queue.tail - queue.size
    BY <1>c
  <2>3. queue' = [queue EXCEPT !.count = 0, !.write = w, !.read = r]
    BY <2>1, <2>2
  <2>4. /\ SameRing(queue', queue) /\ SameLocks(queue', queue) /\ SameHolder(queue', queue)
        /\ queue'.count = 0 /\ queue'.write = w /\ queue'.read = r
    BY <1>a, <2>3 DEF QueueRecords
  <2>5. RingSound(queue', queueOp')
    BY <1>a, <1>c, <2>1, <2>2, <2>4 DEF RingSound
  <2>. QED BY <1>c, <2>1, <2>4, <2>5 DEF QueueSound
<1>6. ASSUME Q!Give \/ Q!Take PROVE QueueSound(queue', queueOp', suspended')
  <2>1. queue.kind = "semaphore" /\ suspended' = suspended /\ queueOp' = queueOp
    BY <1>6 DEF Q!Give, Q!Take
  <2>2. ASSUME NEW c \in Nat, c <= queue.length, NEW x \in Int,
               (x = -1) <=> (queue.tx = -1), queue.tx >= 0 => x >= 0,
               queue' = [queue EXCEPT !.count = c, !.tx = x]
        PROVE  QueueSound(queue', queueOp', suspended')
    <3>1. /\ SameRing(queue', queue) /\ SamePlaces(queue', queue) /\ SameHolder(queue', queue)
          /\ queue'.rx = queue.rx /\ queue'.tx = x /\ queue'.count = c
      BY <1>a, <2>2 DEF QueueRecords
    <3>. QED BY <1>c, <2>1, <2>2, <3>1 DEF QueueSound
  <2>3. CASE Q!Give
    <3>a. PICK c : c = queue.count + 1
      OBVIOUS
    <3>b. PICK x : x = IF queue.tx = -1 THEN queue.tx ELSE queue.tx + 1
      OBVIOUS
    <3>1. queue.count < queue.length /\ queue' = [queue EXCEPT !.count = c, !.tx = x]
      BY <2>3, <3>a, <3>b DEF Q!Give
    <3>2. c \in Nat /\ c <= queue.length
      BY <1>c, <3>1, <3>a
    <3>3. x \in Int /\ ((x = -1) <=> (queue.tx = -1)) /\ (queue.tx >= 0 => x >= 0)
      BY <1>c, <1>e, <3>b
    <3>. QED BY <2>2, <3>1, <3>2, <3>3
  <2>4. CASE Q!Take
    <3>a. PICK c : c = queue.count - 1
      OBVIOUS
    <3>1. queue.count > 0 /\ queue' = [queue EXCEPT !.count = c]
      BY <2>4, <3>a DEF Q!Take
    <3>2. c \in Nat /\ c <= queue.length
      BY <1>a, <1>c, <3>1, <3>a DEF QueueSound
    <3>3. /\ SameRing(queue', queue) /\ SamePlaces(queue', queue) /\ SameHolder(queue', queue)
          /\ SameLocks(queue', queue) /\ queue'.count = c
      BY <1>a, <3>1, <3>2 DEF QueueRecords
    <3>. QED BY <1>c, <2>1, <3>2, <3>3 DEF QueueSound
  <2>. QED BY <1>6, <2>3, <2>4
<1>7. ASSUME \/ \E t \in Owner : Q!TakeCounts(t)
             \/ Q!TakeHolds \/ Q!Nest \/ Q!Unnest \/ Q!GiveReleases \/ Q!GiveCounts
      PROVE  QueueSound(queue', queueOp', suspended')
  <2>1. queue.kind = "mutex" /\ suspended' = suspended
    BY <1>7, <1>a DEF Q!TakeCounts, Q!TakeHolds, Q!Nest, Q!Unnest, Q!GiveReleases, Q!GiveCounts,
                      QueueSound, RingSound, QueueRecords
  <2>2. MutexSound(queue, queueOp) /\ queue.nesting \in Nat /\ queue.holder \in Owner \cup {Q!Nobody}
    BY <1>a, <2>1 DEF QueueRecords
  <2>3. /\ SameRing(queue', queue) /\ SameLocks(queue', queue) /\ SamePlaces(queue', queue)
        /\ queue'.count <= 1 /\ (queue'.nesting > 0 => queue'.holder # Q!Nobody)
        /\ MutexSound(queue', queueOp')
    <3>1. CASE \E t \in Owner : Q!TakeCounts(t)
      <4>1. /\ queueOp.kind = "none" /\ queue.count = 1 /\ queue' = [queue EXCEPT !.count = 0]
            /\ queueOp'.kind = "take" /\ queueOp'.with \in Owner
        BY <3>1 DEF Q!TakeCounts
      <4>2. /\ SameRing(queue', queue) /\ SameLocks(queue', queue) /\ SamePlaces(queue', queue)
            /\ SameHolder(queue', queue) /\ queue'.count = 0
        BY <1>a, <4>1 DEF QueueRecords
      <4>. QED BY <2>1, <2>2, <4>1, <4>2 DEF MutexSound, QueueSound
    <3>2. CASE Q!TakeHolds
      <4>1. queueOp.kind = "take" /\ queue' = [queue EXCEPT !.holder = queueOp.with] /\ queueOp'.kind = "none"
        BY <3>2 DEF Q!TakeHolds
      <4>2. PICK h \in Owner : h = queueOp.with /\ h # Q!Nobody
        BY <2>2, <4>1 DEF MutexSound, Q!QueueAssumption
      <4>3. /\ SameRing(queue', queue) /\ SameLocks(queue', queue) /\ SamePlaces(queue', queue)
            /\ queue'.holder = h /\ queue'.count = queue.count
        BY <1>a, <4>1, <4>2 DEF QueueRecords
      <4>. QED BY <2>1, <2>2, <4>1, <4>2, <4>3 DEF MutexSound
    <3>3. CASE Q!Nest \/ Q!Unnest
      <4>1. PICK d \in Nat : /\ queue' = [queue EXCEPT !.nesting = d]
                             /\ queue.holder # Q!Nobody /\ queueOp' = queueOp
        BY <2>2, <3>3 DEF Q!Nest, Q!Unnest
      <4>2. /\ SameRing(queue', queue) /\ SameLocks(queue', queue) /\ SamePlaces(queue', queue)
            /\ queue'.holder = queue.holder /\ queue'.count = queue.count
        BY <1>a, <4>1 DEF QueueRecords
      <4>. QED BY <2>1, <2>2, <4>1, <4>2 DEF MutexSound
    <3>4. CASE Q!GiveReleases
      <4>1. /\ queueOp.kind = "none" /\ queue.holder # Q!Nobody /\ queue.nesting = 0
            /\ queue' = [queue EXCEPT !.holder = Q!Nobody] /\ queueOp'.kind = "give"
        BY <3>4 DEF Q!GiveReleases
      <4>2. /\ SameRing(queue', queue) /\ SameLocks(queue', queue) /\ SamePlaces(queue', queue)
            /\ queue'.holder = Q!Nobody /\ queue'.count = queue.count /\ queue'.nesting = queue.nesting
        BY <1>a, <4>1 DEF QueueRecords
      <4>. QED BY <2>1, <2>2, <4>1, <4>2 DEF MutexSound
    <3>5. CASE Q!GiveCounts
      <4>1. queueOp.kind = "give" /\ queue' = [queue EXCEPT !.count = 1] /\ queueOp'.kind = "none"
        BY <3>5 DEF Q!GiveCounts
      <4>2. /\ SameRing(queue', queue) /\ SameLocks(queue', queue) /\ SamePlaces(queue', queue)
            /\ SameHolder(queue', queue) /\ queue'.count = 1
        BY <1>a, <4>1 DEF QueueRecords
      <4>. QED BY <2>1, <2>2, <4>1, <4>2 DEF MutexSound, QueueSound
    <3>. QED BY <1>7, <3>1, <3>2, <3>3, <3>4, <3>5
  <2>. QED BY <1>a, <2>1, <2>2, <2>3 DEF QueueSound, MutexSound
<1>8. ASSUME Q!SuspendAll \/ Q!ResumeAll PROVE QueueSound(queue', queueOp', suspended')
  <2>1. /\ queue' = queue /\ queueOp' = queueOp /\ suspended' \in {0, 1}
        /\ queue.rx # -1 => suspended' = 1
    BY <1>8, <1>a DEF Q!SuspendAll, Q!ResumeAll, QueueSound
  <2>. QED BY <1>a, <2>1 DEF QueueSound
<1>9. ASSUME Q!Lock \/ Q!Unlock PROVE QueueSound(queue', queueOp', suspended')
  <2>1. queueOp' = queueOp /\ suspended' = suspended
    BY <1>9 DEF Q!Lock, Q!Unlock
  <2>2. ASSUME NEW x \in Int, queue' = [queue EXCEPT !.rx = x, !.tx = x], x = -1 \/ (x = 0 /\ suspended = 1)
        PROVE  QueueSound(queue', queueOp', suspended')
    <3>1. /\ SameRing(queue', queue) /\ SamePlaces(queue', queue) /\ SameHolder(queue', queue)
          /\ queue'.count = queue.count /\ queue'.rx = x /\ queue'.tx = x
      BY <1>a, <2>2 DEF QueueRecords
    <3>2. /\ queue.kind = "queue" => RingSound(queue', queueOp')
          /\ queue.kind = "mutex" => MutexSound(queue', queueOp')
      BY <1>a, <2>1, <3>1 DEF RingSound, MutexSound
    <3>. QED BY <1>a, <2>1, <2>2, <3>1, <3>2 DEF QueueSound
  <2>3. CASE Q!Lock
    <3>. PICK x \in Int : x = 0
      OBVIOUS
    <3>1. suspended = 1 /\ queue' = [queue EXCEPT !.rx = x, !.tx = x]
      BY <2>3 DEF Q!Lock
    <3>. QED BY <2>2, <3>1
  <2>4. CASE Q!Unlock
    <3>. PICK x \in Int : x = -1
      OBVIOUS
    <3>1. queue' = [queue EXCEPT !.rx = x, !.tx = x]
      BY <2>4 DEF Q!Unlock
    <3>. QED BY <2>2, <3>1
  <2>. QED BY <1>9, <2>3, <2>4
<1>. QED BY <1>1, <1>2, <1>3, <1>4, <1>5, <1>6, <1>7, <1>8, <1>9 DEF Q!Next

\* A behaviour about a queue starts in the invariant.
LEMMA QueueInvInit == ASSUME Q!QueueAssumption, Init PROVE QueueInv
<1> SUFFICES ASSUME object = "queue" PROVE QueueSound(queue, queueOp, suspended)
  BY DEF QueueInv
<1>1. Q!Init
  BY DEF Init
<1>. QED BY <1>1, CreatedSound

\* Its steps are stores of the kernel.
LEMMA QueueInvKept == ASSUME Q!QueueAssumption, QueueInv, [Next]_vars PROVE QueueInv'
<1> SUFFICES ASSUME object' = "queue" PROVE QueueSound(queue', queueOp', suspended')
  BY DEF QueueInv
<1>1. object = "queue" /\ (Q!Next \/ UNCHANGED <<queue, bytes, suspended, queueOp, queued>>)
  BY DEF Next, vars, queueVars
<1>2. QueueSound(queue, queueOp, suspended)
  BY <1>1 DEF QueueInv
<1>3. CASE Q!Next
  BY <1>2, <1>3, QueueStep
<1>4. CASE UNCHANGED <<queue, bytes, suspended, queueOp, queued>>
  BY <1>2, <1>4 DEF QueueSound, RingSound, MutexSound
<1>. QED BY <1>1, <1>3, <1>4

\* In the invariant the checks pass but between the two stores of a mutex.
LEMMA SoundPasses == ASSUME QueueSound(queue, queueOp, suspended) PROVE Q!HealthyPasses
<1> USE DEF Q!Unlocked
<1>a. /\ queue \in QueueRecords /\ suspended \in {0, 1}
      /\ queue.kind = "queue" => RingSound(queue, queueOp)
      /\ queue.kind = "mutex" => MutexSound(queue, queueOp)
  BY DEF QueueSound
<1>b. /\ queue.count \in Nat /\ queue.length \in Nat \ {0} /\ queue.nesting \in Nat
      /\ queue.kind \in {"queue", "semaphore", "mutex"}
  BY <1>a DEF QueueRecords
<1>1. queue.count <= queue.length
  BY DEF QueueSound
<1>2. Q!IsData => /\ Q!Span = queue.length * queue.size
                  /\ Q!InStorage(queue.write) /\ Q!InStorage(queue.read)
  BY <1>a, <1>b DEF Q!IsData, Q!Span, Q!InStorage, RingSound, MutexSound, Inside, QueueSound
<1>3. queue.kind = "mutex" => (Q!MutexAccounting <=> queueOp.kind = "none")
  BY <1>a, <1>b DEF Q!MutexAccounting, MutexSound
<1>4. queue.kind = "semaphore" => queue.head = Q!Self /\ queue.size = 0
  BY DEF QueueSound
<1>5. (queue.rx = -1 /\ queue.tx = -1) \/ suspended # 0
  BY DEF QueueSound
<1>6. ASSUME NEW c \in DOMAIN Q!QueueChecks, Q!QueueChecks[c] = "fail"
      PROVE  c = "MutexAccounting" /\ queueOp.kind \in {"take", "give"}
  <2>1. c \in {"Count", "Storage", "WritePtr", "ReadPtr", "MutexAccounting", "SemaphoreSelfHead", "QueueLock"}
    BY <1>6 DEF Q!QueueChecks
  <2>2. queue.kind = "mutex" => queueOp.kind \in {"none", "take", "give"}
    BY <1>a DEF MutexSound
  <2>3. /\ Q!QueueChecks.Count = "ok" /\ Q!QueueChecks.QueueLock = "ok"
        /\ Q!QueueChecks.Storage # "fail" /\ Q!QueueChecks.WritePtr # "fail" /\ Q!QueueChecks.ReadPtr # "fail"
    BY <1>1, <1>2, <1>5 DEF Q!QueueChecks, Q!Verdict
  <2>4. Q!QueueChecks.SemaphoreSelfHead # "fail"
    BY <1>4 DEF Q!QueueChecks, Q!Verdict
  <2>5. Q!QueueChecks.MutexAccounting = "fail" => queue.kind = "mutex" /\ queueOp.kind # "none"
    BY <1>3 DEF Q!QueueChecks, Q!Verdict
  <2>. QED BY <1>6, <2>1, <2>2, <2>3, <2>4, <2>5
<1>7. ASSUME queue.kind = "mutex"
      PROVE  /\ (Q!MutexRow.held /\ Q!MutexRow.owner = Q!Nobody) <=> Q!QueueChecks.MutexAccounting = "fail"
             /\ (Q!MutexRow.owner # Q!Nobody \/ Q!MutexRow.recursive > 0) => Q!MutexRow.held
  <2>1. /\ Q!MutexRow.held <=> queue.count = 0
        /\ Q!MutexRow.owner = queue.holder /\ Q!MutexRow.recursive = queue.nesting
    BY <1>7 DEF Q!MutexRow, Q!Holder
  <2>2. Q!QueueChecks.MutexAccounting = "fail" <=> queueOp.kind # "none"
    BY <1>3, <1>7 DEF Q!QueueChecks, Q!Verdict
  <2>3. /\ queue.count = 0 <=> ~(queue.holder = Q!Nobody /\ queueOp.kind = "none")
        /\ queue.holder # Q!Nobody => queueOp.kind = "none"
        /\ queue.nesting > 0 => queue.holder # Q!Nobody
    BY <1>a, <1>7 DEF MutexSound, QueueSound
  <2>. QED BY <2>1, <2>2, <2>3
<1>8. Q!SemaphoreRow.count <= Q!SemaphoreRow.max
  BY <1>1 DEF Q!SemaphoreRow
<1>. QED BY <1>6, <1>7, <1>8 DEF Q!HealthyPasses

\* A behaviour about a queue stays in the invariant.
THEOREM QueuesAreSound == Spec => []QueueInv
<1>1. Q!QueueAssumption
  BY ObjectsAssumption
<1>2. Init => QueueInv
  BY <1>1, QueueInvInit
<1>3. QueueInv /\ [Next]_vars => QueueInv'
  BY <1>1, QueueInvKept
<1>. QED BY <1>2, <1>3, PTL DEF Spec

\* The checks of a queue, a semaphore or a mutex of any length and item size
\* find no fault with it, wherever it is halted, but for the accounting of a
\* mutex between its two stores; and they find that one always.
THEOREM HealthyQueuePasses == Spec => []HealthyPasses
<1>1. QueueInv => HealthyPasses
  BY SoundPasses DEF QueueInv, HealthyPasses
<1>. QED BY <1>1, QueuesAreSound, PTL

-----------------------------------------------------------------------------
\* The dump of a ring (Queues).

\* Multiples of a size, in order.
LEMMA WordsInBytes ==
  ASSUME NEW w \in Nat \ {0}, NEW a \in Nat, NEW b \in Nat
  PROVE  /\ a * w \in Nat /\ (a <= b => a * w <= b * w) /\ (a < b => a * w + w <= b * w)
         /\ (a > 0 => a * w >= w)
OBVIOUS

\* The slot behind another, the slot before it, and the i-th one behind it.
After(k, n) == IF k = n - 1 THEN 0 ELSE k + 1
Before(k, n) == IF k = 0 THEN n - 1 ELSE k - 1
Further(r, i, n) == IF r + i < n THEN r + i ELSE r + i - n
SlotAt(k, s) == Q!Storage + k * s

\* A ring of n slots of s bytes holds e behind slot r, and w is the next free.
RingHolds(n, s, b, r, w, e) ==
  /\ r \in 0..(n - 1) /\ e \in Seq(Int) /\ Len(e) <= n
  /\ w = After(Further(r, Len(e), n), n)
  /\ b \in [Q!Storage..(Q!Storage + n * s - 1) -> Int]
  /\ \A i \in 1..Len(e) : \A k \in 0..(s - 1) : b[SlotAt(Further(r, i, n), s) + k] = e[i]

\* What the pointers tell: the content, and the operation under way.
Shelved(o, c) ==
  IF o.kind = "back" THEN Append(c, o.with)
  ELSE IF o.kind = "front" THEN <<o.with>> \o c
  ELSE IF o.kind = "over" THEN <<o.with>>
  ELSE IF o.kind = "receive" THEN Tail(c) ELSE c

ContentSound(q, b, o, c) ==
  /\ c \in Seq(Int) /\ q.count = Len(c)
  /\ o.kind \in {"back", "front", "over"} => o.with \in Int
  /\ o.kind = "over" => q.length = 1
  /\ \E r, w \in 0..(q.length - 1) :
       /\ q.read = SlotAt(r, q.size) /\ q.write = SlotAt(w, q.size)
       /\ RingHolds(q.length, q.size, b, r, w, Shelved(o, c))

ContentInv == object = "queue" /\ queue.kind = "queue" => ContentSound(queue, bytes, queueOp, queued)

Written(b, at, s, v) == [x \in DOMAIN b |-> IF x \in at..(at + s - 1) THEN v ELSE b[x]]

\* A slot further round the ring is a slot.
LEMMA SlotFurther ==
  ASSUME NEW n \in Nat \ {0}, NEW r \in 0..(n - 1), NEW i \in 0..n PROVE Further(r, i, n) \in 0..(n - 1)
BY DEF Further

\* No two steps of one round end in the same slot.
LEMMA NoOtherAsFar ==
  ASSUME NEW n \in Nat \ {0}, NEW r \in 0..(n - 1), NEW i \in 1..n, NEW j \in 1..n,
         Further(r, i, n) = Further(r, j, n)
  PROVE  i = j
BY DEF Further

\* One slot further, counted from either side.
LEMMA OneFurther ==
  ASSUME NEW n \in Nat \ {0}, NEW r \in 0..(n - 1), NEW i \in 0..(n - 1)
  PROVE  /\ After(Further(r, i, n), n) = Further(r, i + 1, n)
         /\ Further(After(r, n), i, n) = Further(r, i + 1, n)
         /\ Further(Before(r, n), i + 1, n) = Further(r, i, n)
BY DEF After, Before, Further

\* The slots next to a slot are slots.
LEMMA NextSlots ==
  ASSUME NEW n \in Nat \ {0}, NEW r \in 0..(n - 1)
  PROVE  After(r, n) \in 0..(n - 1) /\ Before(r, n) \in 0..(n - 1) /\ Further(r, 0, n) = r
BY DEF After, Before, Further

\* Two slots have no byte in common, and lie in the storage.
LEMMA SlotsApart ==
  ASSUME NEW n \in Nat \ {0}, NEW s \in Nat \ {0}, NEW k \in 0..(n - 1), NEW m \in 0..(n - 1),
         NEW a \in 0..(s - 1)
  PROVE  /\ SlotAt(m, s) \in Nat
         /\ SlotAt(m, s) + a \in Q!Storage..(Q!Storage + n * s - 1)
         /\ SlotAt(m, s) + s <= Q!Storage + n * s
         /\ SlotAt(m, s) + a \in SlotAt(k, s)..(SlotAt(k, s) + s - 1) <=> m = k
<1>1. PICK x, y, z : x = m * s /\ y = k * s /\ z = n * s
  OBVIOUS
<1>2. /\ x \in Nat /\ y \in Nat /\ z \in Nat /\ x + s <= z
      /\ m < k => x + s <= y
      /\ k < m => y + s <= x
      /\ k = m => x = y
  BY <1>1, WordsInBytes
<1>. QED BY <1>1, <1>2 DEF SlotAt, Q!Storage

\* The storage b with v in every byte of slot k.
WrittenSlot(n, s, b, k, v, x) ==
  /\ x \in [Q!Storage..(Q!Storage + n * s - 1) -> Int]
  /\ \A m \in 0..(n - 1) : \A a \in 0..(s - 1) :
       x[SlotAt(m, s) + a] = IF m = k THEN v ELSE b[SlotAt(m, s) + a]

\* Writing a slot leaves the other ones.
LEMMA WrittenIs ==
  ASSUME NEW n \in Nat \ {0}, NEW s \in Nat \ {0}, NEW k \in 0..(n - 1), NEW v \in Int,
         NEW b \in [Q!Storage..(Q!Storage + n * s - 1) -> Int]
  PROVE  WrittenSlot(n, s, b, k, v, Written(b, SlotAt(k, s), s, v))
<1>. PICK x : x = Written(b, SlotAt(k, s), s, v)
  OBVIOUS
<1>1. x \in [Q!Storage..(Q!Storage + n * s - 1) -> Int]
  BY DEF Written
<1>2. ASSUME NEW m \in 0..(n - 1), NEW a \in 0..(s - 1)
      PROVE  x[SlotAt(m, s) + a] = IF m = k THEN v ELSE b[SlotAt(m, s) + a]
  <2>1. PICK at : at = SlotAt(m, s) + a
    OBVIOUS
  <2>2. at \in DOMAIN b /\ (at \in SlotAt(k, s)..(SlotAt(k, s) + s - 1) <=> m = k)
    BY <2>1, SlotsApart
  <2>. QED BY <2>1, <2>2 DEF Written
<1>. QED BY <1>1, <1>2 DEF WrittenSlot

\* A pointer moved forward is at the slot behind, one moved back at the slot before.
LEMMA PointersMove ==
  ASSUME NEW n \in Nat \ {0}, NEW s \in Nat \ {0}, NEW k \in 0..(n - 1), NEW tail, tail = Q!Storage + n * s
  PROVE  /\ SlotAt(After(k, n), s) = IF SlotAt(k, s) + s >= tail THEN Q!Storage ELSE SlotAt(k, s) + s
         /\ SlotAt(Before(k, n), s) = IF SlotAt(k, s) - s < Q!Storage THEN tail - s ELSE SlotAt(k, s) - s
<1>1. PICK x, z : x = k * s /\ z = n * s
  OBVIOUS
<1>2. /\ x \in Nat /\ z \in Nat
      /\ k = n - 1 => x + s = z
      /\ k < n - 1 => x + s + s <= z /\ (k + 1) * s = x + s
      /\ k = 0 => x = 0
      /\ k > 0 => x >= s /\ (k - 1) * s = x - s
      /\ (n - 1) * s = z - s
  <2>1. x \in Nat /\ z \in Nat
    BY <1>1, WordsInBytes
  <2>2. (k + 1) * s = x + s /\ (k - 1) * s = x - s /\ (n - 1) * s = z - s
    BY <1>1
  <2>3. k < n - 1 => (k + 1) * s + s <= z
    BY <1>1, WordsInBytes
  <2>4. k > 0 => x >= s
    BY <1>1, WordsInBytes
  <2>. QED BY <1>1, <2>1, <2>2, <2>3, <2>4
<1>3. 0 * s = 0
  OBVIOUS
<1>. QED BY <1>1, <1>2, <1>3 DEF SlotAt, After, Before, Q!Storage

\* An item sent to the back goes into the next free slot.
LEMMA RingAppends ==
  ASSUME NEW n \in Nat \ {0}, NEW s \in Nat \ {0}, NEW b, NEW r, NEW w, NEW e, NEW v \in Int,
         RingHolds(n, s, b, r, w, e), Len(e) < n
  PROVE  RingHolds(n, s, Written(b, SlotAt(w, s), s, v), r, After(w, n), Append(e, v))
<1>1. /\ r \in 0..(n - 1) /\ e \in Seq(Int) /\ Len(e) \in Nat
      /\ w = After(Further(r, Len(e), n), n)
      /\ b \in [Q!Storage..(Q!Storage + n * s - 1) -> Int]
      /\ \A i \in 1..Len(e) : \A k \in 0..(s - 1) : b[SlotAt(Further(r, i, n), s) + k] = e[i]
  BY DEF RingHolds
<1>2. PICK m \in Nat : m = Len(e)
  BY <1>1
<1>3. m \in 0..(n - 1) /\ m + 1 \in 1..n
  BY <1>2
<1>4. w = Further(r, m + 1, n) /\ w \in 0..(n - 1)
  <2>1. After(Further(r, m, n), n) = Further(r, m + 1, n)
    BY <1>1, <1>3, OneFurther
  <2>2. m + 1 \in 0..n
    BY <1>3
  <2>3. Further(r, m + 1, n) \in 0..(n - 1)
    BY <1>1, <2>2, SlotFurther
  <2>. QED BY <1>1, <1>2, <2>1, <2>3
<1>5. PICK f : f = Append(e, v)
  OBVIOUS
<1>6. f \in Seq(Int) /\ Len(f) = m + 1 /\ f[m + 1] = v /\ \A i \in 1..m : f[i] = e[i]
  BY <1>1, <1>2, <1>5
<1>7. PICK x : x = Written(b, SlotAt(w, s), s, v)
  OBVIOUS
<1>8. /\ x \in [Q!Storage..(Q!Storage + n * s - 1) -> Int]
      /\ \A j \in 0..(n - 1) : \A a \in 0..(s - 1) :
           x[SlotAt(j, s) + a] = IF j = w THEN v ELSE b[SlotAt(j, s) + a]
  <2>1. WrittenSlot(n, s, b, w, v, x)
    BY <1>1, <1>4, <1>7, WrittenIs, Zenon
  <2>. QED BY <2>1 DEF WrittenSlot
<1>9. ASSUME NEW i \in 1..(m + 1), NEW k \in 0..(s - 1) PROVE x[SlotAt(Further(r, i, n), s) + k] = f[i]
  <2>1. i \in 1..n
    BY <1>3
  <2>2. PICK j : j = Further(r, i, n)
    OBVIOUS
  <2>3. j \in 0..(n - 1) /\ (j = w <=> i = m + 1)
    <3>1. i \in 0..n /\ m + 1 \in 1..n
      BY <1>3, <2>1
    <3>2. j \in 0..(n - 1)
      BY <1>1, <2>2, <3>1, SlotFurther
    <3>3. Further(r, i, n) = Further(r, m + 1, n) => i = m + 1
      BY <1>1, <2>1, <3>1, NoOtherAsFar
    <3>. QED BY <1>4, <2>2, <3>2, <3>3
  <2>4. CASE i = m + 1
    BY <1>6, <1>8, <2>2, <2>3, <2>4
  <2>5. CASE i # m + 1
    <3>1. i \in 1..m
      BY <2>5
    <3>2. b[SlotAt(j, s) + k] = e[i]
      BY <1>1, <1>2, <2>2, <3>1
    <3>. QED BY <1>6, <1>8, <2>2, <2>3, <2>5, <3>1, <3>2
  <2>. QED BY <2>4, <2>5
<1>10. RingHolds(n, s, x, r, After(w, n), f)
  BY <1>1, <1>3, <1>4, <1>6, <1>8, <1>9 DEF RingHolds
<1>. QED BY <1>5, <1>7, <1>10

\* An item sent to the front goes into the slot received last.
LEMMA RingPushes ==
  ASSUME NEW n \in Nat \ {0}, NEW s \in Nat \ {0}, NEW b, NEW r, NEW w, NEW e, NEW v \in Int,
         RingHolds(n, s, b, r, w, e), Len(e) < n
  PROVE  RingHolds(n, s, Written(b, SlotAt(r, s), s, v), Before(r, n), w, <<v>> \o e)
<1>1. /\ r \in 0..(n - 1) /\ e \in Seq(Int) /\ Len(e) \in Nat
      /\ w = After(Further(r, Len(e), n), n)
      /\ b \in [Q!Storage..(Q!Storage + n * s - 1) -> Int]
      /\ \A i \in 1..Len(e) : \A k \in 0..(s - 1) : b[SlotAt(Further(r, i, n), s) + k] = e[i]
  BY DEF RingHolds
<1>2. PICK m \in Nat : m = Len(e)
  BY <1>1
<1>3. m \in 0..(n - 1) /\ m + 1 \in 1..n
  BY <1>2
<1>4. PICK q : q = Before(r, n)
  OBVIOUS
<1>5. /\ q \in 0..(n - 1) /\ Further(q, 1, n) = r /\ Further(q, m + 1, n) = Further(r, m, n)
      /\ \A i \in 1..m : Further(q, i + 1, n) = Further(r, i, n)
  <2>1. \A i \in 0..m : Further(q, i + 1, n) = Further(r, i, n)
    <3>1. \A i \in 0..m : i \in 0..(n - 1)
      BY <1>3
    <3>. QED BY <1>1, <1>4, <3>1, OneFurther
  <2>2. 0 \in 0..m /\ m \in 0..m /\ 0 + 1 = 1 /\ \A i \in 1..m : i \in 0..m
    OBVIOUS
  <2>3. q \in 0..(n - 1) /\ Further(r, 0, n) = r
    BY <1>1, <1>4, NextSlots
  <2>. QED BY <2>1, <2>2, <2>3
<1>6. PICK f : f = <<v>> \o e
  OBVIOUS
<1>7. f \in Seq(Int) /\ Len(f) = m + 1 /\ f[1] = v /\ \A i \in 1..m : f[i + 1] = e[i]
  <2>1. <<v>> \in Seq(Int) /\ Len(<<v>>) = 1 /\ <<v>>[1] = v
    OBVIOUS
  <2>2. f \in Seq(Int) /\ Len(f) = 1 + m
    BY <1>1, <1>2, <1>6, <2>1, ConcatProperties
  <2>3. \A i \in 1..(1 + m) : f[i] = IF i <= 1 THEN <<v>>[i] ELSE e[i - 1]
    BY <1>1, <1>2, <1>6, <2>1, ConcatProperties
  <2>4. f[1] = v
    BY <2>1, <2>3
  <2>5. \A i \in 1..m : f[i + 1] = e[i]
    <3>1. \A i \in 1..m : i + 1 \in 1..(1 + m) /\ ~(i + 1 <= 1) /\ (i + 1) - 1 = i
      OBVIOUS
    <3>. QED BY <2>3, <3>1
  <2>. QED BY <2>2, <2>4, <2>5
<1>8. PICK x : x = Written(b, SlotAt(r, s), s, v)
  OBVIOUS
<1>9. /\ x \in [Q!Storage..(Q!Storage + n * s - 1) -> Int]
      /\ \A j \in 0..(n - 1) : \A a \in 0..(s - 1) :
           x[SlotAt(j, s) + a] = IF j = r THEN v ELSE b[SlotAt(j, s) + a]
  <2>1. WrittenSlot(n, s, b, r, v, x)
    BY <1>1, <1>8, WrittenIs, Zenon
  <2>. QED BY <2>1 DEF WrittenSlot
<1>10. ASSUME NEW i \in 1..(m + 1), NEW k \in 0..(s - 1) PROVE x[SlotAt(Further(q, i, n), s) + k] = f[i]
  <2>1. i \in 1..n
    BY <1>3
  <2>2. PICK j : j = Further(q, i, n)
    OBVIOUS
  <2>3. j \in 0..(n - 1) /\ (j = r <=> i = 1)
    <3>1. 1 \in 1..n /\ i \in 0..n
      BY <2>1
    <3>2. j \in 0..(n - 1)
      BY <1>5, <2>2, <3>1, SlotFurther
    <3>3. Further(q, i, n) = Further(q, 1, n) => i = 1
      BY <1>5, <2>1, <3>1, NoOtherAsFar
    <3>. QED BY <1>5, <2>2, <3>2, <3>3
  <2>4. CASE i = 1
    BY <1>7, <1>9, <2>2, <2>3, <2>4
  <2>5. CASE i # 1
    <3>1. PICK h \in 1..m : i = h + 1
      <4>1. i - 1 \in 1..m /\ i = (i - 1) + 1
        BY <2>5
      <4>. QED BY <4>1
    <3>2. j = Further(r, h, n) /\ f[i] = e[h]
      BY <1>5, <1>7, <2>2, <3>1
    <3>3. b[SlotAt(j, s) + k] = e[h]
      BY <1>1, <1>2, <3>1, <3>2
    <3>. QED BY <1>9, <2>2, <2>3, <2>5, <3>2, <3>3
  <2>. QED BY <2>4, <2>5
<1>11. RingHolds(n, s, x, q, w, f)
  <2>1. w = After(Further(q, Len(f), n), n) /\ Len(f) <= n
    BY <1>1, <1>2, <1>3, <1>5, <1>7
  <2>. QED BY <1>5, <1>7, <1>9, <1>10, <2>1 DEF RingHolds
<1>. QED BY <1>4, <1>6, <1>8, <1>11

\* Receiving moves on to the slot of the oldest item.
LEMMA RingReceives ==
  ASSUME NEW n \in Nat \ {0}, NEW s \in Nat \ {0}, NEW b, NEW r, NEW w, NEW e,
         RingHolds(n, s, b, r, w, e), Len(e) > 0
  PROVE  RingHolds(n, s, b, After(r, n), w, Tail(e))
<1>1. /\ r \in 0..(n - 1) /\ e \in Seq(Int) /\ Len(e) \in Nat /\ Len(e) <= n
      /\ w = After(Further(r, Len(e), n), n)
      /\ b \in [Q!Storage..(Q!Storage + n * s - 1) -> Int]
      /\ \A i \in 1..Len(e) : \A k \in 0..(s - 1) : b[SlotAt(Further(r, i, n), s) + k] = e[i]
  BY DEF RingHolds
<1>2. PICK m \in Nat : Len(e) = m + 1
  <2>1. Len(e) - 1 \in Nat /\ Len(e) = (Len(e) - 1) + 1
    BY <1>1
  <2>. QED BY <2>1
<1>3. m \in 0..(n - 1)
  BY <1>1, <1>2
<1>4. PICK f : f = Tail(e)
  OBVIOUS
<1>5. f \in Seq(Int) /\ Len(f) = m /\ \A i \in 1..m : f[i] = e[i + 1]
  <2>1. e # << >>
    BY <1>1, <1>2
  <2>. QED BY <1>1, <1>2, <1>4, <2>1, HeadTailProperties
<1>6. PICK q : q = After(r, n)
  OBVIOUS
<1>7. q \in 0..(n - 1) /\ \A i \in 0..m : Further(q, i, n) = Further(r, i + 1, n)
  <2>1. \A i \in 0..m : i \in 0..(n - 1)
    BY <1>3
  <2>. QED BY <1>1, <1>6, <2>1, NextSlots, OneFurther
<1>8. ASSUME NEW i \in 1..m, NEW k \in 0..(s - 1) PROVE b[SlotAt(Further(q, i, n), s) + k] = f[i]
  <2>1. i \in 0..m /\ i + 1 \in 1..Len(e)
    BY <1>2
  <2>2. Further(q, i, n) = Further(r, i + 1, n)
    BY <1>7, <2>1
  <2>3. b[SlotAt(Further(r, i + 1, n), s) + k] = e[i + 1]
    BY <1>1, <2>1
  <2>. QED BY <1>5, <2>2, <2>3
<1>9. w = After(Further(q, m, n), n)
  <2>1. m \in 0..m
    OBVIOUS
  <2>. QED BY <1>1, <1>2, <1>7, <2>1
<1>10. RingHolds(n, s, b, q, w, f)
  BY <1>1, <1>3, <1>5, <1>7, <1>8, <1>9 DEF RingHolds
<1>. QED BY <1>4, <1>6, <1>10

\* Writing over the only item of a ring of one.
LEMMA RingOverwrites ==
  ASSUME NEW s \in Nat \ {0}, NEW b, NEW r, NEW w, NEW e, NEW v \in Int, RingHolds(1, s, b, r, w, e)
  PROVE  RingHolds(1, s, Written(b, SlotAt(r, s), s, v), Before(r, 1), w, <<v>>)
<1>1. r = 0 /\ e \in Seq(Int) /\ w = 0 /\ b \in [Q!Storage..(Q!Storage + 1 * s - 1) -> Int]
  <2>1. /\ r \in 0..(1 - 1) /\ e \in Seq(Int) /\ Len(e) <= 1 /\ Len(e) \in Nat
        /\ w = After(Further(r, Len(e), 1), 1)
        /\ b \in [Q!Storage..(Q!Storage + 1 * s - 1) -> Int]
    BY DEF RingHolds
  <2>2. PICK m \in Nat : m = Len(e) /\ m <= 1 /\ w = After(Further(r, m, 1), 1)
    BY <2>1
  <2>3. r \in 0..(1 - 1)
    BY <2>1
  <2>4. r = 0 /\ w = 0
    BY <2>2, <2>3 DEF After, Further
  <2>. QED BY <2>1, <2>4
<1>2. Before(r, 1) = 0 /\ Further(0, 1, 1) = 0 /\ After(0, 1) = 0
  BY <1>1 DEF Before, Further, After
<1>3. PICK x : x = Written(b, SlotAt(r, s), s, v)
  OBVIOUS
<1>4. /\ x \in [Q!Storage..(Q!Storage + 1 * s - 1) -> Int]
      /\ \A a \in 0..(s - 1) : x[SlotAt(0, s) + a] = v
  <2>1. 1 \in Nat \ {0} /\ r \in 0..(1 - 1) /\ 0 \in 0..(1 - 1)
    BY <1>1
  <2>2. WrittenSlot(1, s, b, r, v, x)
    BY <1>1, <1>3, <2>1, WrittenIs
  <2>. QED BY <1>1, <2>1, <2>2 DEF WrittenSlot
<1>5. PICK f : f = <<v>>
  OBVIOUS
<1>6. f \in Seq(Int) /\ Len(f) = 1 /\ f[1] = v
  BY <1>5
<1>7. \A i \in 1..Len(f) : i = 1
  BY <1>6
<1>8. RingHolds(1, s, x, 0, w, f)
  <2>1. 0 \in 0..(1 - 1)
    OBVIOUS
  <2>. QED BY <1>1, <1>2, <1>4, <1>6, <1>7, <2>1 DEF RingHolds
<1>. QED BY <1>2, <1>3, <1>5, <1>8

\* An empty ring, with the slot received last at its end.
LEMMA RingEmpty ==
  ASSUME NEW n \in Nat \ {0}, NEW s, NEW b \in [Q!Storage..(Q!Storage + n * s - 1) -> Int]
  PROVE  RingHolds(n, s, b, n - 1, 0, << >>)
<1>1. After(Further(n - 1, 0, n), n) = 0 /\ n - 1 \in 0..(n - 1)
  BY DEF After, Further
<1>2. << >> \in Seq(Int) /\ Len(<< >>) = 0
  OBVIOUS
<1>. QED BY <1>1, <1>2 DEF RingHolds

\* Every store of the kernel keeps the ring and what it holds in step.
LEMMA ContentStep ==
  ASSUME Q!QueueAssumption, queue.kind = "queue", QueueSound(queue, queueOp, suspended),
         ContentSound(queue, bytes, queueOp, queued), Q!Next
  PROVE  ContentSound(queue', bytes', queueOp', queued')
<1>i. PICK q, b, o, c : q = queue /\ b = bytes /\ o = queueOp /\ c = queued
  OBVIOUS
<1>j. PICK q2, b2, o2, c2 : q2 = queue' /\ b2 = bytes' /\ o2 = queueOp' /\ c2 = queued'
  OBVIOUS
<1>1. PICK n \in Nat \ {0}, s \in Nat \ {0} : n = q.length /\ s = q.size
  BY <1>i DEF QueueSound, QueueRecords, RingSound
<1>2. /\ q \in QueueRecords /\ q.head = Q!Storage /\ q.tail = Q!Storage + n * s
      /\ o.kind \in {"none", "back", "front", "over", "receive"}
      /\ o.kind \in {"back", "front"} => q.count < n
      /\ o.kind = "receive" => q.count > 0
      /\ q.holder = Q!Nobody /\ q.kind = "queue"
  <2>1. q \in QueueRecords /\ RingSound(q, o) /\ q.holder = Q!Nobody /\ q.kind = "queue"
    BY <1>i DEF QueueSound
  <2>2. q.tail \in Nat /\ q.head \in Nat /\ n * s \in Nat
    BY <1>1, <2>1, WordsInBytes DEF QueueRecords
  <2>3. q.tail = Q!Storage + n * s
    <3>1. PICK z \in Nat : z = n * s
      BY <2>2
    <3>2. q.tail - q.head = z /\ q.head = Q!Storage
      BY <1>1, <2>1, <3>1 DEF RingSound
    <3>. QED BY <2>2, <3>1, <3>2 DEF Q!Storage
  <2>. QED BY <1>1, <2>1, <2>3 DEF RingSound
<1>3. /\ c \in Seq(Int) /\ q.count = Len(c)
      /\ o.kind \in {"back", "front", "over"} => o.with \in Int
      /\ o.kind = "over" => n = 1
  BY <1>i, <1>1 DEF ContentSound
<1>4. PICK r \in 0..(n - 1), w \in 0..(n - 1) :
         /\ q.read = SlotAt(r, s) /\ q.write = SlotAt(w, s)
         /\ RingHolds(n, s, b, r, w, Shelved(o, c))
  BY <1>i, <1>1 DEF ContentSound
<1>5. b \in [Q!Storage..(Q!Storage + n * s - 1) -> Int]
  BY <1>4 DEF RingHolds
<1>6. ASSUME NEW r2 \in 0..(n - 1), NEW w2 \in 0..(n - 1),
             q2.length = n, q2.size = s, q2.read = SlotAt(r2, s), q2.write = SlotAt(w2, s),
             RingHolds(n, s, b2, r2, w2, Shelved(o2, c2)), c2 \in Seq(Int), q2.count = Len(c2),
             o2.kind \in {"back", "front", "over"} => o2.with \in Int, o2.kind = "over" => n = 1
      PROVE  ContentSound(queue', bytes', queueOp', queued')
  <2>1. ContentSound(q2, b2, o2, c2)
    BY <1>6 DEF ContentSound
  <2>. QED BY <1>j, <2>1
<1>7. ASSUME NEW v \in Value, NEW where \in {"back", "front", "over"}, Q!SendCopies(v, where)
      PROVE  ContentSound(queue', bytes', queueOp', queued')
  <2>1. /\ o.kind = "none" /\ c2 = c /\ v \in Int
        /\ q.count < n \/ (where = "over" /\ n = 1)
        /\ where = "over" => n = 1
        /\ o2 = [kind |-> where, with |-> v]
    BY <1>i, <1>j, <1>1, <1>7 DEF Q!SendCopies, Q!Idle, Q!QueueAssumption
  <2>2. Shelved(o, c) = c
    BY <2>1 DEF Shelved
  <2>3. o2.kind = where /\ o2.with = v
    BY <2>1
  <2>4. CASE where = "back"
    <3>1. b2 = Written(b, SlotAt(w, s), s, v)
      BY <1>i, <1>j, <1>1, <1>4, <1>7, <2>4 DEF Q!SendCopies, Q!Put, Written
    <3>2. q2 = [q EXCEPT !.write = IF SlotAt(w, s) + s >= q.tail THEN Q!Storage ELSE SlotAt(w, s) + s]
      BY <1>i, <1>j, <1>1, <1>2, <1>4, <1>7, <2>4 DEF Q!SendCopies, Q!Forward
    <3>3. q2 = [q EXCEPT !.write = SlotAt(After(w, n), s)]
      BY <1>2, <3>2, PointersMove
    <3>4. /\ q2.length = n /\ q2.size = s /\ q2.read = SlotAt(r, s) /\ q2.count = q.count
          /\ q2.write = SlotAt(After(w, n), s)
      BY <1>1, <1>2, <1>4, <3>3 DEF QueueRecords
    <3>5. Shelved(o2, c2) = Append(c, v)
      BY <2>1, <2>3, <2>4 DEF Shelved
    <3>6. RingHolds(n, s, b2, r, After(w, n), Append(c, v))
      BY <1>3, <1>4, <2>1, <2>2, <2>4, <3>1, RingAppends
    <3>7. After(w, n) \in 0..(n - 1)
      BY NextSlots
    <3>. QED BY <1>3, <1>6, <2>1, <2>3, <3>4, <3>5, <3>6, <3>7
  <2>5. ASSUME where # "back"
        PROVE  /\ b2 = Written(b, SlotAt(r, s), s, v)
               /\ q2.length = n /\ q2.size = s /\ q2.read = SlotAt(Before(r, n), s) /\ q2.count = q.count
               /\ q2.write = SlotAt(w, s)
    <3>1. b2 = Written(b, SlotAt(r, s), s, v)
      BY <1>i, <1>j, <1>1, <1>4, <1>7, <2>5 DEF Q!SendCopies, Q!Put, Written
    <3>2. q2 = [q EXCEPT !.read = IF SlotAt(r, s) - s < Q!Storage THEN q.tail - s ELSE SlotAt(r, s) - s]
      BY <1>i, <1>j, <1>1, <1>2, <1>4, <1>7, <2>5 DEF Q!SendCopies, Q!Back
    <3>3. q2 = [q EXCEPT !.read = SlotAt(Before(r, n), s)]
      BY <1>2, <3>2, PointersMove
    <3>4. /\ q2.length = n /\ q2.size = s /\ q2.read = SlotAt(Before(r, n), s) /\ q2.count = q.count
          /\ q2.write = SlotAt(w, s)
      BY <1>1, <1>2, <1>4, <3>3 DEF QueueRecords
    <3>. QED BY <3>1, <3>4
  <2>6. CASE where = "front"
    <3>1. Shelved(o2, c2) = <<v>> \o c
      BY <2>1, <2>3, <2>6 DEF Shelved
    <3>2. RingHolds(n, s, b2, Before(r, n), w, <<v>> \o c)
      BY <1>3, <1>4, <2>1, <2>2, <2>5, <2>6, RingPushes
    <3>3. Before(r, n) \in 0..(n - 1)
      BY NextSlots
    <3>. QED BY <1>3, <1>6, <2>1, <2>3, <2>5, <2>6, <3>1, <3>2, <3>3
  <2>7. CASE where = "over"
    <3>1. Shelved(o2, c2) = <<v>>
      BY <2>1, <2>3, <2>7 DEF Shelved
    <3>2. n = 1
      BY <2>1, <2>7
    <3>3. RingHolds(1, s, b, r, w, c)
      BY <1>4, <2>2, <3>2
    <3>4. RingHolds(1, s, Written(b, SlotAt(r, s), s, v), Before(r, 1), w, <<v>>)
      BY <2>1, <3>3, RingOverwrites
    <3>5. Before(r, n) \in 0..(n - 1)
      BY NextSlots
    <3>6. RingHolds(n, s, b2, Before(r, n), w, <<v>>)
      BY <2>5, <2>7, <3>2, <3>4
    <3>. QED BY <1>3, <1>6, <2>1, <2>3, <2>5, <2>7, <3>1, <3>2, <3>5, <3>6
  <2>. QED BY <2>4, <2>6, <2>7
<1>8. CASE Q!SendCounts
  <2>1. /\ o.kind \in {"back", "front", "over"} /\ b2 = b
        /\ o2 = [o EXCEPT !.kind = "none"]
        /\ c2 = IF o.kind = "back" THEN Append(c, o.with)
                ELSE IF o.kind = "front" THEN <<o.with>> \o c ELSE <<o.with>>
    BY <1>i, <1>j, <1>8 DEF Q!SendCounts
  <2>2. /\ q2.length = n /\ q2.size = s /\ q2.read = q.read /\ q2.write = q.write
        /\ q2.count = IF o.kind = "over" THEN 1 ELSE q.count + 1
    <3>1. PICK k, l : k = (IF o.kind = "over" THEN 1 ELSE q.count + 1)
                      /\ l = (IF q.tx = Q!Unlocked THEN q.tx ELSE q.tx + 1)
      OBVIOUS
    <3>2. q2 = [q EXCEPT !.count = k, !.tx = l]
      BY <1>i, <1>j, <1>8, <3>1 DEF Q!SendCounts
    <3>. QED BY <1>1, <1>2, <3>1, <3>2 DEF QueueRecords
  <2>3. c2 = Shelved(o, c)
    BY <2>1 DEF Shelved
  <2>4. o2.kind \notin {"back", "front", "over", "receive"}
    <3>1. o2.kind = "none" \/ "kind" \notin DOMAIN o
      BY <2>1
    <3>. QED BY <2>1, <3>1
  <2>5. Shelved(o2, c2) = c2
    BY <2>4 DEF Shelved
  <2>6. c2 \in Seq(Int)
    BY <1>4, <2>3 DEF RingHolds
  <2>7. q2.count = Len(c2)
    <3>1. CASE o.kind = "back"
      BY <1>3, <2>1, <2>2, <3>1
    <3>2. CASE o.kind = "front"
      <4>1. <<o.with>> \in Seq(Int) /\ Len(<<o.with>>) = 1 /\ c2 = <<o.with>> \o c
        BY <1>3, <2>1, <3>2
      <4>2. Len(c2) = 1 + Len(c) /\ Len(c) \in Nat
        BY <1>3, <4>1, ConcatProperties
      <4>. QED BY <1>3, <2>2, <3>2, <4>2
    <3>3. CASE o.kind = "over"
      BY <2>1, <2>2, <3>3
    <3>. QED BY <2>1, <3>1, <3>2, <3>3
  <2>. QED BY <1>4, <1>6, <2>1, <2>2, <2>3, <2>4, <2>5, <2>6, <2>7
<1>9. CASE Q!ReceiveCopies
  <2>1. o.kind = "none" /\ b2 = b /\ c2 = c /\ q.count > 0 /\ o2 = [kind |-> "receive", with |-> 0]
    BY <1>i, <1>j, <1>9 DEF Q!ReceiveCopies, Q!Idle
  <2>2. q2 = [q EXCEPT !.read = IF SlotAt(r, s) + s >= q.tail THEN Q!Storage ELSE SlotAt(r, s) + s]
    BY <1>i, <1>j, <1>1, <1>2, <1>4, <1>9 DEF Q!ReceiveCopies, Q!Forward
  <2>3. q2 = [q EXCEPT !.read = SlotAt(After(r, n), s)]
    BY <1>2, <2>2, PointersMove
  <2>4. /\ q2.length = n /\ q2.size = s /\ q2.read = SlotAt(After(r, n), s) /\ q2.count = q.count
        /\ q2.write = SlotAt(w, s)
    BY <1>1, <1>2, <1>4, <2>3 DEF QueueRecords
  <2>5. Shelved(o, c) = c /\ Shelved(o2, c2) = Tail(c) /\ o2.kind = "receive"
    BY <2>1 DEF Shelved
  <2>6. RingHolds(n, s, b2, After(r, n), w, Tail(c))
    BY <1>3, <1>4, <2>1, <2>5, RingReceives
  <2>7. After(r, n) \in 0..(n - 1)
    BY NextSlots
  <2>. QED BY <1>3, <1>6, <2>1, <2>4, <2>5, <2>6, <2>7
<1>10. CASE Q!ReceiveCounts
  <2>1. o.kind = "receive" /\ b2 = b /\ c2 = Tail(c) /\ o2 = [o EXCEPT !.kind = "none"]
    BY <1>i, <1>j, <1>10 DEF Q!ReceiveCounts
  <2>2. /\ q2.length = n /\ q2.size = s /\ q2.read = q.read /\ q2.write = q.write /\ q2.count = q.count - 1
    <3>1. PICK k, l : k = q.count - 1 /\ l = (IF q.rx = Q!Unlocked THEN q.rx ELSE q.rx + 1)
      OBVIOUS
    <3>2. q2 = [q EXCEPT !.count = k, !.rx = l]
      BY <1>i, <1>j, <1>10, <3>1 DEF Q!ReceiveCounts
    <3>. QED BY <1>1, <1>2, <3>1, <3>2 DEF QueueRecords
  <2>3. c2 = Shelved(o, c)
    BY <2>1 DEF Shelved
  <2>4. o2.kind \notin {"back", "front", "over", "receive"}
    <3>1. o2.kind = "none" \/ "kind" \notin DOMAIN o
      BY <2>1
    <3>. QED BY <2>1, <3>1
  <2>5. Shelved(o2, c2) = c2
    BY <2>4 DEF Shelved
  <2>6. c2 \in Seq(Int) /\ Len(c2) = Len(c) - 1
    <3>1. c # << >>
      BY <1>2, <1>3, <2>1
    <3>. QED BY <1>3, <2>1, <3>1, HeadTailProperties
  <2>. QED BY <1>3, <1>4, <1>6, <2>1, <2>2, <2>3, <2>4, <2>5, <2>6
<1>11. CASE Q!Reset
  <2>1. b2 = b /\ o2 = o /\ c2 = << >> /\ o.kind = "none"
    BY <1>i, <1>j, <1>11 DEF Q!Reset, Q!Idle
  <2>2. q2 = [q EXCEPT !.count = 0, !.write = q.head, !.read = q.tail - s]
    BY <1>i, <1>j, <1>1, <1>11 DEF Q!Reset
  <2>3. q.head = SlotAt(0, s) /\ q.tail - s = SlotAt(n - 1, s)
    <3>1. PICK z \in Nat : z = n * s
      BY WordsInBytes
    <3>2. 0 * s = 0 /\ (n - 1) * s = z - s
      BY <3>1
    <3>. QED BY <1>2, <3>1, <3>2 DEF SlotAt, Q!Storage
  <2>4. q2 = [q EXCEPT !.count = 0, !.write = SlotAt(0, s), !.read = SlotAt(n - 1, s)]
    BY <2>2, <2>3
  <2>5. /\ q2.length = n /\ q2.size = s /\ q2.read = SlotAt(n - 1, s) /\ q2.count = 0
        /\ q2.write = SlotAt(0, s)
    BY <1>1, <1>2, <2>4 DEF QueueRecords
  <2>6. Shelved(o2, c2) = << >>
    BY <2>1 DEF Shelved
  <2>7. RingHolds(n, s, b2, n - 1, 0, << >>)
    BY <1>5, <2>1, RingEmpty
  <2>8. 0 \in 0..(n - 1) /\ n - 1 \in 0..(n - 1) /\ << >> \in Seq(Int) /\ Len(<< >>) = 0
    OBVIOUS
  <2>. QED BY <1>6, <2>1, <2>5, <2>6, <2>7, <2>8
<1>12. ASSUME Q!SuspendAll \/ Q!Lock \/ Q!Unlock \/ Q!ResumeAll
       PROVE  ContentSound(queue', bytes', queueOp', queued')
  <2>1. b2 = b /\ o2 = o /\ c2 = c
    BY <1>i, <1>j, <1>12 DEF Q!SuspendAll, Q!Lock, Q!Unlock, Q!ResumeAll
  <2>2. q2 = q \/ \E k : q2 = [q EXCEPT !.rx = k, !.tx = k]
    BY <1>i, <1>j, <1>12 DEF Q!SuspendAll, Q!Lock, Q!Unlock, Q!ResumeAll
  <2>3. /\ q2.length = n /\ q2.size = s /\ q2.read = q.read /\ q2.write = q.write /\ q2.count = q.count
    BY <1>1, <1>2, <2>2 DEF QueueRecords
  <2>. QED BY <1>3, <1>4, <1>6, <2>1, <2>3
<1>13. /\ ~Q!Give /\ ~Q!Take /\ ~Q!TakeHolds /\ ~Q!Nest /\ ~Q!Unnest /\ ~Q!GiveReleases /\ ~Q!GiveCounts
       /\ \A t \in Owner : ~Q!TakeCounts(t)
  BY <1>i, <1>2 DEF Q!Give, Q!Take, Q!TakeHolds, Q!Nest, Q!Unnest, Q!GiveReleases, Q!GiveCounts, Q!TakeCounts
<1>. QED BY <1>7, <1>8, <1>9, <1>10, <1>11, <1>12, <1>13 DEF Q!Next

\* A ring is created empty.
LEMMA ContentInit ==
  ASSUME Q!QueueAssumption, Q!Init, queue.kind = "queue" PROVE ContentSound(queue, bytes, queueOp, queued)
<1>1. PICK n \in Lengths, s \in ItemSizes : queue = Q!Created("queue", n, s)
  <2>1. \/ \E l \in Lengths, s \in ItemSizes : queue = Q!Created("queue", l, s)
        \/ \E l \in Lengths : queue = Q!Created("semaphore", l, 0)
        \/ queue = Q!Created("mutex", 1, 0)
    BY DEF Q!Init
  <2>. QED BY <2>1 DEF Q!Created
<1>2. n \in Nat \ {0} /\ s \in Nat \ {0}
  BY DEF Q!QueueAssumption
<1>3. PICK z \in Nat : z = n * s
  BY <1>2, WordsInBytes
<1>4. /\ queue.length = n /\ queue.size = s /\ queue.count = 0 /\ queue.head = Q!Storage
      /\ queue.tail = Q!Storage + z /\ queue.write = Q!Storage /\ queue.read = Q!Storage + z - s
  <2>1. queue = [kind |-> "queue", length |-> n, size |-> s, count |-> 0,
                 head |-> 8, tail |-> 8 + z, write |-> 8, read |-> 8 + z - s,
                 rx |-> -1, tx |-> -1, holder |-> Q!Nobody, nesting |-> 0]
    BY <1>1, <1>2, <1>3 DEF Q!Created, Q!Storage, Q!Unlocked
  <2>. QED BY <2>1 DEF Q!Storage
<1>5. SlotAt(0, s) = Q!Storage /\ SlotAt(n - 1, s) = Q!Storage + z - s
  <2>1. 0 * s = 0 /\ (n - 1) * s = z - s
    BY <1>2, <1>3
  <2>. QED BY <1>2, <1>3, <2>1 DEF SlotAt, Q!Storage
<1>6. /\ bytes \in [Q!Storage..(Q!Storage + n * s - 1) -> Int] /\ queued = << >> /\ queueOp.kind = "none"
  <2>1. bytes = [a \in queue.head..(queue.tail - 1) |-> 0] /\ queued = << >> /\ queueOp.kind = "none"
    BY DEF Q!Init
  <2>2. bytes = [a \in Q!Storage..(Q!Storage + z - 1) |-> 0]
    <3>1. queue.head..(queue.tail - 1) = Q!Storage..(Q!Storage + z - 1)
      BY <1>4 DEF Q!Storage
    <3>. QED BY <2>1, <3>1
  <2>3. bytes \in [Q!Storage..(Q!Storage + z - 1) -> Int]
    BY <2>2
  <2>. QED BY <1>3, <2>1, <2>3
<1>7. Shelved(queueOp, queued) = << >>
  BY <1>6 DEF Shelved
<1>8. RingHolds(n, s, bytes, n - 1, 0, << >>)
  BY <1>2, <1>6, RingEmpty
<1>9. 0 \in 0..(n - 1) /\ n - 1 \in 0..(n - 1) /\ << >> \in Seq(Int) /\ Len(<< >>) = 0
  BY <1>2
<1>. QED BY <1>4, <1>5, <1>6, <1>7, <1>8, <1>9 DEF ContentSound

\* A number less than twice another leaves at most one of it behind.
LEMMA SmallRemainder == ASSUME NEW m \in Nat \ {0}, NEW x \in Nat, x < m PROVE x % m = x
OBVIOUS

\* From there on it is taken off once.
LEMMA NextRemainder ==
  ASSUME NEW m \in Nat \ {0}, NEW x \in Nat, x < m + m, x >= m PROVE x % m = x - m
OBVIOUS

\* Behind the slot received last lies the i-th item, round the end of the storage.
LEMMA ItemsAreSlots ==
  ASSUME NEW n \in Nat \ {0}, NEW s \in Nat \ {0}, NEW r \in 0..(n - 1), NEW i \in 1..n,
         queue.size = s, queue.head = Q!Storage, queue.tail = Q!Storage + n * s,
         queue.read = SlotAt(r, s)
  PROVE  Q!ItemAt(i) = SlotAt(Further(r, i, n), s)
<1>1. PICK x, y, z : x = r * s /\ y = i * s /\ z = n * s
  OBVIOUS
<1>2. /\ x \in Nat /\ y \in Nat /\ z \in Nat \ {0} /\ x + s <= z /\ y <= z
      /\ (r + i) * s = x + y /\ (r + i - n) * s = x + y - z
      /\ r + i < n => x + y + s <= z
      /\ r + i >= n => x + y >= z
  <2>1. x \in Nat /\ y \in Nat /\ z \in Nat /\ x + s <= z /\ y <= z
    BY <1>1, WordsInBytes
  <2>2. (r + i) * s = x + y /\ (r + i - n) * s = x + y - z
    BY <1>1
  <2>3. r + i \in Nat
    OBVIOUS
  <2>4. /\ r + i < n => (r + i) * s + s <= z
        /\ r + i >= n => (r + i) * s >= z
    BY <1>1, <2>3, WordsInBytes
  <2>. QED BY <2>1, <2>2, <2>4
<1>3. x + y \in Nat /\ x + y < z + z
  BY <1>2
<1>4. (x + y) % z = IF x + y < z THEN x + y ELSE x + y - z
  <2>1. PICK sum \in Nat : sum = x + y
    BY <1>3
  <2>2. sum < z + z
    BY <1>3, <2>1
  <2>3. sum < z => sum % z = sum
    BY <1>2, SmallRemainder
  <2>4. sum >= z => sum % z = sum - z
    BY <1>2, <2>2, NextRemainder
  <2>5. sum % z = IF sum < z THEN sum ELSE sum - z
    BY <1>2, <2>3, <2>4
  <2>. QED BY <1>2, <2>1, <2>5
<1>5. (x + y) % z = Further(r, i, n) * s
  BY <1>2, <1>4 DEF Further
<1>6. Q!ItemAt(i) = Q!Storage + ((x + y) % z)
  <2>1. queue.read + i * queue.size - queue.head = x + y
    BY <1>1, <1>2 DEF SlotAt, Q!Storage
  <2>2. Q!Span = z
    BY <1>1, <1>2 DEF Q!Span, Q!Storage
  <2>. QED BY <2>1, <2>2 DEF Q!ItemAt
<1>. QED BY <1>5, <1>6 DEF SlotAt

\* In the invariant the dump is what the queue holds.
LEMMA SoundDumps ==
  ASSUME QueueSound(queue, queueOp, suspended), queue.kind = "queue",
         ContentSound(queue, bytes, queueOp, queued)
  PROVE  Q!DumpIsContent
<1>1. PICK n \in Nat \ {0}, s \in Nat \ {0} : n = queue.length /\ s = queue.size
  BY DEF QueueSound, QueueRecords, RingSound
<1>2. /\ queue \in QueueRecords /\ queue.head = Q!Storage /\ queue.tail = Q!Storage + n * s
      /\ queue.count \in Nat /\ queue.count <= n
      /\ (queue.rx = Q!Unlocked /\ queue.tx = Q!Unlocked) \/ suspended # 0
  <2>1. queue \in QueueRecords /\ RingSound(queue, queueOp)
    BY DEF QueueSound
  <2>2. queue.tail \in Nat /\ queue.head \in Nat /\ n * s \in Nat
    BY <1>1, <2>1, WordsInBytes DEF QueueRecords
  <2>3. queue.tail = Q!Storage + n * s
    <3>1. PICK z \in Nat : z = n * s
      BY <2>2
    <3>2. queue.tail - queue.head = z /\ queue.head = Q!Storage
      BY <1>1, <2>1, <3>1 DEF RingSound
    <3>. QED BY <2>2, <3>1, <3>2 DEF Q!Storage
  <2>4. (queue.rx = Q!Unlocked /\ queue.tx = Q!Unlocked) \/ suspended # 0
    BY DEF QueueSound
  <2>. QED BY <1>1, <2>1, <2>3, <2>4 DEF QueueSound, RingSound, QueueRecords
<1>3. queued \in Seq(Int) /\ queue.count = Len(queued)
  BY DEF ContentSound
<1>4. PICK r \in 0..(n - 1), w \in 0..(n - 1) :
         /\ queue.read = SlotAt(r, s)
         /\ RingHolds(n, s, bytes, r, w, Shelved(queueOp, queued))
  BY <1>1 DEF ContentSound
<1>5. PICK m \in Nat : m = queue.count /\ m <= n
  BY <1>2
<1>6. \A i \in 1..m : Q!ItemAt(i) = SlotAt(Further(r, i, n), s)
  <2>1. \A i \in 1..m : i \in 1..n
    BY <1>5
  <2>. QED BY <1>1, <1>2, <1>4, <2>1, ItemsAreSlots
<1>7. PICK items : items = Q!QueueItems
  OBVIOUS
<1>8. items = [i \in 1..m |-> [address |-> Q!ItemAt(i), payload |-> [k \in 0..(s - 1) |-> bytes[Q!ItemAt(i) + k]]]]
  <2>1. CASE m = 0
    <3>1. ~Q!Dumps
      BY <1>5, <2>1 DEF Q!Dumps
    <3>2. items = << >>
      BY <1>7, <3>1 DEF Q!QueueItems
    <3>3. 1..m = {}
      BY <2>1
    <3>. QED BY <3>2, <3>3
  <2>2. CASE m # 0
    <3>1. n * s > 0 /\ n * s \in Nat
      BY WordsInBytes
    <3>2. Q!Span = n * s
      <4>1. PICK z \in Nat : z = n * s
        BY <3>1
      <4>. QED BY <1>2, <4>1 DEF Q!Span, Q!Storage
    <3>3. Q!Dumps
      BY <1>1, <1>5, <2>2, <3>1, <3>2 DEF Q!Dumps
    <3>4. Q!Smaller(queue.count, queue.length) = m
      BY <1>1, <1>5 DEF Q!Smaller
    <3>. QED BY <1>1, <1>7, <3>3, <3>4 DEF Q!QueueItems
  <2>. QED BY <2>1, <2>2
<1>9. DOMAIN items = 1..m /\ \A i \in 1..m :
        items[i] = [address |-> Q!ItemAt(i), payload |-> [k \in 0..(s - 1) |-> bytes[Q!ItemAt(i) + k]]]
  BY <1>8
<1>10. Len(items) = m
  <2>1. PICK X : X = {items[i] : i \in 1..m}
    OBVIOUS
  <2>2. items \in [1..m -> X]
    <3>1. \A i \in 1..m : items[i] \in X
      BY <2>1
    <3>2. items = [i \in DOMAIN items |-> items[i]]
      BY <1>8
    <3>. QED BY <1>9, <3>1, <3>2
  <2>3. items \in Seq(X)
    BY <2>2, SeqDef
  <2>. QED BY <1>9, <2>3, LenProperties
<1>11. \A i \in DOMAIN items : items[i].address + queue.size <= queue.tail
  <2>1. ASSUME NEW i \in 1..m PROVE SlotAt(Further(r, i, n), s) + s <= Q!Storage + n * s
    <3>1. i \in 0..n /\ 0 \in 0..(s - 1)
      BY <1>5
    <3>2. Further(r, i, n) \in 0..(n - 1)
      BY <1>4, <3>1, SlotFurther
    <3>. QED BY <1>4, <3>1, <3>2, SlotsApart
  <2>. QED BY <1>1, <1>2, <1>6, <1>9, <2>1
<1>12. \A i, j \in DOMAIN items : items[i].address = items[j].address => i = j
  <2>1. ASSUME NEW i \in 1..m, NEW j \in 1..m, SlotAt(Further(r, i, n), s) = SlotAt(Further(r, j, n), s)
        PROVE  i = j
    <3>1. i \in 1..n /\ j \in 1..n /\ i \in 0..n /\ j \in 0..n /\ 0 \in 0..(s - 1)
      BY <1>5
    <3>2. PICK k, l : k = Further(r, i, n) /\ l = Further(r, j, n)
      OBVIOUS
    <3>3. k \in 0..(n - 1) /\ l \in 0..(n - 1)
      BY <1>4, <3>1, <3>2, SlotFurther
    <3>4. /\ SlotAt(l, s) \in Nat
          /\ SlotAt(l, s) + 0 \in SlotAt(k, s)..(SlotAt(k, s) + s - 1) <=> l = k
      BY <3>1, <3>3, SlotsApart
    <3>5. SlotAt(l, s) = SlotAt(k, s)
      BY <2>1, <3>2
    <3>6. k = l
      BY <3>4, <3>5
    <3>. QED BY <1>4, <3>1, <3>2, <3>6, NoOtherAsFar
  <2>. QED BY <1>6, <1>9, <2>1
<1>13. ASSUME queueOp.kind = "none"
       PROVE  \A i \in 1..m : \A k \in 0..(s - 1) : items[i].payload[k] = queued[i]
  <2>1. Shelved(queueOp, queued) = queued
    BY <1>13 DEF Shelved
  <2>2. \A i \in 1..m : \A k \in 0..(s - 1) : bytes[SlotAt(Further(r, i, n), s) + k] = queued[i]
    BY <1>3, <1>4, <1>5, <2>1 DEF RingHolds
  <2>3. ASSUME NEW i \in 1..m, NEW k \in 0..(s - 1) PROVE items[i].payload[k] = queued[i]
    <3>1. items[i].payload = [j \in 0..(s - 1) |-> bytes[Q!ItemAt(i) + j]]
      <4> DEFINE read == [j \in 0..(s - 1) |-> bytes[Q!ItemAt(i) + j]]
      <4>1. items[i] = [address |-> Q!ItemAt(i), payload |-> read]
        BY <1>9, Zenon
      <4> HIDE DEF read
      <4>2. items[i].payload = read
        BY <4>1
      <4>. QED BY <4>2 DEF read
    <3>2. items[i].payload[k] = bytes[Q!ItemAt(i) + k]
      BY <3>1
    <3>3. Q!ItemAt(i) = SlotAt(Further(r, i, n), s)
      BY <1>6
    <3>. QED BY <2>2, <3>2, <3>3
  <2>. QED BY <2>3
<1>14. ASSUME queueOp.kind = "none", NEW i \in 1..m
       PROVE  Q!TimerCommands[i] = [callback |-> queued[i] < 0, id |-> queued[i]]
  <2>1. items[i].payload[0] = queued[i]
    <3>1. 0 \in 0..(s - 1)
      OBVIOUS
    <3>. QED BY <1>13, <1>14, <3>1
  <2>2. PICK id \in Int : id = queued[i]
    BY <1>3, <1>5
  <2>3. Q!TimerCommands[i] = IF id < 0 THEN [callback |-> TRUE, id |-> id] ELSE [callback |-> FALSE, id |-> id]
    BY <1>7, <1>9, <2>1, <2>2 DEF Q!TimerCommands
  <2>4. CASE id < 0
    <3>1. (id < 0) = TRUE
      BY <2>4
    <3>. QED BY <2>2, <2>3, <2>4, <3>1
  <2>5. CASE ~(id < 0)
    <3>1. (id < 0) = FALSE
      BY <2>5
    <3>. QED BY <2>2, <2>3, <2>5, <3>1
  <2>. QED BY <2>4, <2>5
<1>15. /\ Q!QueueRow.count = m /\ Q!QueueRow.free = queue.length - m
       /\ Q!QueueRow.lock = {} \/ suspended # 0
  <2>1. Q!FreeSlots = queue.length - m
    BY <1>1, <1>5 DEF Q!FreeSlots
  <2>. QED BY <1>2, <1>5, <2>1 DEF Q!QueueRow
<1>16. DOMAIN queued = 1..m /\ Len(queued) = m
  BY <1>3, <1>5
<1>. QED BY <1>1, <1>7, <1>9, <1>10, <1>11, <1>12, <1>13, <1>14, <1>15, <1>16 DEF Q!DumpIsContent, Q!Idle

\* A semaphore or a mutex has no items to dump.
LEMMA NothingDumped ==
  ASSUME QueueSound(queue, queueOp, suspended), queue.kind # "queue" PROVE Q!DumpIsContent
<1>1. queue.size = 0
  BY DEF QueueSound, MutexSound, QueueRecords
<1>2. Q!QueueItems = << >>
  BY <1>1 DEF Q!QueueItems, Q!Dumps
<1>3. DOMAIN Q!QueueItems = {}
  BY <1>2
<1>. QED BY <1>3 DEF Q!DumpIsContent, Q!IsQueue

\* A behaviour about a queue starts with an empty one.
LEMMA ContentInvInit == ASSUME Q!QueueAssumption, Init PROVE ContentInv
<1>1. object = "queue" => Q!Init
  BY DEF Init
<1>. QED BY <1>1, ContentInit DEF ContentInv

\* Its steps keep the ring, and leave a semaphore what it is.
LEMMA ContentInvKept == ASSUME Q!QueueAssumption, QueueInv, ContentInv, [Next]_vars PROVE ContentInv'
<1> SUFFICES ASSUME object' = "queue", queue'.kind = "queue"
             PROVE  ContentSound(queue', bytes', queueOp', queued')
  BY DEF ContentInv
<1>1. object = "queue" /\ (Q!Next \/ UNCHANGED <<queue, bytes, suspended, queueOp, queued>>)
  BY DEF Next, vars, queueVars
<1>2. QueueSound(queue, queueOp, suspended)
  BY <1>1 DEF QueueInv
<1>3. queue.kind = "queue"
  BY <1>1, <1>2 DEF QueueSound, QueueRecords, Q!Next, Q!SendCopies, Q!SendCounts, Q!ReceiveCopies,
     Q!ReceiveCounts, Q!Reset, Q!Give, Q!Take, Q!TakeCounts, Q!TakeHolds, Q!Nest, Q!Unnest, Q!GiveReleases,
     Q!GiveCounts, Q!SuspendAll, Q!Lock, Q!Unlock, Q!ResumeAll
<1>4. ContentSound(queue, bytes, queueOp, queued)
  BY <1>1, <1>3 DEF ContentInv
<1>5. CASE Q!Next
  BY <1>2, <1>3, <1>4, <1>5, ContentStep
<1>6. CASE UNCHANGED <<queue, bytes, suspended, queueOp, queued>>
  BY <1>4, <1>6 DEF ContentSound, Shelved
<1>. QED BY <1>1, <1>5, <1>6

\* What the storage and the pointers of a queue tell is what was sent to it and
\* not received, with what a call under way has stored already.
THEOREM RingsAreSound == Spec => [](QueueInv /\ ContentInv)
<1>1. Init => QueueInv /\ ContentInv
  BY QueueInvInit, ContentInvInit, ObjectsAssumption
<1>2. (QueueInv /\ ContentInv) /\ [Next]_vars => (QueueInv /\ ContentInv)'
  BY QueueInvKept, ContentInvKept, ObjectsAssumption
<1>. QED BY <1>1, <1>2, PTL DEF Spec

\* The dump of a queue is what it holds in the order it will be received, for any
\* length and item size, at every position of the ring and after sends to the
\* back, to the front and over the last item; at no halt does it leave the
\* storage or read an item twice.
THEOREM DumpsAreContent == Spec => []DumpIsContent
<1>1. QueueInv /\ ContentInv => DumpIsContent
  BY SoundDumps, NothingDumped DEF QueueInv, ContentInv, DumpIsContent
<1>. QED BY <1>1, RingsAreSound, PTL

-----------------------------------------------------------------------------
\* The event groups (EventGroups).

\* The value the kernel packs of a request.
Packed(r) ==
  r.wants \cup E!Flag(r.clear, TickBits - 8) \cup E!Flag(r.all, TickBits - 6) \cup {TickBits - 1}

\* An item of the wait list that says what its task asked for, or that the
\* kernel has just rewritten; one the walk has passed is not satisfied.
ItemSound(item, r, i, w, set) ==
  /\ ~(w.rewritten /\ i = w.at) => item.value = Packed(r)
  /\ (w.rewritten /\ i = w.at) => item.value = set \cup {TickBits - 7, TickBits - 1}
  /\ (i < w.at \/ w.at = 0) => ~E!Matches(r.all, r.wants, set)

GroupSound(set, items, requests, w) ==
  /\ set \subseteq AppBits
  /\ items \in Seq([owner : Task, value : SUBSET Nat])
  /\ requests \in Seq(E!Requests)
  /\ Len(items) = Len(requests)
  /\ w \in [at : Nat, rewritten : BOOLEAN, clears : SUBSET AppBits]
  /\ w.at = 0 => w = E!NoWalk
  /\ w.rewritten => w.at \in DOMAIN items /\ set # {}
  /\ \A i \in DOMAIN items : ItemSound(items[i], requests[i], i, w, set)

\* All the items of a list.
AllSound(items, requests, w, set) ==
  \A i \in DOMAIN items : ItemSound(items[i], requests[i], i, w, set)

GroupInv == object = "group" => GroupSound(bits, waiting, asked, walk)

\* A sequence without one of its items.
Less(s, i) == SubSeq(s, 1, i - 1) \o SubSeq(s, i + 1, Len(s))

\* The items before it stay in their places, those after it move up.
LEMMA Removed ==
  \A X, s, i :
    (/\ s \in Seq(X)
     /\ i \in DOMAIN s)
    =>
    (/\ Less(s, i) \in Seq(X) /\ Len(Less(s, i)) = Len(s) - 1
     /\ \A j \in DOMAIN Less(s, i) : Less(s, i)[j] = IF j < i THEN s[j] ELSE s[j + 1]
     /\ DOMAIN Less(s, i) = 1..(Len(s) - 1) /\ DOMAIN s = 1..Len(s))
<1>. TAKE X, s, i
<1>a. HAVE /\ s \in Seq(X)
           /\ i \in DOMAIN s
<1>r. PICK r : r = Less(s, i)
  OBVIOUS
<1>b. PICK n : n = Len(s)
  OBVIOUS
<1>1. DOMAIN s = 1..n /\ n \in Nat /\ i \in Nat /\ i >= 1 /\ i <= n
  BY <1>a, <1>b
<1>n. n \in Nat /\ i \in Nat /\ i >= 1 /\ i <= n
  BY <1>1
<1>c. PICK a : a = SubSeq(s, 1, i - 1)
  OBVIOUS
<1>d. PICK b : b = SubSeq(s, i + 1, n)
  OBVIOUS
<1>2. a \in Seq(X) /\ Len(a) = i - 1 /\ \A j \in 1..(i - 1) : a[j] = s[j]
  <2>1. \A j \in 1..(i - 1) : s[j] \in X
    BY <1>a, <1>1
  <2>2. i - 1 \in Int /\ (i - 1) - 1 + 1 = i - 1 /\ (1 <= i - 1 \/ i - 1 = 0)
    BY <1>n
  <2>3. /\ a \in Seq(X) /\ Len(a) = IF 1 <= i - 1 THEN (i - 1) - 1 + 1 ELSE 0
        /\ \A j \in 1..((i - 1) - 1 + 1) : a[j] = s[1 + j - 1]
    BY <1>c, <2>1, <2>2, SubSeqProperties
  <2>. QED BY <1>n, <2>2, <2>3
<1>3. b \in Seq(X) /\ Len(b) = n - i /\ \A j \in 1..(n - i) : b[j] = s[i + j]
  <2>1. \A j \in (i + 1)..n : s[j] \in X
    BY <1>a, <1>1
  <2>2. i + 1 \in Int /\ n \in Int
    BY <1>n
  <2>3. /\ b \in Seq(X) /\ Len(b) = IF i + 1 <= n THEN n - (i + 1) + 1 ELSE 0
        /\ \A j \in 1..(n - (i + 1) + 1) : b[j] = s[(i + 1) + j - 1]
    BY <1>d, <2>1, <2>2, SubSeqProperties
  <2>4. Len(b) = n - i
    <3>1. Len(b) = IF i + 1 <= n THEN n - (i + 1) + 1 ELSE 0
      BY <2>3, Zenon
    <3>2. (IF i + 1 <= n THEN n - (i + 1) + 1 ELSE 0) = n - i
      BY <1>n
    <3>. QED BY <3>1, <3>2
  <2>5. ASSUME NEW j \in 1..(n - i) PROVE b[j] = s[i + j]
    <3>1. j \in 1..(n - (i + 1) + 1) /\ (i + 1) + j - 1 = i + j
      BY <1>n
    <3>. QED BY <2>3, <3>1
  <2>6. b \in Seq(X)
    BY <2>3, Zenon
  <2>. QED BY <2>4, <2>5, <2>6
<1>4. /\ r \in Seq(X) /\ Len(r) = n - 1
      /\ \A j \in 1..(n - 1) : r[j] = IF j <= i - 1 THEN a[j] ELSE b[j - (i - 1)]
  <2>1. r = a \o b
    BY <1>b, <1>c, <1>d, <1>r DEF Less
  <2>2. /\ r \in Seq(X) /\ Len(r) = Len(a) + Len(b)
        /\ \A j \in 1..(Len(a) + Len(b)) : r[j] = IF j <= Len(a) THEN a[j] ELSE b[j - Len(a)]
    BY <1>2, <1>3, <2>1, ConcatProperties, Zenon
  <2>3. Len(a) + Len(b) = n - 1
    BY <1>n, <1>2, <1>3
  <2>. QED BY <1>2, <2>2, <2>3
<1>5. ASSUME NEW j \in 1..(n - 1) PROVE r[j] = IF j < i THEN s[j] ELSE s[j + 1]
  <2>1. r[j] = IF j <= i - 1 THEN a[j] ELSE b[j - (i - 1)]
    BY <1>4
  <2>2. CASE j < i
    BY <1>n, <1>2, <2>1, <2>2
  <2>3. CASE ~(j < i)
    <3>1. j - (i - 1) \in 1..(n - i) /\ i + (j - (i - 1)) = j + 1 /\ ~(j <= i - 1)
      BY <1>n, <2>3
    <3>2. b[j - (i - 1)] = s[i + (j - (i - 1))]
      BY <1>3, <3>1
    <3>. QED BY <2>1, <2>3, <3>1, <3>2
  <2>. QED BY <2>2, <2>3
<1>6. DOMAIN r = 1..(n - 1)
  BY <1>4
<1>. QED BY <1>b, <1>r, <1>1, <1>4, <1>5, <1>6

\* What is packed tells the request.
LEMMA Unpacked ==
  ASSUME E!EventAssumption, NEW r \in E!Requests
  PROVE  /\ Packed(r) \subseteq Nat /\ Packed(r) \cap AppBits = r.wants
         /\ Packed(r) \ ((TickBits - 8)..(TickBits - 1)) = r.wants
         /\ (TickBits - 8) \in Packed(r) <=> r.clear
         /\ (TickBits - 6) \in Packed(r) <=> r.all
         /\ (TickBits - 1) \in Packed(r)
<1>1. /\ r.wants \subseteq AppBits /\ r.clear \in BOOLEAN /\ r.all \in BOOLEAN
  BY DEF E!Requests
<1>2. TickBits \in {16, 32, 64} /\ \A b \in AppBits : b \in Nat /\ b < TickBits - 8
  BY DEF E!EventAssumption
<1>3. \A b : b \in Packed(r) <=> \/ b \in r.wants
                                 \/ r.clear /\ b = TickBits - 8
                                 \/ r.all /\ b = TickBits - 6
                                 \/ b = TickBits - 1
  BY <1>1 DEF Packed, E!Flag
<1>. QED BY <1>1, <1>2, <1>3

\* Fewer bits satisfy no more.
LEMMA MatchesGrows ==
  ASSUME NEW r \in E!Requests, NEW a, NEW b, a \subseteq b, E!Matches(r.all, r.wants, a)
  PROVE  E!Matches(r.all, r.wants, b)
BY DEF E!Matches, E!Requests

\* Taking an item off the list leaves the others as sound as they were.
LEMMA RemovedSound ==
  \A X, Y, set, items, requests, w, v, k :
    (/\ items \in Seq(X)
     /\ requests \in Seq(Y)
     /\ Len(items) = Len(requests)
     /\ k \in DOMAIN items
     /\ v.at \in Nat
     /\ ~v.rewritten
     /\ w.at = v.at
     /\ w.rewritten => w.at = k
     /\ v.at > 0 => k = v.at
     /\ AllSound(items, requests, w, set))
    =>
    (/\ Less(items, k) \in Seq(X)
     /\ Less(requests, k) \in Seq(Y)
     /\ Len(Less(items, k)) = Len(Less(requests, k))
     /\ AllSound(Less(items, k), Less(requests, k), v, set))
<1>. TAKE X, Y, set, items, requests, w, v, k
<1>a. HAVE /\ items \in Seq(X)
           /\ requests \in Seq(Y)
           /\ Len(items) = Len(requests)
           /\ k \in DOMAIN items
           /\ v.at \in Nat
           /\ ~v.rewritten
           /\ w.at = v.at
           /\ w.rewritten => w.at = k
           /\ v.at > 0 => k = v.at
           /\ AllSound(items, requests, w, set)
<1>c. PICK less : less = Less(items, k)
  OBVIOUS
<1>d. PICK rest : rest = Less(requests, k)
  OBVIOUS
<1>b. PICK n : n = Len(items)
  OBVIOUS
<1>1. /\ less \in Seq(X) /\ Len(less) = Len(items) - 1
      /\ \A j \in DOMAIN less : less[j] = IF j < k THEN items[j] ELSE items[j + 1]
      /\ DOMAIN less = 1..(Len(items) - 1) /\ DOMAIN items = 1..Len(items)
  BY <1>a, <1>c, Removed
<1>2. k \in DOMAIN requests
  BY <1>a, <1>1
<1>3. /\ rest \in Seq(Y) /\ Len(rest) = Len(requests) - 1
      /\ \A j \in DOMAIN rest : rest[j] = IF j < k THEN requests[j] ELSE requests[j + 1]
      /\ DOMAIN rest = 1..(Len(requests) - 1)
  BY <1>a, <1>d, <1>2, Removed
<1>n. n \in Nat /\ k \in Nat /\ 1 <= k /\ k <= n
  BY <1>a, <1>b, <1>1
<1>v. /\ v.at \in Nat /\ ~v.rewritten /\ w.at = v.at /\ (w.rewritten => w.at = k) /\ (v.at > 0 => k = v.at)
  BY <1>a
<1>l. /\ DOMAIN less = 1..(n - 1) /\ DOMAIN items = 1..n /\ DOMAIN rest = 1..(n - 1)
      /\ \A j \in 1..(n - 1) : less[j] = IF j < k THEN items[j] ELSE items[j + 1]
      /\ \A j \in 1..(n - 1) : rest[j] = IF j < k THEN requests[j] ELSE requests[j + 1]
  BY <1>a, <1>b, <1>1, <1>3
<1>4. ASSUME NEW i \in DOMAIN less PROVE ItemSound(less[i], rest[i], i, v, set)
  <2>1. i \in 1..(n - 1) /\ i \in 1..n /\ i + 1 \in 1..n
    BY <1>n, <1>l
  <2>2. CASE i < k
    <3>1. less[i] = items[i] /\ rest[i] = requests[i]
      BY <1>l, <2>1, <2>2
    <3>2. ItemSound(items[i], requests[i], i, w, set)
      BY <1>a, <1>l, <2>1 DEF AllSound
    <3>3. ~(w.rewritten /\ i = w.at)
      BY <1>n, <1>v, <2>1, <2>2
    <3>. QED BY <1>v, <3>1, <3>2, <3>3 DEF ItemSound
  <2>3. CASE ~(i < k)
    <3>1. less[i] = items[i + 1] /\ rest[i] = requests[i + 1]
      BY <1>l, <2>1, <2>3
    <3>2. ItemSound(items[i + 1], requests[i + 1], i + 1, w, set)
      BY <1>a, <1>l, <2>1 DEF AllSound
    <3>3. ~(w.rewritten /\ i + 1 = w.at) /\ ~(i < v.at)
      BY <1>n, <1>v, <2>1, <2>3
    <3>. QED BY <1>v, <3>1, <3>2, <3>3 DEF ItemSound
  <2>. QED BY <2>2, <2>3
<1>5. Len(less) = Len(rest)
  BY <1>a, <1>1, <1>3
<1>. QED BY <1>c, <1>d, <1>1, <1>3, <1>4, <1>5 DEF AllSound

\* Every store of the kernel keeps it sound.
LEMMA GroupStep ==
  (E!EventAssumption /\ GroupSound(bits, waiting, asked, walk) /\ E!Next)
  => GroupSound(bits', waiting', asked', walk')
<1>h. HAVE E!EventAssumption /\ GroupSound(bits, waiting, asked, walk) /\ E!Next
<1>i. PICK Item : Item = [owner : Task, value : SUBSET Nat]
  OBVIOUS
<1>a. /\ bits \subseteq AppBits /\ waiting \in Seq(Item) /\ asked \in Seq(E!Requests) /\ Len(waiting) = Len(asked)
      /\ walk \in [at : Nat, rewritten : BOOLEAN, clears : SUBSET AppBits]
      /\ DOMAIN waiting = 1..Len(waiting) /\ DOMAIN asked = 1..Len(waiting) /\ Len(waiting) \in Nat
  BY <1>h, <1>i DEF GroupSound
<1>b. /\ walk.at = 0 => walk = E!NoWalk
      /\ walk.rewritten => walk.at \in DOMAIN waiting /\ bits # {}
      /\ \A i \in DOMAIN waiting : ItemSound(waiting[i], asked[i], i, walk, bits)
  BY <1>h DEF GroupSound
<1>c. /\ E!Idle <=> walk.at = 0
      /\ walk.at = 0 => ~walk.rewritten /\ walk.clears = {}
  BY <1>b DEF E!Idle, E!NoWalk
<1>d. \A i \in DOMAIN waiting : asked[i] \in E!Requests
  BY <1>a
<1>1. ASSUME NEW t \in Task, NEW r \in E!Requests, E!WaitBits(t, r)
      PROVE  GroupSound(bits', waiting', asked', walk')
  <2>1. E!Idle /\ walk' = walk /\ walk.at = 0 /\ ~walk.rewritten
    BY <1>1, <1>c DEF E!WaitBits
  <2>2. CASE E!Matches(r.all, r.wants, bits)
    <3>1. bits' \subseteq bits /\ waiting' = waiting /\ asked' = asked
      BY <1>1, <2>2 DEF E!WaitBits
    <3>2. ASSUME NEW i \in DOMAIN waiting PROVE ItemSound(waiting[i], asked[i], i, walk, bits')
      BY <1>b, <1>d, <2>1, <3>1, MatchesGrows DEF ItemSound
    <3>. QED BY <1>a, <1>b, <1>i, <2>1, <3>1, <3>2 DEF GroupSound
  <2>3. CASE ~E!Matches(r.all, r.wants, bits)
    <3>. PICK item : item = [owner |-> t, value |-> Packed(r)]
      OBVIOUS
    <3>1. bits' = bits /\ waiting' = Append(waiting, item) /\ asked' = Append(asked, r)
      BY <1>1, <2>3 DEF E!WaitBits, Packed, E!ClearOnExit, E!WaitForAll, E!InUse
    <3>2. item \in Item /\ item.value = Packed(r)
      BY <1>h, <1>i, Unpacked
    <3>3. /\ waiting' \in Seq(Item) /\ Len(waiting') = Len(waiting) + 1
          /\ asked' \in Seq(E!Requests) /\ Len(asked') = Len(waiting) + 1
          /\ DOMAIN waiting' = 1..(Len(waiting) + 1)
          /\ \A i \in 1..Len(waiting) : waiting'[i] = waiting[i] /\ asked'[i] = asked[i]
          /\ waiting'[Len(waiting) + 1] = item /\ asked'[Len(waiting) + 1] = r
      BY <1>a, <3>1, <3>2
    <3>4. ItemSound(item, r, Len(waiting) + 1, walk, bits)
      BY <2>1, <2>3, <3>2 DEF ItemSound
    <3>5. ASSUME NEW i \in DOMAIN waiting' PROVE ItemSound(waiting'[i], asked'[i], i, walk, bits)
      <4>1. i = Len(waiting) + 1 \/ i \in 1..Len(waiting)
        BY <1>a, <3>3
      <4>2. CASE i \in 1..Len(waiting)
        <5>1. waiting'[i] = waiting[i] /\ asked'[i] = asked[i] /\ ItemSound(waiting[i], asked[i], i, walk, bits)
          BY <1>a, <1>b, <3>3, <4>2
        <5>. QED BY <5>1
      <4>3. CASE i = Len(waiting) + 1
        BY <3>3, <3>4, <4>3
      <4>. QED BY <4>1, <4>2, <4>3
    <3>. QED BY <1>a, <1>b, <1>i, <2>1, <3>1, <3>3, <3>5 DEF GroupSound
  <2>. QED BY <2>2, <2>3
<1>2. ASSUME NEW t \in Task, E!Timeout(t) PROVE GroupSound(bits', waiting', asked', walk')
  <2>1. PICK k \in DOMAIN waiting : waiting' = E!Without(k) /\ asked' = E!AskedWithout(k)
    BY <1>2 DEF E!Timeout
  <2>2. bits' = bits /\ walk' = walk /\ walk.at = 0 /\ ~walk.rewritten
    BY <1>2, <1>c DEF E!Timeout
  <2>3. /\ waiting' \in Seq(Item) /\ asked' \in Seq(E!Requests) /\ Len(waiting') = Len(asked')
        /\ \A i \in DOMAIN waiting' : ItemSound(waiting'[i], asked'[i], i, walk, bits)
    <3>1. walk.at \in Nat
      BY <1>a
    <3>3. ~(walk.at > 0)
      BY <2>2
    <3>a. PICK p, q, u, c : p = waiting /\ q = asked /\ u = walk /\ c = bits
      OBVIOUS
    <3>2. waiting' = Less(p, k) /\ asked' = Less(q, k)
      BY <2>1, <3>a DEF E!Without, E!AskedWithout, Less
    <3>4. AllSound(p, q, u, c)
      BY <1>b, <3>a DEF AllSound, ItemSound
    <3>5. /\ Less(p, k) \in Seq(Item) /\ Less(q, k) \in Seq(E!Requests) /\ Len(Less(p, k)) = Len(Less(q, k))
          /\ AllSound(Less(p, k), Less(q, k), u, c)
      <4>1. /\ p \in Seq(Item) /\ q \in Seq(E!Requests) /\ Len(p) = Len(q) /\ k \in DOMAIN p
            /\ u.at \in Nat /\ ~u.rewritten /\ (u.rewritten => u.at = k) /\ (u.at > 0 => k = u.at)
        BY <1>a, <2>2, <3>1, <3>3, <3>a
      <4>2. AllSound(Less(p, k), Less(q, k), u, c)
        BY <3>4, <4>1, RemovedSound, Zenon
      <4>3. k \in DOMAIN q
        BY <1>a, <3>1, <3>a, <4>1
      <4>4. /\ Less(p, k) \in Seq(Item) /\ Len(Less(p, k)) = Len(p) - 1
            /\ Less(q, k) \in Seq(E!Requests) /\ Len(Less(q, k)) = Len(q) - 1
        BY <4>1, <4>3, Removed
      <4>. QED BY <4>1, <4>2, <4>4
    <3>. QED BY <3>a, <3>2, <3>5 DEF AllSound, ItemSound
  <2>. QED BY <1>a, <1>b, <1>i, <2>2, <2>3 DEF GroupSound
<1>3. ASSUME NEW b, E!ClearBits(b) PROVE GroupSound(bits', waiting', asked', walk')
  <2>1. bits' \subseteq bits /\ waiting' = waiting /\ asked' = asked /\ walk' = walk /\ ~walk.rewritten
    BY <1>3, <1>c DEF E!ClearBits
  <2>2. ASSUME NEW i \in DOMAIN waiting PROVE ItemSound(waiting[i], asked[i], i, walk, bits')
    BY <1>b, <1>d, <2>1, MatchesGrows DEF ItemSound
  <2>. QED BY <1>a, <1>b, <1>i, <2>1, <2>2 DEF GroupSound
<1>4. ASSUME NEW b \in SUBSET AppBits, E!SetBits(b) PROVE GroupSound(bits', waiting', asked', walk')
  <2>1. /\ bits' \subseteq AppBits /\ waiting' = waiting /\ asked' = asked /\ ~walk.rewritten
        /\ walk' = [at |-> 1, rewritten |-> FALSE, clears |-> {}]
    BY <1>4, <1>a, <1>c DEF E!SetBits, E!NoWalk
  <2>2. walk'.at = 1 /\ ~walk'.rewritten /\ walk' \in [at : Nat, rewritten : BOOLEAN, clears : SUBSET AppBits]
    BY <2>1
  <2>3. ASSUME NEW i \in DOMAIN waiting PROVE ItemSound(waiting[i], asked[i], i, walk', bits')
    <3>1. i >= 1 /\ i \in Nat
      BY <1>a
    <3>. QED BY <1>b, <2>1, <2>2, <3>1 DEF ItemSound
  <2>. QED BY <1>a, <1>i, <2>1, <2>2, <2>3 DEF GroupSound
<1>5. ASSUME E!Walking, ~walk.rewritten
      PROVE  /\ E!Current = Packed(asked[walk.at]) /\ asked[walk.at] \in E!Requests
             /\ E!Satisfied <=> E!Matches(asked[walk.at].all, asked[walk.at].wants, bits)
  <2>1. walk.at \in DOMAIN waiting
    BY <1>5 DEF E!Walking
  <2>2. E!Current = Packed(asked[walk.at]) /\ asked[walk.at] \in E!Requests
    BY <1>5, <1>b, <1>d, <2>1 DEF ItemSound, E!Current
  <2>3. E!Current \cap AppBits = asked[walk.at].wants /\ ((TickBits - 6) \in E!Current <=> asked[walk.at].all)
    BY <1>h, <2>2, Unpacked
  <2>. QED BY <2>2, <2>3 DEF E!Satisfied, E!Matches, E!WaitForAll
<1>6. ASSUME E!Skip PROVE GroupSound(bits', waiting', asked', walk')
  <2>1. /\ bits' = bits /\ waiting' = waiting /\ asked' = asked /\ ~walk.rewritten /\ walk.at \in DOMAIN waiting
        /\ walk' = [walk EXCEPT !.at = walk.at + 1]
    BY <1>6 DEF E!Skip, E!Walking
  <2>2. PICK n \in Nat : n = walk.at + 1
    BY <1>a
  <2>3. /\ walk'.at = n /\ ~walk'.rewritten
        /\ walk' \in [at : Nat, rewritten : BOOLEAN, clears : SUBSET AppBits]
    BY <1>a, <2>1, <2>2
  <2>4. ~E!Matches(asked[walk.at].all, asked[walk.at].wants, bits)
    BY <1>5, <1>6 DEF E!Skip
  <2>5. ASSUME NEW i \in DOMAIN waiting PROVE ItemSound(waiting[i], asked[i], i, walk', bits')
    <3>1. i < n => i = walk.at \/ i < walk.at
      BY <1>a, <2>2
    <3>. QED BY <1>a, <1>b, <2>1, <2>2, <2>3, <2>4, <3>1 DEF ItemSound
  <2>. QED BY <1>a, <1>i, <2>1, <2>2, <2>3, <2>5 DEF GroupSound
<1>7. ASSUME E!Rewrite PROVE GroupSound(bits', waiting', asked', walk')
  <2>1. /\ bits' = bits /\ asked' = asked /\ ~walk.rewritten /\ walk.at \in DOMAIN waiting
        /\ waiting' = [waiting EXCEPT ![walk.at].value = bits \cup {TickBits - 7, TickBits - 1}]
        /\ walk' = [walk EXCEPT !.rewritten = TRUE,
                     !.clears = walk.clears \cup (IF E!ClearOnExit \in E!Current THEN E!Current \cap AppBits ELSE {})]
    BY <1>7 DEF E!Rewrite, E!Walking, E!Unblocked, E!InUse
  <2>2. PICK c : c = walk.clears \cup (IF E!ClearOnExit \in E!Current THEN E!Current \cap AppBits ELSE {})
    OBVIOUS
  <2>3. c \in SUBSET AppBits /\ walk' = [walk EXCEPT !.rewritten = TRUE, !.clears = c]
    BY <1>a, <2>1, <2>2
  <2>4. /\ walk'.at = walk.at /\ walk'.rewritten
        /\ walk' \in [at : Nat, rewritten : BOOLEAN, clears : SUBSET AppBits]
    BY <1>a, <2>3
  <2>5. bits # {} /\ walk.at # 0
    <3>1. E!Matches(asked[walk.at].all, asked[walk.at].wants, bits) /\ asked[walk.at].wants # {}
      BY <1>5, <1>7 DEF E!Rewrite, E!Requests
    <3>. QED BY <1>a, <2>1, <3>1 DEF E!Matches
  <2>6. PICK x : x = bits \cup {TickBits - 7, TickBits - 1}
    OBVIOUS
  <2>7. x \in SUBSET Nat
    BY <1>a, <1>h, <2>6 DEF E!EventAssumption
  <2>8. /\ waiting' \in Seq(Item) /\ DOMAIN waiting' = DOMAIN waiting /\ Len(waiting') = Len(waiting)
        /\ waiting'[walk.at].value = x
        /\ \A i \in DOMAIN waiting : i # walk.at => waiting'[i] = waiting[i]
    <3>1. PICK item : item = [waiting[walk.at] EXCEPT !.value = x]
      OBVIOUS
    <3>2. item \in Item /\ item.value = x
      <4>1. PICK old : old = waiting[walk.at]
        OBVIOUS
      <4>2. waiting \in Seq(Item) /\ walk.at \in DOMAIN waiting
        BY <1>a, <2>1
      <4>3. waiting[walk.at] \in Item
        BY <4>2
      <4>. QED BY <1>i, <4>1, <4>3, <3>1, <2>7
    <3>3. waiting' = [waiting EXCEPT ![walk.at] = item]
      BY <2>1, <2>6, <3>1
    <3>. PICK p, k : p = waiting /\ k = walk.at
      OBVIOUS
    <3>4. p \in Seq(Item) /\ k \in 1..Len(p) /\ waiting' = [p EXCEPT ![k] = item] /\ DOMAIN p = 1..Len(p)
      BY <1>a, <2>1, <3>3
    <3>5. /\ waiting' \in Seq(Item) /\ Len(waiting') = Len(p)
          /\ \A j \in 1..Len(p) : waiting'[j] = IF j = k THEN item ELSE p[j]
      BY <3>2, <3>4, ExceptSeq
    <3>. QED BY <3>2, <3>4, <3>5
  <2>9. ASSUME NEW i \in DOMAIN waiting PROVE ItemSound(waiting'[i], asked[i], i, walk', bits)
    <3>1. ItemSound(waiting[i], asked[i], i, walk, bits)
      BY <1>b
    <3>2. CASE i = walk.at
      BY <1>a, <2>4, <2>5, <2>6, <2>8, <3>2 DEF ItemSound
    <3>3. CASE i # walk.at
      BY <2>1, <2>4, <2>5, <2>8, <3>1, <3>3 DEF ItemSound
    <3>. QED BY <3>2, <3>3
  <2>. QED BY <1>a, <1>i, <2>1, <2>4, <2>5, <2>8, <2>9 DEF GroupSound
<1>8. ASSUME E!Unlink PROVE GroupSound(bits', waiting', asked', walk')
  <2>1. /\ bits' = bits /\ walk.rewritten /\ waiting' = E!Without(walk.at) /\ asked' = E!AskedWithout(walk.at)
        /\ walk' = [walk EXCEPT !.rewritten = FALSE]
    BY <1>8 DEF E!Unlink
  <2>2. /\ walk'.at = walk.at /\ ~walk'.rewritten /\ walk.at # 0
        /\ walk' \in [at : Nat, rewritten : BOOLEAN, clears : SUBSET AppBits]
    BY <1>a, <1>c, <2>1
  <2>3. /\ waiting' \in Seq(Item) /\ asked' \in Seq(E!Requests) /\ Len(waiting') = Len(asked')
        /\ \A i \in DOMAIN waiting' : ItemSound(waiting'[i], asked'[i], i, walk', bits)
    <3>1. walk'.at \in Nat /\ walk.at \in DOMAIN waiting
      BY <1>b, <2>1, <2>2
    <3>a. PICK p, q, u, v, c, k : p = waiting /\ q = asked /\ u = walk /\ v = walk' /\ c = bits /\ k = walk.at
      OBVIOUS
    <3>2. waiting' = Less(p, k) /\ asked' = Less(q, k)
      BY <2>1, <3>a DEF E!Without, E!AskedWithout, Less
    <3>4. AllSound(p, q, u, c)
      BY <1>b, <3>a DEF AllSound, ItemSound
    <3>5. /\ Less(p, k) \in Seq(Item) /\ Less(q, k) \in Seq(E!Requests) /\ Len(Less(p, k)) = Len(Less(q, k))
          /\ AllSound(Less(p, k), Less(q, k), v, c)
      <4>1. /\ p \in Seq(Item) /\ q \in Seq(E!Requests) /\ Len(p) = Len(q) /\ k \in DOMAIN p
            /\ v.at \in Nat /\ ~v.rewritten /\ u.at = v.at /\ u.at = k /\ k = v.at
        BY <1>a, <2>2, <3>1, <3>a
      <4>2. AllSound(Less(p, k), Less(q, k), v, c)
        BY <3>4, <4>1, RemovedSound, Zenon
      <4>3. k \in DOMAIN q
        BY <1>a, <3>1, <3>a, <4>1
      <4>4. /\ Less(p, k) \in Seq(Item) /\ Len(Less(p, k)) = Len(p) - 1
            /\ Less(q, k) \in Seq(E!Requests) /\ Len(Less(q, k)) = Len(q) - 1
        BY <4>1, <4>3, Removed
      <4>. QED BY <4>1, <4>2, <4>4
    <3>. QED BY <3>a, <3>2, <3>5 DEF AllSound, ItemSound
  <2>. QED BY <1>a, <1>b, <1>i, <2>1, <2>2, <2>3 DEF GroupSound
<1>9. ASSUME E!Finish PROVE GroupSound(bits', waiting', asked', walk')
  <2>1. /\ bits' \subseteq bits /\ waiting' = waiting /\ asked' = asked /\ walk' = E!NoWalk
        /\ walk.at # 0 /\ walk.at \notin DOMAIN waiting
    BY <1>9, <1>c DEF E!Finish, E!Walking
  <2>2. walk'.at = 0 /\ ~walk'.rewritten /\ walk' \in [at : Nat, rewritten : BOOLEAN, clears : SUBSET AppBits]
    BY <2>1 DEF E!NoWalk
  <2>3. ASSUME NEW i \in DOMAIN waiting PROVE ItemSound(waiting[i], asked[i], i, walk', bits')
    <3>1. i < walk.at /\ ~walk.rewritten
      BY <1>a, <1>b, <2>1
    <3>. QED BY <1>b, <1>d, <2>1, <2>2, <3>1, MatchesGrows DEF ItemSound
  <2>. QED BY <1>a, <1>i, <2>1, <2>2, <2>3 DEF GroupSound
<1>. QED BY <1>h, <1>1, <1>2, <1>3, <1>4, <1>6, <1>7, <1>8, <1>9 DEF E!Next

\* A behaviour about an event group starts in the invariant.
LEMMA GroupInvInit == ASSUME Init PROVE GroupInv
<1> SUFFICES ASSUME object = "group" PROVE GroupSound(bits, waiting, asked, walk)
  BY DEF GroupInv
<1>1. /\ bits = {} /\ waiting = << >> /\ asked = << >>
      /\ walk = [at |-> 0, rewritten |-> FALSE, clears |-> {}]
  BY DEF Init, E!Init, E!NoWalk
<1>. QED BY <1>1 DEF GroupSound, E!NoWalk

\* Its steps are stores of the kernel.
LEMMA GroupInvKept == ASSUME E!EventAssumption, GroupInv, [Next]_vars PROVE GroupInv'
<1> SUFFICES ASSUME object' = "group" PROVE GroupSound(bits', waiting', asked', walk')
  BY DEF GroupInv
<1>1. object = "group" /\ (E!Next \/ UNCHANGED <<bits, waiting, asked, walk>>)
  BY DEF Next, vars, groupVars
<1>2. GroupSound(bits, waiting, asked, walk)
  BY <1>1 DEF GroupInv
<1>3. CASE E!Next
  BY <1>2, <1>3, GroupStep
<1>4. CASE UNCHANGED <<bits, waiting, asked, walk>>
  BY <1>2, <1>4 DEF GroupSound, ItemSound
<1>. QED BY <1>1, <1>3, <1>4

\* In the invariant every waiter is shown as it asked.
LEMMA SoundWaits ==
  ASSUME E!EventAssumption, GroupSound(bits, waiting, asked, walk) PROVE E!WaitersAsAsked
<1>a. /\ bits \subseteq AppBits /\ DOMAIN waiting = 1..Len(waiting) /\ DOMAIN asked = 1..Len(waiting)
      /\ Len(asked) = Len(waiting) /\ Len(waiting) \in Nat /\ walk.at \in Nat
      /\ \A i \in DOMAIN waiting : asked[i] \in E!Requests
      /\ walk.rewritten => bits # {}
  BY DEF GroupSound
<1>b. \A i \in DOMAIN waiting : ItemSound(waiting[i], asked[i], i, walk, bits)
  BY DEF GroupSound
<1>c. E!Idle <=> walk.at = 0
  BY DEF GroupSound, E!Idle, E!NoWalk
<1>1. E!TableRow = [bits |-> bits, waiters |-> Len(asked)]
  <2>1. DOMAIN E!Waiters = 1..Len(waiting) /\ E!Waiters \in Seq({E!DecodeWaiter(waiting[i]) : i \in DOMAIN waiting})
    BY <1>a DEF E!Waiters
  <2>2. Len(E!Waiters) = Len(waiting)
    BY <1>a, <2>1
  <2>. QED BY <1>a, <2>2 DEF E!TableRow, E!Shown
<1>2. ASSUME NEW i \in DOMAIN asked, NEW w, w = E!Shown.waiters[i]
      PROVE  /\ ~(walk.rewritten /\ i = walk.at) =>
                  /\ [wants |-> w.wants, all |-> w.all, clear |-> w.clear] = asked[i] /\ w.in_use
                  /\ w.satisfied <=> E!Matches(asked[i].all, asked[i].wants, bits)
                  /\ w.missing = {b \in asked[i].wants : asked[i].all => b \notin bits}
             /\ w.satisfied => ~E!Idle /\ i >= walk.at /\ E!EventCheck = "fail"
  <2>1. i \in DOMAIN waiting /\ i \in Nat /\ w = E!DecodeWaiter(waiting[i]) /\ E!Waiters[i] = w /\ i \in DOMAIN E!Waiters
    BY <1>a, <1>2 DEF E!Shown, E!Waiters
  <2>2. w.satisfied => E!EventCheck = "fail"
    BY <2>1 DEF E!EventCheck
  <2>3. PICK r \in E!Requests : r = asked[i]
    BY <1>a, <2>1
  <2>4. r.wants \subseteq AppBits /\ r.all \in BOOLEAN /\ r.clear \in BOOLEAN
    BY DEF E!Requests
  <2>5. PICK v : v = waiting[i].value
    OBVIOUS
  <2>6. /\ w.wants = v \ ((TickBits - 8)..(TickBits - 1))
        /\ w.all = ((TickBits - 6) \in v)
        /\ w.clear = ((TickBits - 8) \in v)
        /\ w.in_use = ((TickBits - 1) \in v)
        /\ w.satisfied = (IF w.all THEN bits \cap w.wants = w.wants ELSE bits \cap w.wants # {})
        /\ w.missing = IF w.all THEN w.wants \ bits ELSE w.wants
    <3>1. PICK item, wants, all : /\ item = waiting[i] /\ wants = v \ ((TickBits - 8)..(TickBits - 1))
                                  /\ all = ((TickBits - 6) \in v)
      OBVIOUS
    <3>2. w = [task |-> item.owner, wants |-> wants, all |-> all, clear |-> (TickBits - 8) \in v,
               satisfied |-> IF all THEN bits \cap wants = wants ELSE bits \cap wants # {},
               missing |-> IF all THEN wants \ bits ELSE wants,
               in_use |-> (TickBits - 1) \in v]
      BY <2>1, <2>5, <3>1 DEF E!DecodeWaiter, E!Masks
    <3>. QED BY <3>1, <3>2
  <2>7. CASE ~(walk.rewritten /\ i = walk.at)
    <3>1. v = Packed(r) /\ ((i < walk.at \/ walk.at = 0) => ~E!Matches(r.all, r.wants, bits))
      BY <1>b, <2>1, <2>3, <2>5, <2>7 DEF ItemSound
    <3>2. w.wants = r.wants /\ (w.all <=> r.all) /\ (w.clear <=> r.clear) /\ w.in_use
      BY <2>6, <3>1, Unpacked
    <3>3. w.satisfied <=> E!Matches(r.all, r.wants, bits)
      BY <2>6, <3>2 DEF E!Matches
    <3>4. w.missing = {b \in r.wants : r.all => b \notin bits}
      BY <2>6, <3>2
    <3>5. [wants |-> w.wants, all |-> w.all, clear |-> w.clear] = r
      <4>1. w.all \in BOOLEAN /\ w.clear \in BOOLEAN
        BY <2>6
      <4>2. w.all = r.all /\ w.clear = r.clear
        BY <2>4, <3>2, <4>1
      <4>3. r = [wants |-> r.wants, all |-> r.all, clear |-> r.clear]
        BY DEF E!Requests
      <4>. QED BY <3>2, <4>2, <4>3
    <3>6. w.satisfied => walk.at # 0 /\ i >= walk.at
      BY <1>a, <2>1, <3>1, <3>3
    <3>. QED BY <1>c, <2>2, <2>3, <3>2, <3>3, <3>4, <3>5, <3>6
  <2>8. CASE walk.rewritten /\ i = walk.at
    <3>1. walk.at # 0
      BY <1>a, <2>1, <2>8
    <3>. QED BY <1>a, <1>c, <2>1, <2>2, <2>8, <3>1
  <2>. QED BY <2>7, <2>8
<1>. QED BY <1>1, <1>2 DEF E!WaitersAsAsked

\* A behaviour about an event group stays in the invariant.
THEOREM GroupsAreSound == Spec => []GroupInv
<1>1. Init => GroupInv
  BY GroupInvInit
<1>2. GroupInv /\ [Next]_vars => GroupInv'
  BY GroupInvKept, ObjectsAssumption
<1>. QED BY <1>1, <1>2, PTL DEF Spec

\* Every waiter is shown with what it asked for and with what it still misses,
\* for any tasks, any application bits and every width of the ticks; one shown
\* satisfied is one that the set under way has not come to yet.
THEOREM WaitersAreAsAsked == Spec => []WaitersAsAsked
<1>1. GroupInv => WaitersAsAsked
  BY SoundWaits, ObjectsAssumption DEF GroupInv, WaitersAsAsked
<1>. QED BY <1>1, GroupsAreSound, PTL

-----------------------------------------------------------------------------
\* The stacks (Stacks).

\* A stack of b bytes: its first byte is written, its pointers are within it.
StackSound(k, st) ==
  /\ st.touched \subseteq K!Bytes
  /\ (IF k.up THEN 0 ELSE K!StackBytes - 1) \in st.touched
  /\ ~k.prefilled => st.touched = K!Bytes
  /\ st.live \in Frame..Words /\ st.saved \in Frame..Words

KernelSound(k) ==
  /\ k \in [freertos : BOOLEAN, up : BOOLEAN, recorded : BOOLEAN, prefilled : BOOLEAN, declared : BOOLEAN]
  /\ k.freertos => ~k.up /\ ~k.declared
  /\ ~k.freertos => k.prefilled /\ k.recorded

StackRecords == [touched : SUBSET Int, live : Nat, saved : Nat]

StacksSound(k, s) ==
  /\ KernelSound(k)
  /\ s \in [Task -> StackRecords]
  /\ \A t \in Task : StackSound(k, s[t])

StacksInv == object = "stacks" => StacksSound(kernel, stacks)

\* A number of bytes in whole words.
LEMMA WholeWords ==
  ASSUME NEW n \in Nat, NEW w \in Nat \ {0}
  PROVE  n \div w \in Nat /\ (n \div w) * w <= n /\ n < (n \div w) * w + w
OBVIOUS

\* A set of numbers up to a limit has a greatest one.
LEMMA GreatestIsThere ==
  ASSUME NEW n \in Nat, NEW X \in SUBSET (0..n), X # {}
  PROVE  \E g \in X : \A x \in X : x <= g
<1>. DEFINE up == {n - x : x \in X}
<1>1. up \in SUBSET Nat /\ up # {}
  <2>1. \A x \in X : n - x \in Nat
    OBVIOUS
  <2>2. PICK x \in X : TRUE
    OBVIOUS
  <2>3. n - x \in up
    OBVIOUS
  <2>. QED BY <2>1, <2>3
<1>2. PICK m \in up : \A y \in up : m <= y
  <2>. HIDE DEF up
  <2>. QED BY <1>1, P!LeastIsLeast
<1>3. PICK g \in X : m = n - g
  BY <1>2
<1>4. ASSUME NEW x \in X PROVE x <= g
  <2>1. m <= n - x
    BY <1>2
  <2>. QED BY <1>3, <2>1
<1>. QED BY <1>4

\* A stack is of whole words, and the ends compared lie in it.
LEMMA StackInBytes ==
  ASSUME K!StackAssumption
  PROVE  /\ K!StackBytes \in Nat /\ K!StackBytes > 0 /\ K!StackBytes = Words * WordBytes
         /\ EdgeBytes \in Nat /\ EdgeBytes > 0 /\ EdgeBytes <= K!StackBytes
         /\ K!Bytes = 0..(K!StackBytes - 1)
         /\ \A w \in 0..Words : w * WordBytes \in Nat /\ w * WordBytes <= K!StackBytes
<1>1. Words \in Nat \ {0} /\ WordBytes \in Nat \ {0} /\ Frame \in 1..Words /\ EdgeBytes \in 1..(Frame * WordBytes)
  BY DEF K!StackAssumption
<1>2. Frame \in Nat /\ Frame * WordBytes \in Nat /\ Frame * WordBytes <= Words * WordBytes
  BY <1>1, WordsInBytes
<1>3. Words * WordBytes \in Nat /\ Words * WordBytes >= WordBytes
  BY <1>1, WordsInBytes
<1>4. \A w \in 0..Words : w * WordBytes \in Nat /\ w * WordBytes <= Words * WordBytes
  BY <1>1, WordsInBytes
<1>. QED BY <1>1, <1>2, <1>3, <1>4 DEF K!StackBytes, K!Bytes

\* What a call writes lies in the stack.
LEMMA WrittenInStack ==
  ASSUME K!StackAssumption, NEW a \in Nat, NEW b \in Nat, b <= Words
  PROVE  K!FirstBytes(a, b) \subseteq K!Bytes /\ K!Region(a, b) \subseteq K!Bytes
<1>. PICK n : n = K!StackBytes
  OBVIOUS
<1>1. n \in Nat /\ K!Bytes = 0..(n - 1) /\ b * WordBytes \in Nat /\ b * WordBytes <= n
  BY StackInBytes
<1>2. WordBytes \in Nat \ {0}
  BY DEF K!StackAssumption
<1>3. \A d \in 0..(n - 1) : K!At(d) \in 0..(n - 1)
  BY <1>1 DEF K!At
<1>4. \A w \in a..(b - 1) : w * WordBytes \in 0..(n - 1)
  <2>1. \A w \in a..(b - 1) : w \in Nat /\ w < b
    OBVIOUS
  <2>2. \A w \in a..(b - 1) : w * WordBytes \in Nat /\ w * WordBytes + WordBytes <= b * WordBytes
    BY <1>2, <2>1, WordsInBytes
  <2>. QED BY <1>1, <1>2, <2>2
<1>5. \A d \in (a * WordBytes)..(b * WordBytes - 1) : d \in 0..(n - 1)
  <2>1. a * WordBytes \in Nat
    BY <1>2, WordsInBytes
  <2>. QED BY <1>1, <2>1
<1>6. K!FirstBytes(a, b) \subseteq 0..(n - 1)
  BY <1>3, <1>4 DEF K!FirstBytes
<1>7. K!Region(a, b) \subseteq 0..(n - 1)
  BY <1>3, <1>5 DEF K!Region
<1>. QED BY <1>1, <1>6, <1>7

\* The tasks start with a frame on their stacks.
LEMMA StacksSoundInit == ASSUME K!StackAssumption, K!Init PROVE StacksSound(kernel, stacks)
<1>1. KernelSound(kernel)
  BY DEF K!Init, KernelSound
<1>. PICK x : x = IF kernel.prefilled THEN K!FirstBytes(0, Frame) ELSE K!Bytes
  OBVIOUS
<1>2. stacks = [t \in Task |-> [touched |-> x, live |-> Frame, saved |-> Frame]]
  BY DEF K!Init
<1>. PICK n : n = K!StackBytes
  OBVIOUS
<1>3. n \in Nat /\ n > 0 /\ K!Bytes = 0..(n - 1)
  BY StackInBytes
<1>4. Frame \in Nat /\ 1 <= Frame /\ Frame <= Words /\ Words \in Nat /\ WordBytes \in Nat
  BY DEF K!StackAssumption
<1>5. x \subseteq K!Bytes
  BY <1>4, WrittenInStack
<1>6. (IF kernel.up THEN 0 ELSE n - 1) \in x
  <2>1. CASE kernel.prefilled
    <3>1. 0 \in 0..(Frame - 1) /\ 0 * WordBytes = 0
      BY <1>4
    <3>2. K!At(0) \in K!FirstBytes(0, Frame)
      BY <3>1 DEF K!FirstBytes
    <3>. QED BY <1>3, <2>1, <3>2 DEF K!At
  <2>2. CASE ~kernel.prefilled
    BY <1>3, <2>2
  <2>. QED BY <2>1, <2>2
<1>7. ~kernel.prefilled => x = K!Bytes
  OBVIOUS
<1>8. \A t \in Task : stacks[t].touched = x /\ stacks[t].live = Frame /\ stacks[t].saved = Frame
  BY <1>2
<1>9. stacks \in [Task -> StackRecords]
  BY <1>2, <1>3, <1>4, <1>5 DEF StackRecords
<1>. QED BY <1>1, <1>4, <1>5, <1>6, <1>7, <1>8, <1>9 DEF StacksSound, StackSound

\* Every step of a task keeps its stack sound.
LEMMA StacksStep ==
  ASSUME K!StackAssumption, StacksSound(kernel, stacks), K!Next PROVE StacksSound(kernel', stacks')
<1>a. kernel' = kernel
  BY DEF K!Next, K!Switch, K!Push, K!Pop
<1>b. Words \in Nat /\ Frame \in Nat /\ 1 <= Frame
  BY DEF K!StackAssumption
<1>1. PICK t \in Task : K!Switch(t) \/ \E n \in 1..Words : K!Push(t, n) \/ K!Pop(t, n)
  BY DEF K!Next
<1>2. stacks \in [Task -> StackRecords] /\ \A u \in Task : StackSound(kernel, stacks[u])
  BY DEF StacksSound
<1>3. PICK old \in StackRecords : old = stacks[t]
  BY <1>2
<1>4. /\ old.touched \subseteq K!Bytes /\ (IF kernel.up THEN 0 ELSE K!StackBytes - 1) \in old.touched
      /\ ~kernel.prefilled => old.touched = K!Bytes
      /\ old.live \in Frame..Words /\ old.saved \in Frame..Words
  BY <1>2, <1>3 DEF StackSound
<1>5. ASSUME NEW s \in StackRecords, stacks' = [stacks EXCEPT ![t] = s],
             old.touched \subseteq s.touched, s.touched \subseteq K!Bytes,
             s.live \in Frame..Words, s.saved \in Frame..Words
      PROVE  StacksSound(kernel', stacks')
  <2>1. StackSound(kernel, s)
    BY <1>4, <1>5 DEF StackSound
  <2>2. stacks' \in [Task -> StackRecords] /\ stacks'[t] = s /\ \A u \in Task : u # t => stacks'[u] = stacks[u]
    BY <1>2, <1>5
  <2>3. \A u \in Task : StackSound(kernel, stacks'[u])
    BY <1>2, <2>1, <2>2 DEF StackSound
  <2>. QED BY <1>a, <2>2, <2>3 DEF StacksSound, StackSound, KernelSound
<1>6. CASE K!Switch(t)
  <2>1. PICK s : s = [old EXCEPT !.saved = old.live]
    OBVIOUS
  <2>2. s \in StackRecords /\ s.touched = old.touched /\ s.live = old.live /\ s.saved = old.live
    BY <1>3, <2>1 DEF StackRecords
  <2>3. stacks' = [stacks EXCEPT ![t] = s]
    BY <1>2, <1>3, <1>6, <2>1 DEF K!Switch
  <2>. QED BY <1>4, <1>5, <2>2, <2>3
<1>7. ASSUME NEW n \in 1..Words, K!Push(t, n) PROVE StacksSound(kernel', stacks')
  <2>. PICK to : to = old.live + n
    OBVIOUS
  <2>1. to \in Nat /\ to <= Words /\ Frame <= to
    BY <1>b, <1>3, <1>4, <1>7 DEF K!Push
  <2>2. PICK written \in {{}, K!FirstBytes(old.live, to), K!Region(old.live, to)} :
          stacks' = [stacks EXCEPT ![t].live = to, ![t].touched = old.touched \cup written]
    BY <1>3, <1>7 DEF K!Push
  <2>3. written \subseteq K!Bytes
    BY <2>1, <2>2, WrittenInStack DEF StackRecords
  <2>4. PICK x : x = old.touched \cup written
    OBVIOUS
  <2>5. PICK s : s = [old EXCEPT !.live = to, !.touched = x]
    OBVIOUS
  <2>6. x \in SUBSET Int
    BY <1>4, <2>3, <2>4, StackInBytes
  <2>7. s \in StackRecords /\ s.touched = x /\ s.live = to /\ s.saved = old.saved
    BY <1>3, <2>1, <2>5, <2>6 DEF StackRecords
  <2>8. stacks' = [stacks EXCEPT ![t] = s]
    BY <1>2, <1>3, <2>2, <2>4, <2>5
  <2>9. to \in Frame..Words
    BY <1>b, <2>1
  <2>. QED BY <1>4, <1>5, <2>3, <2>4, <2>7, <2>8, <2>9
<1>8. ASSUME NEW n \in 1..Words, K!Pop(t, n) PROVE StacksSound(kernel', stacks')
  <2>. PICK to : to = old.live - n
    OBVIOUS
  <2>1. to \in Frame..Words /\ to \in Nat
    BY <1>b, <1>3, <1>4, <1>8 DEF K!Pop
  <2>2. PICK s : s = [old EXCEPT !.live = to]
    OBVIOUS
  <2>3. s \in StackRecords /\ s.touched = old.touched /\ s.live = to /\ s.saved = old.saved
    BY <1>3, <2>1, <2>2 DEF StackRecords
  <2>4. stacks' = [stacks EXCEPT ![t] = s]
    BY <1>2, <1>3, <1>8, <2>2 DEF K!Pop
  <2>. QED BY <1>4, <1>5, <2>1, <2>3, <2>4
<1>. QED BY <1>1, <1>6, <1>7, <1>8

\* How deep a task wrote is the greatest of the depths written.
LEMMA DeepestIs ==
  ASSUME K!StackAssumption, StacksSound(kernel, stacks), NEW t \in Task
  PROVE  /\ K!Deepest(t) \in 1..K!StackBytes /\ K!At(K!Deepest(t) - 1) \in stacks[t].touched
         /\ \A e \in 1..K!StackBytes : K!At(e - 1) \in stacks[t].touched => e <= K!Deepest(t)
<1>. PICK n : n = K!StackBytes
  OBVIOUS
<1>1. n \in Nat /\ n > 0
  BY StackInBytes
<1>2. PICK depths : depths = {d \in 1..n : K!At(d - 1) \in stacks[t].touched}
  OBVIOUS
<1>3. 1 \in depths
  <2>1. (IF kernel.up THEN 0 ELSE n - 1) \in stacks[t].touched
    BY DEF StacksSound, StackSound
  <2>2. K!At(1 - 1) = IF kernel.up THEN 0 ELSE n - 1
    BY <1>1 DEF K!At
  <2>. QED BY <1>1, <1>2, <2>1, <2>2
<1>4. depths \in SUBSET (0..n)
  BY <1>1, <1>2
<1>5. \E g \in depths : \A e \in depths : e <= g
  BY <1>1, <1>3, <1>4, GreatestIsThere
<1>6. PICK deep : deep = CHOOSE d \in depths : \A e \in depths : e <= d
  OBVIOUS
<1>7. deep \in depths /\ \A e \in depths : e <= deep
  BY <1>5, <1>6
<1>8. K!Deepest(t) = deep
  BY <1>2, <1>3, <1>6 DEF K!Deepest
<1>. QED BY <1>1, <1>2, <1>7, <1>8

\* The fill left at the far end is what lies beyond the deepest write.
LEMMA RunIs ==
  ASSUME K!StackAssumption, StacksSound(kernel, stacks), NEW t \in Task, NEW w \in Nat \ {0}
  PROVE  LET beyond == K!StackBytes - K!Deepest(t)
         IN  K!FillWatermark(t, ~kernel.up, w) = IF beyond = 0 THEN -1 ELSE beyond \div w
<1>. PICK n, deep : n = K!StackBytes /\ deep = K!Deepest(t)
  OBVIOUS
<1>. PICK touched : touched = stacks[t].touched
  OBVIOUS
<1>. PICK up : up = kernel.up
  OBVIOUS
<1>1. /\ n \in Nat /\ n > 0 /\ deep \in 1..n /\ K!At(deep - 1) \in touched /\ K!Bytes = 0..(n - 1)
      /\ \A e \in 1..n : K!At(e - 1) \in touched => e <= deep
  BY StackInBytes, DeepestIs
<1>2. /\ (IF up THEN deep - 1 ELSE n - deep) \in touched
      /\ up => \A b \in 0..(n - 1) : b \in touched => b < deep
      /\ ~up => \A b \in 0..(n - 1) : b \in touched => n - b <= deep
  <2>1. (IF up THEN deep - 1 ELSE n - deep) \in touched
    <3>1. K!At(deep - 1) = IF up THEN deep - 1 ELSE n - 1 - (deep - 1)
      BY DEF K!At
    <3>. QED BY <1>1, <3>1
  <2>2. ASSUME up, NEW b \in 0..(n - 1), b \in touched PROVE b < deep
    <3>1. b + 1 \in 1..n /\ (b + 1) - 1 = b
      BY <1>1
    <3>2. K!At((b + 1) - 1) = b
      BY <2>2, <3>1 DEF K!At
    <3>. QED BY <1>1, <2>2, <3>1, <3>2
  <2>3. ASSUME ~up, NEW b \in 0..(n - 1), b \in touched PROVE n - b <= deep
    <3>1. n - b \in 1..n /\ n - 1 - ((n - b) - 1) = b
      BY <1>1
    <3>2. K!At((n - b) - 1) = b
      BY <2>3, <3>1 DEF K!At
    <3>. QED BY <1>1, <2>3, <3>1, <3>2
  <2>. QED BY <2>1, <2>2, <2>3
<1>3. K!Fill(t) = (0..(n - 1)) \ touched
  BY <1>1 DEF K!Fill
<1>4. PICK runs : runs = {m \in 0..n : IF ~up THEN 0..(m - 1) \subseteq K!Fill(t)
                                      ELSE (n - m)..(n - 1) \subseteq K!Fill(t)}
  OBVIOUS
<1>5. \A m \in 0..n : m \in runs <=> m <= n - deep
  <2>1. CASE up
    <3>1. \A m \in runs : m \in 0..n /\ (n - m)..(n - 1) \subseteq K!Fill(t)
      BY <1>4, <2>1
    <3>2. ASSUME NEW m \in 0..n, m > n - deep PROVE m \notin runs
      <4>1. deep - 1 \in (n - m)..(n - 1)
        BY <1>1, <3>2
      <4>2. deep - 1 \notin K!Fill(t)
        BY <1>2, <1>3, <2>1
      <4>. QED BY <3>1, <4>1, <4>2
    <3>3. ASSUME NEW m \in 0..n, m <= n - deep PROVE m \in runs
      <4>1. ASSUME NEW b \in (n - m)..(n - 1) PROVE b \in K!Fill(t)
        <5>1. b \in 0..(n - 1) /\ ~(b < deep)
          BY <1>1, <3>3
        <5>. QED BY <1>2, <1>3, <2>1, <5>1
      <4>. QED BY <1>4, <2>1, <4>1
    <3>. QED BY <1>1, <3>2, <3>3
  <2>2. CASE ~up
    <3>1. \A m \in runs : m \in 0..n /\ 0..(m - 1) \subseteq K!Fill(t)
      BY <1>4, <2>2
    <3>2. ASSUME NEW m \in 0..n, m > n - deep PROVE m \notin runs
      <4>1. n - deep \in 0..(m - 1)
        BY <1>1, <3>2
      <4>2. n - deep \notin K!Fill(t)
        BY <1>2, <1>3, <2>2
      <4>. QED BY <3>1, <4>1, <4>2
    <3>3. ASSUME NEW m \in 0..n, m <= n - deep PROVE m \in runs
      <4>1. ASSUME NEW b \in 0..(m - 1) PROVE b \in K!Fill(t)
        <5>1. b \in 0..(n - 1) /\ ~(n - b <= deep)
          BY <1>1, <3>3
        <5>. QED BY <1>2, <1>3, <2>2, <5>1
      <4>. QED BY <1>4, <2>2, <4>1
    <3>. QED BY <1>1, <3>2, <3>3
  <2>. QED BY <2>1, <2>2
<1>6. PICK longest : longest = CHOOSE m \in runs : \A k \in runs : k <= m
  OBVIOUS
<1>7. longest = n - deep
  <2>1. n - deep \in 0..n
    BY <1>1
  <2>2. n - deep \in runs /\ \A k \in runs : k <= n - deep /\ k \in Int
    <3>1. \A k \in runs : k \in 0..n
      BY <1>4
    <3>. QED BY <1>5, <2>1, <3>1
  <2>3. longest \in runs /\ \A k \in runs : k <= longest
    BY <1>6, <2>2
  <2>. QED BY <1>1, <2>2, <2>3
<1>8. K!FillWatermark(t, ~up, w) = IF longest = 0 THEN -1 ELSE longest \div w
  <2>1. K!FillWatermark(t, ~up, w) =
          LET longer == CHOOSE m \in runs : \A k \in runs : k <= m
          IN  IF longer = 0 THEN -1 ELSE longer \div w
    BY <1>4 DEF K!FillWatermark, K!NoMark
  <2>. QED BY <1>6, <2>1
<1>. QED BY <1>7, <1>8

\* The row of a FreeRTOS task is ordered and its mark is real.
LEMMA RowIsTrue ==
  ASSUME K!StackAssumption, StacksSound(kernel, stacks), kernel.freertos, NEW t \in Task
  PROVE  LET row == K!ValueToTask(t)
         IN  row.high # -1 =>
               /\ row.used <= row.high /\ row.high <= row.size /\ K!Deepest(t) <= row.high
               /\ \/ row.high < K!Larger(row.used, K!Deepest(t) + WordBytes)
                  \/ row.high = row.used
<1>i. PICK n, deep, used, free :
         /\ n = K!StackBytes /\ deep = K!Deepest(t)
         /\ used = stacks[t].saved * WordBytes /\ free = K!FillWatermark(t, TRUE, WordBytes)
  OBVIOUS
<1>1. WordBytes \in Nat \ {0} /\ ~kernel.up
  BY DEF K!StackAssumption, StacksSound, KernelSound
<1>2. n \in Nat /\ deep \in 1..n
  BY <1>i, StackInBytes, DeepestIs
<1>3. used \in Nat /\ used <= n
  <2>1. stacks[t].saved \in 0..Words
    BY DEF StacksSound, StackSound, K!StackAssumption
  <2>. QED BY <1>i, <2>1, StackInBytes
<1>4. free = IF n - deep = 0 THEN -1 ELSE (n - deep) \div WordBytes
  <2>1. (~kernel.up) = TRUE
    BY <1>1
  <2>2. K!FillWatermark(t, ~kernel.up, WordBytes) = IF n - deep = 0 THEN -1 ELSE (n - deep) \div WordBytes
    BY <1>i, <1>1, RunIs
  <2>. QED BY <1>i, <2>1, <2>2
<1>5. PICK row : row = K!ValueToTask(t)
  OBVIOUS
<1>6. CASE row.high = -1
  BY <1>5, <1>6
<1>7. CASE row.high # -1
  <2>1. row = IF ~kernel.recorded THEN [size |-> -1, used |-> -1, high |-> -1]
              ELSE [size |-> n, used |-> used,
                    high |-> IF free = -1 THEN -1 ELSE K!Larger(used, n - (free * WordBytes))]
    BY <1>i, <1>5 DEF K!ValueToTask, K!NoMark
  <2>2. /\ row.size = n /\ row.used = used /\ free # -1
        /\ row.high = K!Larger(used, n - (free * WordBytes))
    BY <1>7, <2>1
  <2>3. PICK mark : mark = n - free * WordBytes
    OBVIOUS
  <2>4. mark \in Int /\ mark <= n /\ deep <= mark /\ mark < deep + WordBytes
    <3>1. free = (n - deep) \div WordBytes
      BY <1>4, <2>2
    <3>2. PICK d \in Nat : d = n - deep
      BY <1>2
    <3>3. (d \div WordBytes) * WordBytes <= d /\ d < (d \div WordBytes) * WordBytes + WordBytes
          /\ d \div WordBytes \in Nat
      BY <1>1, WholeWords
    <3>4. PICK p : p = free * WordBytes
      OBVIOUS
    <3>5. free \in Nat /\ free * WordBytes <= d /\ d < free * WordBytes + WordBytes
      BY <3>1, <3>2, <3>3
    <3>6. p \in Nat
      BY <1>1, <3>4, <3>5, WordsInBytes
    <3>7. p <= d /\ d < p + WordBytes
      BY <3>4, <3>5
    <3>. QED BY <1>1, <1>2, <2>3, <3>2, <3>4, <3>6, <3>7
  <2>5. row.high = IF used > mark THEN used ELSE mark
    BY <2>2, <2>3 DEF K!Larger
  <2>6. K!Larger(used, deep + WordBytes) = IF used > deep + WordBytes THEN used ELSE deep + WordBytes
    BY DEF K!Larger
  <2>7. row.used <= row.high /\ row.high <= row.size /\ deep <= row.high
    BY <1>2, <1>3, <2>2, <2>4, <2>5
  <2>8. row.high < K!Larger(row.used, deep + WordBytes) \/ row.high = row.used
    BY <1>1, <1>2, <1>3, <2>2, <2>4, <2>5, <2>6
  <2>. QED BY <1>i, <1>5, <2>7, <2>8
<1>. QED BY <1>6, <1>7

\* A stack fails the fill check only where the kernel fills its stacks and the
\* task has written all of its own; without the fill there is no mark.
LEMMA FillCheckIsTrue ==
  ASSUME K!StackAssumption, StacksSound(kernel, stacks), kernel.freertos, NEW t \in Task
  PROVE  /\ K!StackFillPresent(t) = "fail" => kernel.prefilled /\ K!Deepest(t) = K!StackBytes
         /\ ~kernel.prefilled => K!ValueToTask(t).high = -1 /\ K!StackFillPresent(t) = "skipped"
<1>i. PICK n : n = K!StackBytes
  OBVIOUS
<1>1. n \in Nat /\ n > 0 /\ K!Bytes = 0..(n - 1) /\ 0 \in K!Bytes
  BY <1>i, StackInBytes
<1>2. ~kernel.up
  BY DEF StacksSound, KernelSound
<1>3. 0 \notin K!Fill(t) => K!Deepest(t) = n
  <2>1. K!At(n - 1) = 0
    BY <1>i, <1>1, <1>2 DEF K!At
  <2>2. 0 \notin K!Fill(t) => 0 \in stacks[t].touched
    BY <1>1 DEF K!Fill
  <2>3. n \in 1..n
    BY <1>1
  <2>4. K!At(n - 1) \in stacks[t].touched => n <= K!Deepest(t)
    BY <1>i, <2>3, DeepestIs
  <2>5. K!Deepest(t) \in 1..n
    BY <1>i, DeepestIs
  <2>. QED BY <1>1, <2>1, <2>2, <2>4, <2>5
<1>4. ASSUME ~kernel.prefilled PROVE \A u \in Task : K!Fill(u) = {}
  BY <1>4 DEF StacksSound, StackSound, K!Fill
<1>5. K!StackFillPresent(t) = "fail" => kernel.prefilled /\ K!Deepest(t) = n
  <2>1. K!StackFillPresent(t) = "fail" => 0 \notin K!Fill(t) /\ K!BuildPrefills
    BY DEF K!StackFillPresent
  <2>2. K!BuildPrefills => kernel.prefilled
    BY <1>4 DEF K!BuildPrefills
  <2>3. kernel.prefilled \in BOOLEAN
    BY DEF StacksSound, KernelSound
  <2>. QED BY <1>3, <2>1, <2>2, <2>3
<1>6. ASSUME ~kernel.prefilled PROVE K!ValueToTask(t).high = -1
  <2>1. K!Deepest(t) = n
    BY <1>3, <1>4, <1>6
  <2>2. K!FillWatermark(t, ~kernel.up, WordBytes) = -1
    <3>1. WordBytes \in Nat \ {0}
      BY DEF K!StackAssumption
    <3>2. K!StackBytes - K!Deepest(t) = 0
      BY <1>i, <1>1, <2>1
    <3>. QED BY <3>1, <3>2, RunIs
  <2>3. (~kernel.up) = TRUE
    BY <1>2
  <2>4. K!FillWatermark(t, TRUE, WordBytes) = -1
    BY <2>2, <2>3
  <2>. QED BY <2>4 DEF K!ValueToTask, K!NoMark
<1>7. ASSUME ~kernel.prefilled PROVE K!StackFillPresent(t) = "skipped"
  BY <1>4, <1>7 DEF K!StackFillPresent, K!BuildPrefills
<1>. QED BY <1>i, <1>5, <1>6, <1>7

\* The ends of an RT-Thread stack never tell the other direction.
LEMMA InferredIsTrue ==
  ASSUME K!StackAssumption, StacksSound(kernel, stacks), NEW t \in Task
  PROVE  K!InferStackGrowsUp(t) \subseteq {kernel.up}
<1>. PICK n, edge, up, fill : n = K!StackBytes /\ edge = EdgeBytes /\ up = kernel.up /\ fill = K!Fill(t)
  OBVIOUS
<1>1. n \in Nat /\ edge \in Nat /\ edge > 0 /\ edge <= n /\ n > 0
  BY StackInBytes
<1>2. (IF up THEN 0 ELSE n - 1) \notin fill /\ up \in BOOLEAN
  BY DEF StacksSound, StackSound, KernelSound, K!Fill
<1>3. PICK low, high : low = (0..(edge - 1) \subseteq fill) /\ high = ((n - edge)..(n - 1) \subseteq fill)
  OBVIOUS
<1>4. up => ~low
  <2>1. 0 \in 0..(edge - 1)
    BY <1>1
  <2>. QED BY <1>2, <1>3, <2>1
<1>5. ~up => ~high
  <2>1. n - 1 \in (n - edge)..(n - 1)
    BY <1>1
  <2>. QED BY <1>2, <1>3, <2>1
<1>6. low \in BOOLEAN /\ high \in BOOLEAN
  BY <1>3
<1>7. K!InferStackGrowsUp(t) = IF low = high THEN {} ELSE {high}
  BY <1>3 DEF K!InferStackGrowsUp
<1>. QED BY <1>2, <1>4, <1>5, <1>6, <1>7

\* The row of an RT-Thread thread is its saved pointer and its deepest write.
LEMMA ThreadRowIsTrue ==
  ASSUME K!StackAssumption, StacksSound(kernel, stacks), NEW t \in Task
  PROVE  K!ValueToThread(t).high # -1 =>
           K!ValueToThread(t) = [used |-> stacks[t].saved * WordBytes, high |-> K!Deepest(t)]
<1>i. PICK n, deep, used :
         n = K!StackBytes /\ deep = K!Deepest(t) /\ used = stacks[t].saved * WordBytes
  OBVIOUS
<1>1. n \in Nat /\ deep \in 1..n
  BY <1>i, StackInBytes, DeepestIs
<1>2. used \in Nat
  <2>1. stacks[t].saved \in 0..Words
    BY DEF StacksSound, StackSound, K!StackAssumption
  <2>. QED BY <1>i, <2>1, StackInBytes
<1>3. PICK told : told = IF kernel.declared THEN {kernel.up} ELSE K!InferStackGrowsUp(t)
  OBVIOUS
<1>4. told \subseteq {kernel.up} /\ kernel.up \in BOOLEAN
  BY <1>3, InferredIsTrue DEF StacksSound, KernelSound
<1>5. PICK free : free = K!FillWatermark(t, ~kernel.up, 1)
  OBVIOUS
<1>6. free = (IF n - deep = 0 THEN -1 ELSE n - deep)
  <2>1. 1 \in Nat \ {0}
    OBVIOUS
  <2>2. free = (IF n - deep = 0 THEN -1 ELSE (n - deep) \div 1)
    BY <1>i, <1>5, <2>1, RunIs
  <2>3. (n - deep) \div 1 = n - deep
    BY <1>1
  <2>. QED BY <2>2, <2>3
<1>7. PICK row : row = K!ValueToThread(t)
  OBVIOUS
<1>8. row = LET sp == IF kernel.up THEN used ELSE n - used
                fill == K!FillWatermark(t, ~(TRUE \in told), 1)
            IN IF told = {} THEN [used |-> -1, high |-> -1]
               ELSE [used |-> IF TRUE \in told THEN sp ELSE n - sp,
                     high |-> IF fill = -1 THEN n ELSE n - fill]
  BY <1>i, <1>3, <1>7 DEF K!ValueToThread, K!NoMark
<1>9. CASE told = {}
  BY <1>7, <1>8, <1>9
<1>10. CASE told # {}
  <2>1. told = {kernel.up} /\ (TRUE \in told <=> kernel.up)
    BY <1>4, <1>10
  <2>2. (~(TRUE \in told)) = (~kernel.up)
    BY <1>4, <2>1
  <2>3. K!FillWatermark(t, ~(TRUE \in told), 1) = free
    BY <1>5, <2>2
  <2>4. row = [used |-> IF kernel.up THEN used ELSE n - (n - used),
               high |-> IF free = -1 THEN n ELSE n - free]
    BY <1>8, <1>10, <2>1, <2>3
  <2>5. (IF kernel.up THEN used ELSE n - (n - used)) = used
    BY <1>1, <1>2
  <2>6. (IF free = -1 THEN n ELSE n - free) = deep
    BY <1>1, <1>6
  <2>. QED BY <1>i, <1>7, <2>4, <2>5, <2>6
<1>. QED BY <1>9, <1>10

\* In the invariant the rows of both kernels are true.
LEMMA SoundStacks ==
  ASSUME K!StackAssumption, StacksSound(kernel, stacks) PROVE K!HighWaterIsTrue /\ K!DirectionIsTrue
<1>1. K!HighWaterIsTrue
  BY RowIsTrue, FillCheckIsTrue DEF K!HighWaterIsTrue, K!NoMark
<1>2. K!DirectionIsTrue
  BY ThreadRowIsTrue DEF K!DirectionIsTrue, K!NoMark
<1>. QED BY <1>1, <1>2

\* The stacks start sound.
LEMMA StacksInvInit == ASSUME K!StackAssumption, Init PROVE StacksInv
<1> SUFFICES ASSUME object = "stacks" PROVE StacksSound(kernel, stacks)
  BY DEF StacksInv
<1>1. K!Init
  BY DEF Init
<1>. QED BY <1>1, StacksSoundInit

\* Only their tasks change them.
LEMMA StacksInvKept == ASSUME K!StackAssumption, StacksInv, [Next]_vars PROVE StacksInv'
<1> SUFFICES ASSUME object' = "stacks" PROVE StacksSound(kernel', stacks')
  BY DEF StacksInv
<1>1. object = "stacks" /\ (K!Next \/ UNCHANGED <<kernel, stacks>>)
  BY DEF Next, vars, stackVars
<1>2. StacksSound(kernel, stacks)
  BY <1>1 DEF StacksInv
<1>3. CASE K!Next
  BY <1>2, <1>3, StacksStep
<1>4. CASE UNCHANGED <<kernel, stacks>>
  BY <1>2, <1>4 DEF StacksSound, StackSound, KernelSound
<1>. QED BY <1>1, <1>3, <1>4

\* A stack keeps the byte it starts with written and its pointers in bounds.
THEOREM StacksAreSound == Spec => []StacksInv
<1>1. Init => StacksInv
  BY StacksInvInit, ObjectsAssumption
<1>2. StacksInv /\ [Next]_vars => StacksInv'
  BY StacksInvKept, ObjectsAssumption
<1>. QED BY <1>1, <1>2, PTL DEF Spec

\* For any number of words, of bytes to a word and of bytes compared at the
\* ends: a mark is the deepest write or the saved pointer, a stack fails the fill
\* check only when it is exhausted, and a direction is never inferred wrong.
THEOREM StackRowsAreTrue == Spec => []StacksAreTrue
<1>1. StacksInv => StacksAreTrue
  BY SoundStacks, ObjectsAssumption DEF StacksInv, StacksAreTrue
<1>. QED BY <1>1, StacksAreSound, PTL

-----------------------------------------------------------------------------
\* The software timers (Timers).

TimerRecords ==
  [period : 1..(Ticks - 1), auto : BOOLEAN, active : BOOLEAN,
   list : T!Lists \cup {T!Unlinked}, expiry : T!Tick0]
CommandRecords ==
  [timer : Timer, id : {"start", "stop", "change-period"}, at : T!Tick0, age : 0..MaxLag,
   period : 1..(Ticks - 1)]
ExpiringRecords == [timer : Timer, now : T!Tick0]

\* What the counter has to be read with, on the list that is current: once it has
\* wrapped, the daemon has a whole turn to make up for.
Turn == IF tick < lastTime THEN Ticks ELSE 0

ClockSound ==
  /\ tick \in T!Tick0 /\ lastTime \in T!Tick0 /\ lag \in 0..MaxLag
  /\ tick = (lastTime + lag) % Ticks
  /\ current \in T!Lists

\* A command is as old as the counter says.
Sent(c) == c \in CommandRecords /\ tick = (c.at + c.age) % Ticks

CallsSound ==
  /\ commands \in Seq(CommandRecords)
  /\ \A i \in 1..Len(commands) : Sent(commands[i])
  /\ hand = << >> \/ \E c \in CommandRecords : hand = <<c>> /\ Sent(c)

\* A timer of record r and d ticks to go is where the daemon will look for it in time.
OnTime(r, d) ==
  d = r.expiry + (IF r.list = T!Other(current) THEN Ticks ELSE 0) - tick - Turn

\* The timer the daemon unlinked was due.
ExpiringSound ==
  expiring = << >> \/
    \E e \in ExpiringRecords :
      /\ expiring = <<e>>
      /\ timer[e.timer].list = T!Unlinked /\ timer[e.timer].expiry <= e.now
      /\ OnTime(timer[e.timer], left[e.timer])

InHand(t) == (hand # << >> /\ hand[1].timer = t) \/ (expiring # << >> /\ expiring[1].timer = t)

\* A linked timer is active and on time; an active one that is not is in hand.
LinksSound ==
  /\ timer \in [Timer -> TimerRecords]
  /\ left \in [Timer -> Int]
  /\ \A t \in Timer : timer[t].list # T!Unlinked => timer[t].active /\ OnTime(timer[t], left[t])
  /\ \A t \in Timer : timer[t].list = T!Unlinked /\ timer[t].active => InHand(t)

\* A timer whose command is being carried out is on no list, and is not the one
\* that expires: the daemon may have to settle others first.
HandSound ==
  hand # << >> =>
    /\ timer[hand[1].timer].list = T!Unlinked
    /\ expiring # << >> => expiring[1].timer # hand[1].timer

TimersSound == ClockSound /\ CallsSound /\ ExpiringSound /\ HandSound /\ LinksSound

TimersInv == object = "timers" => TimersSound

\* The two lists, and no third.
LEMMA OtherList ==
  ASSUME NEW l \in T!Lists
  PROVE  /\ T!Other(l) \in T!Lists /\ T!Other(l) # l /\ T!Other(T!Other(l)) = l
         /\ T!Unlinked \notin T!Lists
         /\ \A m \in T!Lists : m = l \/ m = T!Other(l)
<1>1. /\ \E m \in T!Lists : m # l
      /\ T!Unlinked \notin T!Lists
  BY DEF T!Lists, T!Unlinked
<1>2. T!Other(l) \in T!Lists /\ T!Other(l) # l
  BY <1>1 DEF T!Other
<1>3. PICK o : o = T!Other(l)
  OBVIOUS
<1>4. \E m \in T!Lists : m # o
  BY <1>2, <1>3
<1>5. T!Other(o) \in T!Lists /\ T!Other(o) # o
  BY <1>4 DEF T!Other
<1>. QED BY <1>1, <1>2, <1>3, <1>5 DEF T!Lists

\* A counter read a little before it starts again.
LEMMA RemainderBefore ==
  ASSUME NEW m \in Nat \ {0}, NEW x \in Int, x < 0, -m <= x PROVE x % m = x + m
OBVIOUS

\* Two turns are taken off.
LEMMA RemainderAfter ==
  ASSUME NEW m \in Nat \ {0}, NEW x \in Nat, x >= m + m, x < m + m + m PROVE x % m = x - m - m
OBVIOUS

\* What the daemon knows of a counter that reads `now': that it may have made a turn.
Abs(n, now) == n = now \/ n = now + Ticks

\* prvInsertTimerInActiveList, told by the counter alone, is right about a timer
\* that is due p ticks after a moment less than a turn ago.
LEMMA PlaceIs ==
  ASSUME T!TimerAssumption, NEW now \in T!Tick0, NEW n \in Nat, Abs(n, now),
         NEW from \in Nat, from <= n, n - from < Ticks, NEW p \in 1..(Ticks - 1),
         current \in T!Lists
  PROVE  LET l == T!Place(p, (from + p) % Ticks, now, from % Ticks)
         IN /\ (from + p) % Ticks \in T!Tick0
            /\ from + p <= n => l = T!Unlinked
            /\ from + p > n =>
                 /\ l \in T!Lists
                 /\ ((from + p) % Ticks) + (IF l = T!Other(current) THEN Ticks ELSE 0) = from + p - (n - now)
<1>1. Ticks \in Nat /\ Ticks >= 2 /\ now \in 0..(Ticks - 1) /\ p \in Nat /\ 0 < p /\ p < Ticks
  BY DEF T!TimerAssumption, T!Tick0
<1>2. PICK u : u = from + p
  OBVIOUS
<1>3. u \in Nat /\ u <= n + p /\ from < u
  BY <1>1, <1>2
<1>4. PICK next : next = u % Ticks
  OBVIOUS
<1>5. PICK f : f = from % Ticks
  OBVIOUS
<1>6. PICK ago : ago = (now - f) % Ticks
  OBVIOUS
<1>7. PICK l : l = T!Place(p, next, now, f)
  OBVIOUS
<1>8. PICK o : o = T!Other(current)
  OBVIOUS
<1>9. o # current /\ o # T!Unlinked /\ current # T!Unlinked /\ o \in T!Lists
  BY <1>8, OtherList
<1>10. l = IF next <= now THEN IF ago >= p THEN T!Unlinked ELSE o
           ELSE IF now < f /\ next >= f THEN T!Unlinked ELSE current
  BY <1>6, <1>7, <1>8 DEF T!Place
<1>11. ago = n - from
  <2>1. CASE from < Ticks
    <3>1. f = from
      BY <1>1, <1>5, <2>1, SmallRemainder
    <3>2. CASE n = now
      <4>1. now - f \in Nat /\ now - f < Ticks
        BY <1>1, <3>1, <3>2
      <4>. QED BY <1>1, <1>6, <3>1, <3>2, <4>1, SmallRemainder
    <3>3. CASE n = now + Ticks
      <4>1. now - f \in Int /\ now - f < 0 /\ -Ticks <= now - f
        BY <1>1, <3>1, <3>3, <2>1
      <4>2. ago = now - f + Ticks
        BY <1>1, <1>6, <4>1, RemainderBefore
      <4>. QED BY <1>1, <3>1, <3>3, <4>2
    <3>. QED BY <3>2, <3>3 DEF Abs
  <2>2. CASE from >= Ticks
    <3>1. n = now + Ticks
      BY <1>1, <2>2 DEF Abs
    <3>2. f = from - Ticks
      <4>1. from < Ticks + Ticks /\ Ticks \in Nat \ {0}
        BY <1>1, <3>1
      <4>. QED BY <1>5, <2>2, <4>1, NextRemainder
    <3>3. now - f \in Nat /\ now - f < Ticks
      BY <1>1, <2>2, <3>1, <3>2
    <3>4. ago = now - f
      BY <1>1, <1>6, <3>3, SmallRemainder
    <3>. QED BY <1>1, <3>1, <3>2, <3>4
  <2>. QED BY <1>1, <2>1, <2>2
<1>12. /\ f \in 0..(Ticks - 1)
       /\ f = from \/ (f = from - Ticks /\ n = now + Ticks)
  <2>1. CASE from < Ticks
    BY <1>1, <1>5, <2>1, SmallRemainder
  <2>2. CASE from >= Ticks
    <3>1. n = now + Ticks
      BY <1>1, <2>2 DEF Abs
    <3>2. from < Ticks + Ticks /\ Ticks \in Nat \ {0}
      BY <1>1, <3>1
    <3>3. f = from - Ticks
      BY <1>5, <2>2, <3>2, NextRemainder
    <3>. QED BY <1>1, <2>2, <3>1, <3>2, <3>3
  <2>. QED BY <1>1, <2>1, <2>2
<1>13. /\ u < Ticks => next = u
       /\ u >= Ticks /\ u < Ticks + Ticks => next = u - Ticks
       /\ u >= Ticks + Ticks => next = u - Ticks - Ticks
  <2>1. u < Ticks + Ticks + Ticks
    BY <1>1, <1>3 DEF Abs
  <2>0. Ticks \in Nat \ {0}
    BY <1>1
  <2>2. ASSUME u < Ticks PROVE next = u
    BY <1>3, <1>4, <2>0, <2>2, SmallRemainder
  <2>3. ASSUME u >= Ticks, u < Ticks + Ticks PROVE next = u - Ticks
    BY <1>3, <1>4, <2>0, <2>3, NextRemainder
  <2>4. ASSUME u >= Ticks + Ticks PROVE next = u - Ticks - Ticks
    BY <1>3, <1>4, <2>0, <2>1, <2>4, RemainderAfter
  <2>. QED BY <2>2, <2>3, <2>4
<1>14. next \in 0..(Ticks - 1)
  <2>1. u < Ticks + Ticks + Ticks
    BY <1>1, <1>3 DEF Abs
  <2>. QED BY <1>1, <1>3, <1>13, <2>1
<1>15. ASSUME u <= n PROVE l = T!Unlinked
  <2>1. ago >= p
    BY <1>1, <1>2, <1>11, <1>15
  <2>2. CASE next <= now
    BY <1>10, <2>1, <2>2
  <2>3. CASE next > now
    <3>1. n = now + Ticks
      BY <1>1, <1>3, <1>13, <1>15, <2>3 DEF Abs
    <3>2. u < Ticks
      BY <1>1, <1>3, <1>13, <1>15, <2>3, <3>1
    <3>3. next = u /\ f = from
      BY <1>1, <1>3, <1>12, <1>13, <3>2
    <3>4. now < f /\ next >= f
      BY <1>1, <1>2, <1>3, <2>3, <3>1, <3>3
    <3>. QED BY <1>1, <1>10, <1>14, <2>3, <3>4
  <2>. QED BY <1>1, <1>14, <2>2, <2>3
<1>16. ASSUME u > n
       PROVE  l \in T!Lists /\ next + (IF l = o THEN Ticks ELSE 0) = u - (n - now)
  <2>1. ago < p
    BY <1>1, <1>2, <1>11, <1>16
  <2>2. CASE u < Ticks + (n - now)
    <3>1. next = u - (n - now) /\ next > now
      BY <1>1, <1>3, <1>13, <1>16, <2>2 DEF Abs
    <3>2. ~(now < f /\ next >= f)
      <4>1. CASE n = now
        <5>1. f = from
          BY <1>1, <1>12, <4>1
        <5>. QED BY <1>1, <4>1, <5>1
      <4>2. CASE n = now + Ticks
        <5>1. CASE f = from
          BY <1>1, <1>2, <3>1, <4>2, <5>1
        <5>2. CASE f = from - Ticks
          BY <1>1, <4>2, <5>2
        <5>. QED BY <1>12, <5>1, <5>2
      <4>. QED BY <4>1, <4>2 DEF Abs
    <3>3. l = current
      BY <1>1, <1>10, <1>14, <3>1, <3>2
    <3>. QED BY <1>1, <1>9, <1>14, <3>1, <3>3
  <2>3. CASE u >= Ticks + (n - now)
    <3>1. next = u - (n - now) - Ticks
      BY <1>1, <1>3, <1>13, <2>3 DEF Abs
    <3>2. next <= now
      BY <1>1, <1>3, <3>1 DEF Abs
    <3>3. l = o
      BY <1>1, <1>10, <1>11, <2>1, <3>2
    <3>. QED BY <1>1, <1>3, <1>9, <3>1, <3>3 DEF Abs
  <2>. QED BY <1>1, <1>3, <2>2, <2>3 DEF Abs
<1>17. T!Place(p, (from + p) % Ticks, now, from % Ticks) = l /\ (from + p) % Ticks = next
  BY <1>2, <1>4, <1>5, <1>7
<1>. QED BY <1>2, <1>8, <1>14, <1>15, <1>16, <1>17 DEF T!Tick0

\* The moments of a timer of period p that was due at a, and whether the daemon
\* links it for one of them.
MomentOf(p, a, k) == (a + k * p) % Ticks
Fits(p, a, now, k) ==
  T!Place(p, MomentOf(p, a, k), now, MomentOf(p, a, k - 1)) # T!Unlinked
FitOf(p, a, now) ==
  CHOOSE n \in 1..Ticks : Fits(p, a, now, n) /\ \A m \in 1..(n - 1) : ~Fits(p, a, now, m)

\* prvReloadTimer takes the first of them that fits.
LEMMA ReloadsIs ==
  ASSUME NEW p, NEW a, NEW now
  PROVE  LET k == FitOf(p, a, now)
             r == T!Reloads(p, a, now)
         IN /\ r.list = T!Place(p, MomentOf(p, a, k), now, MomentOf(p, a, k - 1))
            /\ r.expiry = MomentOf(p, a, k)
            /\ r.periods = k
<1>1. T!Reloads(p, a, now) =
        LET k == FitOf(p, a, now)
        IN [list |-> T!Place(p, MomentOf(p, a, k), now, MomentOf(p, a, k - 1)),
            expiry |-> MomentOf(p, a, k), periods |-> k]
  BY Zenon DEF T!Reloads, FitOf, Fits, MomentOf
<1>. QED BY <1>1

\* The first of its moments after n, by the whole periods that fit in between.
LEMMA PeriodsIn ==
  ASSUME NEW d \in Nat, NEW p \in Nat \ {0}
  PROVE  \E q \in Nat : q <= d /\ q * p <= d /\ d < (q + 1) * p
<1>1. PICK q : q = d \div p
  OBVIOUS
<1>2. q \in Nat /\ q * p <= d /\ d < q * p + p
  BY <1>1, WholeWords
<1>3. q <= q * p
  BY <1>2
<1>. QED BY <1>2, <1>3

\* A product grows with its factor.
LEMMA ProductGrows ==
  ASSUME NEW i \in Nat, NEW j \in Nat, i <= j, NEW p \in Nat
  PROVE  i * p \in Nat /\ j * p \in Nat /\ i * p <= j * p
OBVIOUS

\* A timer that was due at a, no more than a turn before n, is linked for the
\* first of its moments that is still to come, whatever the counter did meanwhile.
LEMMA ReloadIsDue ==
  ASSUME T!TimerAssumption, NEW now \in T!Tick0, NEW a \in T!Tick0, NEW p \in 1..(Ticks - 1),
         current \in T!Lists
  PROVE  LET r == T!Reloads(p, a, now)
             n == IF a > now THEN now + Ticks ELSE now
         IN /\ r.list \in T!Lists /\ r.expiry \in T!Tick0 /\ r.periods \in Nat
            /\ a + (r.periods * p) = r.expiry + (IF r.list = T!Other(current) THEN Ticks ELSE 0) + (n - now)
<1>1. /\ Ticks \in Nat \ {0} /\ Ticks >= 2 /\ now \in 0..(Ticks - 1) /\ a \in 0..(Ticks - 1)
      /\ p \in Nat \ {0} /\ p < Ticks
  BY DEF T!TimerAssumption, T!Tick0
<1>2. PICK n : n = IF a > now THEN now + Ticks ELSE now
  OBVIOUS
<1>3. n \in Nat /\ Abs(n, now) /\ a <= n /\ n - a < Ticks
  BY <1>1, <1>2 DEF Abs
<1>4. PICK q \in Nat : q <= n - a /\ q * p <= n - a /\ n - a < (q + 1) * p
  <2>1. n - a \in Nat
    BY <1>1, <1>3
  <2>. QED BY <1>1, <2>1, PeriodsIn
<1>5. PICK k : k = q + 1
  OBVIOUS
<1>6. k \in 1..Ticks /\ k \in Nat
  BY <1>1, <1>3, <1>4, <1>5
\* The moment i * p after a, with the one before it.
<1>7. ASSUME NEW i \in 1..Ticks, i <= k
      PROVE  /\ i * p \in Nat /\ (i - 1) * p \in Nat /\ i * p = ((i - 1) * p) + p
             /\ (i - 1) * p <= n - a
  <2>1. i - 1 \in Nat /\ i \in Nat /\ i - 1 <= q
    BY <1>1, <1>5, <1>6, <1>7
  <2>2. (i - 1) * p \in Nat /\ (i - 1) * p <= q * p
    BY <1>1, <1>4, <2>1, ProductGrows
  <2>3. i * p \in Nat
    BY <1>1, <2>1
  <2>4. i * p = ((i - 1) * p) + p
    BY <1>1, <2>1
  <2>. QED BY <1>1, <1>3, <1>4, <2>2, <2>3, <2>4
<1>8. ASSUME NEW i \in 1..Ticks, i <= k
      PROVE  LET l == T!Place(p, MomentOf(p, a, i), now, MomentOf(p, a, i - 1))
             IN /\ MomentOf(p, a, i) \in T!Tick0
                /\ a + (i * p) <= n => l = T!Unlinked
                /\ a + (i * p) > n =>
                     /\ l \in T!Lists
                     /\ MomentOf(p, a, i) + (IF l = T!Other(current) THEN Ticks ELSE 0)
                          = a + (i * p) - (n - now)
  <2>1. PICK from : from = a + ((i - 1) * p)
    OBVIOUS
  <2>2. PICK x : x = i * p
    OBVIOUS
  <2>3. from \in Nat /\ from <= n /\ n - from < Ticks /\ from + p = a + x
    BY <1>1, <1>3, <1>7, <1>8, <2>1, <2>2
  <2>4. MomentOf(p, a, i) = (from + p) % Ticks
    BY <2>2, <2>3 DEF MomentOf
  <2>5. MomentOf(p, a, i - 1) = from % Ticks
    BY <2>1 DEF MomentOf
  <2>6. PICK l : l = T!Place(p, (from + p) % Ticks, now, from % Ticks)
    OBVIOUS
  <2>7. /\ (from + p) % Ticks \in T!Tick0
        /\ from + p <= n => l = T!Unlinked
        /\ from + p > n =>
             /\ l \in T!Lists
             /\ ((from + p) % Ticks) + (IF l = T!Other(current) THEN Ticks ELSE 0) = from + p - (n - now)
    BY <1>3, <2>3, <2>6, PlaceIs
  <2>8. T!Place(p, MomentOf(p, a, i), now, MomentOf(p, a, i - 1)) = l
    BY <2>4, <2>5, <2>6
  <2>9. from + p = a + (i * p)
    BY <2>2, <2>3
  <2>10. MomentOf(p, a, i) \in T!Tick0
    BY <2>4, <2>7
  <2>11. a + (i * p) <= n => l = T!Unlinked
    BY <2>7, <2>9
  <2>12. ASSUME a + (i * p) > n
         PROVE  /\ l \in T!Lists
                /\ MomentOf(p, a, i) + (IF l = T!Other(current) THEN Ticks ELSE 0) = a + (i * p) - (n - now)
    <3>1. PICK y, m, w : y = a + (i * p) /\ m = MomentOf(p, a, i) /\ w = (IF l = T!Other(current) THEN Ticks ELSE 0)
      OBVIOUS
    <3>2. from + p = y /\ (from + p) % Ticks = m /\ from + p > n
      BY <2>4, <2>9, <2>12, <3>1
    <3>3. l \in T!Lists
      BY <2>7, <3>2
    <3>4. ((from + p) % Ticks) + w = from + p - (n - now)
      BY <2>7, <3>1, <3>2
    <3>5. m + w = y - (n - now)
      <4>1. m \in Int /\ w \in Int /\ from \in Int /\ p \in Int /\ n - now \in Int
        BY <1>1, <1>3, <2>3, <2>10, <3>1 DEF T!Tick0
      <4>2. m + w = from + p - (n - now)
        BY <3>2, <3>4
      <4>3. y \in Int
        BY <3>2, <4>1
      <4>. QED BY <3>2, <4>1, <4>2, <4>3
    <3>6. MomentOf(p, a, i) + (IF l = T!Other(current) THEN Ticks ELSE 0) = a + (i * p) - (n - now)
      <4>1. m + w = MomentOf(p, a, i) + (IF l = T!Other(current) THEN Ticks ELSE 0)
        BY <3>1
      <4>2. y - (n - now) = a + (i * p) - (n - now)
        <5>1. n - now \in Int /\ y \in Int /\ i * p \in Int /\ a \in Int
          BY <1>1, <1>3, <1>7, <1>8, <3>1
        <5>. QED BY <3>1, <5>1
      <4>. QED BY <3>5, <4>1, <4>2
    <3>. QED BY <3>3, <3>6
  <2>. QED BY <2>8, <2>10, <2>11, <2>12
<1>9. Fits(p, a, now, k) /\ \A m \in 1..(k - 1) : ~Fits(p, a, now, m)
  <2>1. Fits(p, a, now, k)
    <3>1. a + (k * p) > n
      <4>1. k * p = (q + 1) * p /\ k * p \in Nat
        BY <1>1, <1>4, <1>5
      <4>. QED BY <1>1, <1>3, <1>4, <4>1
    <3>. QED BY <1>6, <1>8, <3>1, OtherList DEF Fits
  <2>2. ASSUME NEW m \in 1..(k - 1) PROVE ~Fits(p, a, now, m)
    <3>1. m \in 1..Ticks /\ m <= k /\ m \in Nat /\ m <= q
      BY <1>1, <1>4, <1>5, <1>6
    <3>2. m * p \in Nat /\ m * p <= q * p /\ q * p \in Nat
      BY <1>1, <1>4, <3>1, ProductGrows
    <3>3. a + (m * p) <= n
      BY <1>1, <1>3, <1>4, <3>2
    <3>. QED BY <1>8, <3>1, <3>3 DEF Fits
  <2>. QED BY <2>1, <2>2
<1>10. FitOf(p, a, now) = k
  <2>1. PICK c : c = FitOf(p, a, now)
    OBVIOUS
  <2>2. c \in 1..Ticks /\ Fits(p, a, now, c) /\ \A m \in 1..(c - 1) : ~Fits(p, a, now, m)
    BY <1>6, <1>9, <2>1, Zenon DEF FitOf
  <2>3. ~(c < k)
    <3>1. c < k => c \in 1..(k - 1)
      BY <1>6, <2>2
    <3>. QED BY <1>9, <2>2, <3>1
  <2>4. ~(k < c)
    <3>1. k < c => k \in 1..(c - 1)
      BY <1>6, <2>2
    <3>. QED BY <1>9, <2>2, <3>1
  <2>. QED BY <1>6, <2>1, <2>2, <2>3, <2>4
<1>11. PICK r : r = T!Reloads(p, a, now)
  OBVIOUS
<1>12. /\ r.list = T!Place(p, MomentOf(p, a, k), now, MomentOf(p, a, k - 1))
       /\ r.expiry = MomentOf(p, a, k) /\ r.periods = k
  BY <1>10, <1>11, ReloadsIs
<1>13. a + (k * p) > n /\ k * p \in Nat
  <2>1. k * p = (q + 1) * p /\ k * p \in Nat
    BY <1>1, <1>4, <1>5
  <2>. QED BY <1>1, <1>3, <1>4, <2>1
<1>14. /\ r.list \in T!Lists /\ r.expiry \in T!Tick0
       /\ r.expiry + (IF r.list = T!Other(current) THEN Ticks ELSE 0) = a + (k * p) - (n - now)
  BY <1>6, <1>8, <1>12, <1>13
<1>15. PICK x, e, w : x = k * p /\ e = r.expiry /\ w = IF r.list = T!Other(current) THEN Ticks ELSE 0
  OBVIOUS
<1>16. a + x = e + w + (n - now)
  <2>1. e \in Int /\ w \in Int /\ x \in Int /\ n \in Int
    BY <1>1, <1>3, <1>13, <1>14, <1>15 DEF T!Tick0
  <2>2. e + w = a + x - (n - now)
    BY <1>14, <1>15
  <2>. QED BY <1>1, <2>1, <2>2
<1>. QED BY <1>2, <1>6, <1>11, <1>12, <1>14, <1>15, <1>16

\* A number of ticks, with the turn they may have made.
LEMMA TurnOf ==
  ASSUME T!TimerAssumption, NEW now \in T!Tick0, NEW last \in T!Tick0, NEW late \in 0..MaxLag,
         now = (last + late) % Ticks
  PROVE  now + (IF now < last THEN Ticks ELSE 0) = last + late
<1>1. /\ Ticks \in Nat \ {0} /\ now \in 0..(Ticks - 1) /\ last \in 0..(Ticks - 1)
      /\ late \in Nat /\ late < Ticks
  BY DEF T!TimerAssumption, T!Tick0
<1>2. PICK x : x = last + late
  OBVIOUS
<1>3. x \in Nat /\ x < Ticks + Ticks /\ now = x % Ticks
  BY <1>1, <1>2
<1>4. CASE x < Ticks
  <2>1. now = x
    BY <1>1, <1>3, <1>4, SmallRemainder
  <2>. QED BY <1>1, <1>2, <2>1
<1>5. CASE x >= Ticks
  <2>1. now = x - Ticks
    BY <1>1, <1>3, <1>5, NextRemainder
  <2>. QED BY <1>1, <1>2, <2>1
<1>. QED BY <1>1, <1>3, <1>4, <1>5

\* When the daemon samples the counter, it has no turn to make up for.
LEMMA Sampled ==
  ASSUME T!TimerAssumption, ClockSound, tick' = tick, current' \in T!Lists,
         lastTime' = tick, lag' = 0
  PROVE  ClockSound' /\ Turn' = 0
<1>1. Ticks \in Nat \ {0} /\ tick \in 0..(Ticks - 1) /\ MaxLag \in Nat
  BY DEF T!TimerAssumption, T!Tick0, ClockSound
<1>2. tick % Ticks = tick
  BY <1>1, SmallRemainder
<1>3. tick + 0 = tick
  BY <1>1
<1>4. (lastTime' + lag') % Ticks = tick'
  BY <1>2, <1>3
<1>5. ClockSound'
  BY <1>1, <1>4 DEF ClockSound, T!Tick0
<1>6. ~(tick' < lastTime')
  BY <1>1
<1>. QED BY <1>5, <1>6 DEF Turn

\* A command, and the sample, are a tick older.
LEMMA OneMoreTick ==
  ASSUME T!TimerAssumption, NEW at \in T!Tick0, NEW age \in 0..MaxLag, age < MaxLag
  PROVE  (((at + age) % Ticks) + 1) % Ticks = (at + (age + 1)) % Ticks
<1>1. Ticks \in Nat \ {0} /\ at \in 0..(Ticks - 1) /\ age \in Nat /\ age + 3 <= Ticks
  BY DEF T!TimerAssumption, T!Tick0
<1>2. PICK x : x = at + age
  OBVIOUS
<1>3. x \in Nat /\ x + 1 < Ticks + Ticks /\ at + (age + 1) = x + 1
  BY <1>1, <1>2
<1>4. CASE x < Ticks
  <2>1. x % Ticks = x
    BY <1>1, <1>3, <1>4, SmallRemainder
  <2>. QED BY <1>2, <1>3, <2>1
<1>5. CASE x >= Ticks
  <2>1. x < Ticks + Ticks
    BY <1>1, <1>3
  <2>2. x % Ticks = x - Ticks
    BY <1>1, <1>3, <1>5, <2>1, NextRemainder
  <2>3. PICK y : y = x - Ticks + 1
    OBVIOUS
  <2>4. y \in Nat /\ y < Ticks /\ x + 1 \in Nat /\ x + 1 >= Ticks /\ y = x + 1 - Ticks
    BY <1>1, <1>3, <1>5, <2>3
  <2>5. y % Ticks = y
    BY <1>1, <2>4, SmallRemainder
  <2>6. (x + 1) % Ticks = x + 1 - Ticks
    <3>1. PICK z : z = x + 1
      OBVIOUS
    <3>2. z \in Nat /\ z < Ticks + Ticks /\ z >= Ticks /\ Ticks \in Nat \ {0}
      BY <1>1, <1>3, <2>4, <3>1
    <3>3. z % Ticks = z - Ticks
      BY <3>2, NextRemainder
    <3>. QED BY <1>1, <1>3, <3>1, <3>2, <3>3
  <2>. QED BY <1>2, <1>3, <2>2, <2>3, <2>4, <2>5, <2>6
<1>. QED BY <1>1, <1>3, <1>4, <1>5

\* A command that waits through a tick.
LEMMA CommandAges ==
  ASSUME T!TimerAssumption, NEW c \in CommandRecords, Sent(c), c.age < MaxLag, tick' = (tick + 1) % Ticks
  PROVE  LET a == [c EXCEPT !.age = @ + 1]
         IN a \in CommandRecords /\ a.timer = c.timer /\ Sent(a)'
<1>1. PICK at, age : at = c.at /\ age = c.age
  OBVIOUS
<1>2. at \in T!Tick0 /\ age \in 0..MaxLag /\ age < MaxLag /\ tick = (at + age) % Ticks
  BY <1>1 DEF CommandRecords, Sent
<1>3. tick' = (at + (age + 1)) % Ticks
  BY <1>2, OneMoreTick
<1>4. PICK a : a = [c EXCEPT !.age = age + 1]
  OBVIOUS
<1>5. age + 1 \in 0..MaxLag
  BY <1>2 DEF T!TimerAssumption
<1>6. a \in CommandRecords /\ a.timer = c.timer /\ a.at = at /\ a.age = age + 1
  BY <1>1, <1>4, <1>5 DEF CommandRecords
<1>7. Sent(a)'
  BY <1>3, <1>6 DEF Sent
<1>. QED BY <1>1, <1>4, <1>6, <1>7

\* The rest of the lists stays sound when the daemon has settled one timer.
LEMMA OneSettled ==
  ASSUME LinksSound, tick' = tick, current' = current, Turn' = Turn,
         NEW t \in Timer, NEW r \in TimerRecords, NEW d \in Int,
         timer' = [timer EXCEPT ![t] = r], left' = [left EXCEPT ![t] = d],
         r.list # T!Unlinked => r.active /\ OnTime(r, d),
         r.list = T!Unlinked /\ r.active => InHand(t)',
         \A u \in Timer : u # t /\ InHand(u) => InHand(u)'
  PROVE  LinksSound'
<1>1. timer' \in [Timer -> TimerRecords] /\ left' \in [Timer -> Int]
  BY DEF LinksSound
<1>3. timer'[t] = r /\ left'[t] = d
  BY DEF LinksSound
<1>4. \A u \in Timer : u # t => timer'[u] = timer[u] /\ left'[u] = left[u]
  BY DEF LinksSound
<1>5. ASSUME NEW u \in Timer, timer'[u].list # T!Unlinked
      PROVE  timer'[u].active /\ OnTime(timer[u], left[u])'
  <2>1. CASE u = t
    <3>1. r.active /\ OnTime(r, d)
      BY <1>3, <1>5, <2>1
    <3>2. OnTime(timer[u], left[u])'
      BY <1>3, <2>1, <3>1 DEF OnTime
    <3>. QED BY <1>3, <2>1, <3>1, <3>2
  <2>2. CASE u # t
    <3>1. timer[u].active /\ OnTime(timer[u], left[u])
      BY <1>4, <1>5, <2>2 DEF LinksSound
    <3>2. OnTime(timer[u], left[u])'
      BY <1>4, <2>2, <3>1 DEF OnTime
    <3>. QED BY <1>4, <2>2, <3>1, <3>2
  <2>. QED BY <2>1, <2>2
<1>6. ASSUME NEW u \in Timer, timer'[u].list = T!Unlinked, timer'[u].active
      PROVE  InHand(u)'
  <2>1. CASE u = t
    BY <1>3, <1>6, <2>1
  <2>2. CASE u # t
    BY <1>4, <1>6, <2>2 DEF LinksSound
  <2>. QED BY <2>1, <2>2
<1>. QED BY <1>1, <1>5, <1>6 DEF LinksSound

\* A timer that is reloaded, or ends, is in step with its list and on time.
LEMMA SettledSound ==
  ASSUME T!TimerAssumption, ClockSound, NEW t \in Timer, NEW old \in TimerRecords,
         NEW a \in T!Tick0, NEW now \in T!Tick0, NEW due \in Int,
         due = a - (IF a > now THEN Ticks ELSE 0) - tick - Turn,
         T!Settled(t, old, a, now, due)
  PROVE  \E r \in TimerRecords, d \in Int :
           /\ timer' = [timer EXCEPT ![t] = r] /\ left' = [left EXCEPT ![t] = d]
           /\ r.list # T!Unlinked => r.active /\ OnTime(r, d)
           /\ r.list = T!Unlinked => ~r.active
<1>1. PICK p : p = old.period
  OBVIOUS
<1>2. PICK rl : rl = T!Reloads(p, a, now)
  OBVIOUS
<1>3. PICK n : n = IF a > now THEN now + Ticks ELSE now
  OBVIOUS
<1>4. p \in 1..(Ticks - 1) /\ current \in T!Lists
  BY <1>1 DEF TimerRecords, ClockSound
<1>5. /\ rl.list \in T!Lists /\ rl.expiry \in T!Tick0 /\ rl.periods \in Nat
      /\ a + (rl.periods * p) = rl.expiry + (IF rl.list = T!Other(current) THEN Ticks ELSE 0) + (n - now)
  BY <1>2, <1>3, <1>4, ReloadIsDue
<1>6. IF old.auto
      THEN /\ timer' = [timer EXCEPT ![t] = [old EXCEPT !.active = TRUE, !.list = rl.list, !.expiry = rl.expiry]]
           /\ left' = [left EXCEPT ![t] = due + rl.periods * p]
      ELSE /\ timer' = [timer EXCEPT ![t] = [old EXCEPT !.active = FALSE, !.list = T!Unlinked]]
           /\ left' = [left EXCEPT ![t] = 0]
  BY <1>1, <1>2 DEF T!Settled
<1>7. T!Unlinked \notin T!Lists
  BY DEF T!Lists, T!Unlinked
<1>8. CASE ~old.auto
  <2>1. PICK r : r = [old EXCEPT !.active = FALSE, !.list = T!Unlinked]
    OBVIOUS
  <2>2. r \in TimerRecords /\ r.list = T!Unlinked /\ r.active = FALSE
    BY <2>1 DEF TimerRecords
  <2>3. 0 \in Int /\ timer' = [timer EXCEPT ![t] = r] /\ left' = [left EXCEPT ![t] = 0]
    BY <1>6, <1>8, <2>1
  <2>. QED BY <2>2, <2>3
<1>9. CASE old.auto
  <2>1. PICK r : r = [old EXCEPT !.active = TRUE, !.list = rl.list, !.expiry = rl.expiry]
    OBVIOUS
  <2>2. PICK d : d = due + rl.periods * p
    OBVIOUS
  <2>3. r \in TimerRecords /\ r.list = rl.list /\ r.active = TRUE /\ r.expiry = rl.expiry
    BY <1>5, <2>1 DEF TimerRecords
  <2>4. timer' = [timer EXCEPT ![t] = r] /\ left' = [left EXCEPT ![t] = d]
    BY <1>6, <1>9, <2>1, <2>2
  <2>5. PICK x, w, turn : x = rl.periods * p /\ w = (IF rl.list = T!Other(current) THEN Ticks ELSE 0) /\ turn = Turn
    OBVIOUS
  <2>6. /\ Ticks \in Nat /\ a \in Int /\ now \in Int /\ n \in Int /\ x \in Int /\ w \in Int /\ turn \in Int
        /\ tick \in Int /\ rl.expiry \in Int
    <3>1. Ticks \in Nat /\ a \in Int /\ now \in Int /\ tick \in Int /\ rl.expiry \in Int
      BY <1>5 DEF T!TimerAssumption, T!Tick0, ClockSound
    <3>2. n \in Int
      BY <1>3, <3>1
    <3>3. x \in Int
      BY <1>4, <1>5, <2>5
    <3>. QED BY <2>5, <3>1, <3>2, <3>3 DEF Turn
  <2>7. d = due + x /\ due = a - (n - now) - tick - turn
    BY <1>3, <2>2, <2>5, <2>6
  <2>8. a + x = rl.expiry + w + (n - now)
    BY <1>5, <2>5
  <2>9. d = rl.expiry + w - tick - turn /\ d \in Int
    <3>1. PICK e : e = rl.expiry
      OBVIOUS
    <3>2. e \in Int /\ a + x = e + w + (n - now)
      BY <2>6, <2>8, <3>1
    <3>3. d = e + w - tick - turn /\ d \in Int
      BY <2>6, <2>7, <3>2
    <3>. QED BY <3>1, <3>3
  <2>10. OnTime(r, d)
    BY <2>3, <2>5, <2>9 DEF OnTime
  <2>. QED BY <1>5, <1>7, <2>3, <2>4, <2>9, <2>10
<1>10. old.auto \in BOOLEAN
  BY DEF TimerRecords
<1>. QED BY <1>8, <1>9

\* The tick interrupt: whatever is under way is a tick nearer, or later.
LEMMA TickStep ==
  ASSUME T!TimerAssumption, TimersSound, T!Tick PROVE TimersSound'
<1>1. ClockSound'
  <2>1. Ticks \in Nat \ {0} /\ lastTime \in T!Tick0 /\ lag \in 0..MaxLag /\ lag < MaxLag /\ MaxLag \in Nat
    BY DEF T!TimerAssumption, TimersSound, ClockSound, T!Tick
  <2>2. tick' = (tick + 1) % Ticks /\ lag' = lag + 1 /\ lastTime' = lastTime /\ current' = current
    BY DEF T!Tick
  <2>3. tick' = (lastTime + (lag + 1)) % Ticks
    BY <2>1, <2>2, OneMoreTick DEF TimersSound, ClockSound
  <2>4. tick' \in 0..(Ticks - 1)
    <3>1. tick + 1 \in Nat /\ Ticks \in Nat \ {0}
      BY <2>1 DEF TimersSound, ClockSound, T!Tick0
    <3>. QED BY <2>2, <3>1
  <2>5. lag + 1 \in 0..MaxLag
    BY <2>1
  <2>. QED BY <2>1, <2>2, <2>3, <2>4, <2>5 DEF TimersSound, ClockSound, T!Tick0
<1>2. tick' + Turn' = tick + Turn + 1
  <2>1. tick + Turn = lastTime + lag
    BY TurnOf DEF TimersSound, ClockSound, Turn
  <2>2. tick' + Turn' = lastTime' + lag'
    BY <1>1, TurnOf DEF ClockSound, Turn
  <2>3. lastTime' = lastTime /\ lag' = lag + 1 /\ lastTime \in Int /\ lag \in Int
    BY DEF T!Tick, TimersSound, ClockSound, T!Tick0
  <2>. QED BY <2>1, <2>2, <2>3
<1>3. timer' = timer /\ current' = current /\ expiring' = expiring
  BY DEF T!Tick
\* What counts the ticks to a timer keeps it on time.
<1>4. left' \in [Timer -> Int]
  BY DEF T!Tick, TimersSound, LinksSound
<1>5. ASSUME NEW t \in Timer, T!Counting(t), OnTime(timer[t], left[t]) PROVE OnTime(timer[t], left[t])'
  <2>1. PICK e, w, now, turn : e = timer[t].expiry /\ w = (IF timer[t].list = T!Other(current) THEN Ticks ELSE 0)
                               /\ now = tick /\ turn = Turn
    OBVIOUS
  <2>2. e \in Int /\ w \in Int /\ now \in Int /\ turn \in Int /\ tick' \in Int /\ Turn' \in Int
    <3>1. Ticks \in Nat
      BY DEF T!TimerAssumption
    <3>2. e \in Int /\ now \in Int /\ tick' \in Int
      BY <1>1, <2>1 DEF TimersSound, ClockSound, LinksSound, TimerRecords, T!Tick0
    <3>3. w \in Int
      BY <2>1, <3>1
    <3>4. turn \in Int /\ Turn' \in Int
      BY <2>1, <3>1 DEF Turn
    <3>. QED BY <3>2, <3>3, <3>4
  <2>3. left[t] = e + w - now - turn
    BY <1>5, <2>1 DEF OnTime
  <2>4. left'[t] = left[t] - 1
    BY <1>5 DEF T!Tick
  <2>5. PICK m, v : m = tick' /\ v = Turn'
    OBVIOUS
  <2>6. m + v = now + turn + 1 /\ m \in Int /\ v \in Int
    BY <1>2, <2>1, <2>2, <2>5
  <2>7. left'[t] = e + w - m - v
    BY <2>2, <2>3, <2>4, <2>6
  <2>. QED BY <1>3, <2>1, <2>5, <2>7 DEF OnTime
<1>6. ExpiringSound'
  <2>1. CASE expiring = << >>
    BY <1>3, <2>1 DEF ExpiringSound
  <2>2. CASE expiring # << >>
    <3>1. PICK e \in ExpiringRecords :
            /\ expiring = <<e>>
            /\ timer[e.timer].list = T!Unlinked /\ timer[e.timer].expiry <= e.now
            /\ OnTime(timer[e.timer], left[e.timer])
      BY <2>2 DEF TimersSound, ExpiringSound
    <3>2. e.timer \in Timer
      BY DEF ExpiringRecords
    <3>3. T!Counting(e.timer)
      BY <3>1 DEF T!Counting
    <3>4. OnTime(timer[e.timer], left[e.timer])'
      BY <1>5, <3>1, <3>2, <3>3
    <3>. QED BY <1>3, <3>1, <3>4 DEF ExpiringSound
  <2>. QED BY <2>1, <2>2
<1>7. CallsSound'
  <2>1. commands' \in Seq(CommandRecords) /\ \A i \in 1..Len(commands') : Sent(commands[i])'
    <3>1. commands \in Seq(CommandRecords) /\ \A i \in 1..Len(commands) : Sent(commands[i])
      BY DEF TimersSound, CallsSound
    <3>2. PICK n \in Nat : n = Len(commands) /\ DOMAIN commands = 1..n
      BY <3>1
    <3>3. commands' = [i \in 1..n |-> [commands[i] EXCEPT !.age = @ + 1]]
      BY <3>2 DEF T!Tick
    <3>4. ASSUME NEW i \in 1..n
          PROVE  commands'[i] \in CommandRecords /\ Sent(commands[i])'
      <4>1. PICK c : c = commands[i]
        OBVIOUS
      <4>2. c \in CommandRecords /\ Sent(c) /\ c.age < MaxLag
        BY <3>1, <3>2, <4>1 DEF T!Tick
      <4>3. PICK a : a = [c EXCEPT !.age = @ + 1]
        OBVIOUS
      <4>4. a \in CommandRecords /\ Sent(a)'
        BY <4>2, <4>3, CommandAges DEF T!Tick
      <4>5. commands'[i] = a
        BY <3>3, <4>1, <4>3
      <4>6. Sent(commands[i])'
        BY <4>4, <4>5 DEF Sent
      <4>. QED BY <4>4, <4>5, <4>6
    <3>5. commands' \in [1..n -> CommandRecords]
      BY <3>3, <3>4
    <3>6. commands' \in Seq(CommandRecords) /\ Len(commands') = n
      BY <3>5
    <3>. QED BY <3>4, <3>6
  <2>2. CASE hand = << >>
    <3>1. hand' = << >>
      BY <2>2 DEF T!Tick
    <3>. QED BY <2>1, <3>1 DEF CallsSound
  <2>3. ASSUME NEW c \in CommandRecords, hand = <<c>>, Sent(c) PROVE CallsSound'
    <3>1. PICK a : a = [c EXCEPT !.age = @ + 1]
      OBVIOUS
    <3>2. c.age < MaxLag /\ hand' = <<a>>
      BY <2>3, <3>1 DEF T!Tick
    <3>3. a \in CommandRecords /\ Sent(a)'
      BY <2>3, <3>1, <3>2, CommandAges DEF T!Tick
    <3>. QED BY <2>1, <3>2, <3>3 DEF CallsSound
  <2>. QED BY <2>2, <2>3 DEF TimersSound, CallsSound
\* The command in hand is the same.
<1>8. /\ hand # << >> <=> hand' # << >>
      /\ hand # << >> => hand'[1].timer = hand[1].timer
  <2>1. CASE hand = << >>
    BY <2>1 DEF T!Tick
  <2>2. ASSUME NEW c \in CommandRecords, hand = <<c>>
        PROVE  hand' # << >> /\ hand'[1].timer = hand[1].timer
    <3>1. PICK a : a = [c EXCEPT !.age = @ + 1]
      OBVIOUS
    <3>2. hand' = <<a>>
      BY <2>2, <3>1 DEF T!Tick
    <3>3. a.timer = c.timer
      BY <3>1 DEF CommandRecords
    <3>. QED BY <2>2, <3>2, <3>3
  <2>3. hand = << >> \/ \E c \in CommandRecords : hand = <<c>>
    BY DEF TimersSound, CallsSound
  <2>. QED BY <2>1, <2>2, <2>3
<1>9. HandSound'
  BY <1>3, <1>8 DEF TimersSound, HandSound
<1>10. LinksSound'
  <2>1. ASSUME NEW t \in Timer PROVE InHand(t)' <=> InHand(t)
    BY <1>3, <1>8 DEF InHand
  <2>2. ASSUME NEW t \in Timer, timer'[t].list # T!Unlinked
        PROVE  timer'[t].active /\ OnTime(timer[t], left[t])'
    BY <1>3, <1>5, <2>2 DEF TimersSound, LinksSound, T!Counting
  <2>3. ASSUME NEW t \in Timer, timer'[t].list = T!Unlinked, timer'[t].active
        PROVE  InHand(t)'
    BY <1>3, <2>1, <2>3 DEF TimersSound, LinksSound
  <2>. QED BY <1>3, <1>4, <2>2, <2>3 DEF TimersSound, LinksSound
<1>. QED BY <1>1, <1>6, <1>7, <1>9, <1>10 DEF TimersSound

\* A call only sends a command.
LEMMA CallStep ==
  ASSUME T!TimerAssumption, TimersSound, NEW t \in Timer, NEW id \in {"start", "stop", "change-period"},
         NEW p \in 1..(Ticks - 1), T!Call(t, id, p)
  PROVE  TimersSound'
<1>1. UNCHANGED <<tick, timer, current, lastTime, lag, hand, expiring, left>>
  BY DEF T!Call
<1>2. \A c \in CommandRecords : Sent(c)' <=> Sent(c)
  BY <1>1 DEF Sent
<1>3. PICK c : c = [timer |-> t, id |-> id, at |-> tick, age |-> 0, period |-> p]
  OBVIOUS
<1>4. commands' = Append(commands, c)
  BY <1>3 DEF T!Call
<1>5. c \in CommandRecords /\ Sent(c)
  <2>1. MaxLag \in Nat /\ Ticks \in Nat \ {0} /\ tick \in T!Tick0
    BY DEF T!TimerAssumption, TimersSound, ClockSound
  <2>2. c \in CommandRecords
    BY <1>3, <2>1 DEF CommandRecords
  <2>3. tick \in Nat /\ tick < Ticks
    BY <2>1 DEF T!Tick0
  <2>4. tick % Ticks = tick
    BY <2>1, <2>3, SmallRemainder
  <2>5. tick + 0 = tick
    BY <2>3
  <2>. QED BY <1>3, <2>2, <2>4, <2>5 DEF Sent
<1>6. /\ commands \in Seq(CommandRecords)
      /\ \A i \in 1..Len(commands) : commands[i] \in CommandRecords /\ Sent(commands[i])
  BY DEF TimersSound, CallsSound
<1>7. commands' \in Seq(CommandRecords)
  BY <1>4, <1>5, <1>6
<1>8. ASSUME NEW i \in 1..Len(commands') PROVE Sent(commands[i])'
  <2>1. commands'[i] \in CommandRecords /\ Sent(commands'[i])
    BY <1>4, <1>5, <1>6, <1>8
  <2>. QED BY <1>1, <2>1 DEF Sent
<1>9. CallsSound'
  BY <1>1, <1>2, <1>7, <1>8 DEF TimersSound, CallsSound
<1>10. ClockSound' /\ ExpiringSound' /\ HandSound' /\ LinksSound'
  BY <1>1 DEF TimersSound, ClockSound, ExpiringSound, HandSound, LinksSound, OnTime, Turn, InHand
<1>. QED BY <1>9, <1>10 DEF TimersSound

\* The calls stay sound while the counter stands still and none is sent.
LEMMA CallsStay ==
  ASSUME CallsSound, tick' = tick, commands' = commands, hand' \in {hand, << >>}
  PROVE  CallsSound'
<1>1. \A c \in CommandRecords : Sent(c)' <=> Sent(c)
  BY DEF Sent
<1>2. \A i \in 1..Len(commands') : Sent(commands[i])'
  BY DEF CallsSound, Sent
<1>. QED BY <1>1, <1>2 DEF CallsSound

\* A timer that is taken off the current list is settled for the moment it was due.
LEMMA UnlinkStep ==
  ASSUME TimersSound, tick' = tick, current' = current, Turn' = Turn, left' = left,
         hand' = hand, T!Free, NEW t \in T!Linked(current), NEW now \in T!Tick0,
         timer[t].expiry <= now, timer' = T!Unlink(t), expiring' = <<[timer |-> t, now |-> now]>>
  PROVE  ExpiringSound' /\ HandSound' /\ LinksSound'
<1>1. t \in Timer /\ timer[t].list = current /\ current \in T!Lists
  BY DEF T!Linked, TimersSound, ClockSound
<1>2. /\ current # T!Unlinked /\ current # T!Other(current) /\ T!Other(current) # T!Unlinked
  BY <1>1, OtherList
<1>3. PICK r : r = [timer[t] EXCEPT !.list = T!Unlinked]
  OBVIOUS
<1>4. /\ timer \in [Timer -> TimerRecords] /\ left \in [Timer -> Int]
      /\ timer[t].active /\ OnTime(timer[t], left[t])
  BY <1>1, <1>2 DEF TimersSound, LinksSound
<1>5. r \in TimerRecords /\ r.list = T!Unlinked /\ r.expiry = timer[t].expiry
  BY <1>1, <1>3, <1>4 DEF TimerRecords
<1>6. timer' = [timer EXCEPT ![t] = r] /\ left' = [left EXCEPT ![t] = left[t]]
  BY <1>1, <1>3, <1>4 DEF T!Unlink
<1>7. OnTime(r, left[t])
  BY <1>1, <1>2, <1>4, <1>5 DEF OnTime
<1>8. InHand(t)'
  BY DEF InHand
<1>9. \A u \in Timer : u # t /\ InHand(u) => InHand(u)'
  BY DEF InHand, T!Free
<1>10. LinksSound'
  <2>1. LinksSound /\ left[t] \in Int
    BY <1>1, <1>4 DEF TimersSound
  <2>. QED BY <1>1, <1>5, <1>6, <1>8, <1>9, <2>1, OneSettled
<1>11. timer'[t] = r /\ left'[t] = left[t]
  BY <1>1, <1>4, <1>6
<1>12. ExpiringSound'
  <2>1. PICK e : e = [timer |-> t, now |-> now]
    OBVIOUS
  <2>2. e \in ExpiringRecords /\ e.timer = t /\ e.now = now /\ expiring' = <<e>>
    BY <1>1, <2>1 DEF ExpiringRecords
  <2>3. OnTime(timer[t], left[t])'
    BY <1>2, <1>5, <1>7, <1>11 DEF OnTime
  <2>. QED BY <1>5, <1>11, <2>2, <2>3 DEF ExpiringSound
<1>13. HandSound'
  <2>1. ASSUME hand # << >> PROVE hand[1].timer \in Timer /\ timer[hand[1].timer].list = T!Unlinked
    BY <2>1 DEF TimersSound, HandSound, CallsSound, CommandRecords
  <2>2. ASSUME hand # << >> PROVE hand[1].timer # t
    BY <1>1, <1>2, <2>1, <2>2
  <2>. QED BY <1>4, <1>6, <2>1, <2>2 DEF HandSound
<1>. QED BY <1>10, <1>12, <1>13

\* prvSwitchTimerLists takes a timer off after the wrap, for the last tick before it.
LEMMA FlushUnlinksStep ==
  ASSUME T!TimerAssumption, TimersSound, T!FlushUnlinks PROVE TimersSound'
<1>1. PICK t \in T!Linked(current) :
        timer' = T!Unlink(t) /\ expiring' = <<[timer |-> t, now |-> Ticks - 1]>>
  BY DEF T!FlushUnlinks
<1>2. UNCHANGED <<tick, current, lastTime, lag, commands, hand, left>> /\ T!Free
  BY DEF T!FlushUnlinks
<1>3. Ticks - 1 \in T!Tick0 /\ timer[t].expiry <= Ticks - 1
  BY DEF T!TimerAssumption, T!Tick0, T!Linked, TimersSound, LinksSound, TimerRecords
<1>4. Turn' = Turn
  BY <1>2 DEF Turn
<1>5. ExpiringSound' /\ HandSound' /\ LinksSound'
  BY <1>1, <1>2, <1>3, <1>4, UnlinkStep
<1>6. CallsSound' /\ ClockSound'
  BY <1>2, CallsStay DEF TimersSound, ClockSound
<1>. QED BY <1>5, <1>6 DEF TimersSound

\* prvProcessExpiredTimer takes one off when its tick has come.
LEMMA ExpireUnlinksStep ==
  ASSUME T!TimerAssumption, TimersSound, T!ExpireUnlinks PROVE TimersSound'
<1>1. PICK t \in T!Linked(current) :
        timer[t].expiry <= tick /\ timer' = T!Unlink(t) /\ expiring' = <<[timer |-> t, now |-> tick]>>
  BY DEF T!ExpireUnlinks
<1>2. UNCHANGED <<tick, current, commands, hand, left>> /\ T!Free /\ lastTime' = tick /\ lag' = 0 /\ ~T!Wrapped
  BY DEF T!ExpireUnlinks
<1>3. ClockSound' /\ Turn' = 0 /\ tick \in T!Tick0
  BY <1>2, Sampled DEF TimersSound, ClockSound
<1>4. Turn = 0
  BY <1>2 DEF Turn, T!Wrapped
<1>5. ExpiringSound' /\ HandSound' /\ LinksSound'
  BY <1>1, <1>2, <1>3, <1>4, UnlinkStep
<1>6. CallsSound'
  BY <1>2, CallsStay DEF TimersSound
<1>. QED BY <1>3, <1>5, <1>6 DEF TimersSound

\* The lists change roles when the wrapped counter has emptied the current one:
\* what is linked for the next turn is then linked for this one.
LEMMA SwitchStep ==
  ASSUME T!TimerAssumption, TimersSound, T!Switch PROVE TimersSound'
<1>1. /\ UNCHANGED <<tick, timer, commands, hand, expiring, left>> /\ T!Free
      /\ current' = T!Other(current) /\ lastTime' = tick /\ lag' = 0
      /\ T!Linked(current) = {} /\ T!Wrapped
  BY DEF T!Switch
<1>2. current \in T!Lists /\ ClockSound
  BY DEF TimersSound, ClockSound
<1>3. /\ T!Other(current) \in T!Lists /\ T!Other(current) # current
      /\ T!Other(T!Other(current)) = current /\ \A m \in T!Lists : m = current \/ m = T!Other(current)
  BY <1>2, OtherList
<1>4. ClockSound' /\ Turn' = 0
  BY <1>1, <1>2, <1>3, Sampled
<1>5. Turn = Ticks
  BY <1>1 DEF Turn, T!Wrapped
<1>6. CallsSound'
  BY <1>1, CallsStay DEF TimersSound
<1>7. ExpiringSound'
  BY <1>1 DEF ExpiringSound, T!Free
<1>8. HandSound'
  BY <1>1 DEF TimersSound, HandSound
<1>9. ASSUME NEW t \in Timer, timer[t].list # T!Unlinked PROVE timer[t].active /\ OnTime(timer[t], left[t])'
  <2>1. timer \in [Timer -> TimerRecords] /\ timer[t].active /\ OnTime(timer[t], left[t])
    BY <1>9 DEF TimersSound, LinksSound
  <2>2. timer[t].list \in T!Lists /\ timer[t].expiry \in Int
    BY <1>9, <2>1 DEF TimerRecords, T!Tick0
  <2>3. timer[t].list = T!Other(current)
    <3>1. timer[t].list # current
      BY <1>1 DEF T!Linked
    <3>. QED BY <1>3, <2>2, <3>1
  <2>4. PICK e : e = timer[t].expiry
    OBVIOUS
  <2>5. left[t] = e + Ticks - tick - Ticks
    BY <1>5, <2>1, <2>3, <2>4 DEF OnTime
  <2>6. e \in Int /\ Ticks \in Int /\ tick \in Int
    BY <1>2, <2>2, <2>4 DEF T!TimerAssumption, ClockSound, T!Tick0
  <2>7. left[t] = e + 0 - tick - 0
    BY <2>5, <2>6
  <2>8. T!Other(current') = current /\ T!Other(current)' = current
    BY <1>1, <1>3
  <2>9. timer'[t].list # T!Other(current)'
    BY <1>1, <1>3, <2>3, <2>8
  <2>10. left'[t] = timer'[t].expiry + 0 - tick' - Turn'
    BY <1>1, <1>4, <2>4, <2>7
  <2>. QED BY <2>1, <2>9, <2>10 DEF OnTime
<1>10. LinksSound'
  BY <1>1, <1>9 DEF TimersSound, LinksSound, InHand
<1>. QED BY <1>4, <1>6, <1>7, <1>8, <1>10 DEF TimersSound

\* The daemon settles the timer it took off.
LEMMA SettleStep ==
  ASSUME T!TimerAssumption, TimersSound, T!Settle PROVE TimersSound'
<1>1. PICK e \in ExpiringRecords :
        /\ expiring = <<e>>
        /\ timer[e.timer].list = T!Unlinked /\ timer[e.timer].expiry <= e.now
        /\ OnTime(timer[e.timer], left[e.timer])
  BY DEF T!Settle, T!Free, TimersSound, ExpiringSound
<1>2. PICK t, now : t = e.timer /\ now = e.now
  OBVIOUS
<1>3. PICK old, a, due : old = timer[t] /\ a = timer[t].expiry /\ due = left[t]
  OBVIOUS
<1>4. t \in Timer /\ now \in T!Tick0 /\ old \in TimerRecords /\ a \in T!Tick0 /\ due \in Int
  BY <1>2, <1>3 DEF ExpiringRecords, TimersSound, LinksSound, TimerRecords
<1>5. UNCHANGED <<tick, current, lastTime, lag, commands, hand>> /\ expiring' = << >>
  BY DEF T!Settle
<1>6. ClockSound /\ CallsSound /\ HandSound /\ LinksSound
  BY DEF TimersSound
<1>7. T!Settled(t, old, a, now, due)
  BY <1>1, <1>2, <1>3 DEF T!Settle
<1>8. due = a - (IF a > now THEN Ticks ELSE 0) - tick - Turn
  <2>1. T!Unlinked # T!Other(current)
    BY <1>6, OtherList DEF ClockSound
  <2>2. due = a + 0 - tick - Turn
    BY <1>1, <1>2, <1>3, <2>1 DEF OnTime
  <2>3. a <= now
    BY <1>1, <1>2, <1>3
  <2>4. a \in Int /\ now \in Int
    BY <1>4 DEF T!Tick0, T!TimerAssumption
  <2>5. (IF a > now THEN Ticks ELSE 0) = 0
    BY <2>3, <2>4
  <2>6. PICK z : z = (IF a > now THEN Ticks ELSE 0)
    OBVIOUS
  <2>7. PICK m, turn : m = tick /\ turn = Turn
    OBVIOUS
  <2>8. m \in Int /\ turn \in Int
    BY <1>6, <2>7 DEF ClockSound, T!Tick0, Turn, T!TimerAssumption
  <2>9. due = a - z - m - turn
    BY <2>2, <2>4, <2>5, <2>6, <2>7, <2>8
  <2>. QED BY <2>6, <2>7, <2>9
<1>9. PICK r \in TimerRecords, d \in Int :
        /\ timer' = [timer EXCEPT ![t] = r] /\ left' = [left EXCEPT ![t] = d]
        /\ r.list # T!Unlinked => r.active /\ OnTime(r, d)
        /\ r.list = T!Unlinked => ~r.active
  BY <1>4, <1>6, <1>7, <1>8, SettledSound
<1>10. Turn' = Turn
  BY <1>5 DEF Turn
<1>11. \A u \in Timer : u # t /\ InHand(u) => InHand(u)'
  BY <1>1, <1>2, <1>5 DEF InHand
<1>12. LinksSound'
  BY <1>4, <1>5, <1>6, <1>9, <1>10, <1>11, OneSettled
<1>13. HandSound'
  <2>1. ASSUME hand # << >>
        PROVE  /\ hand[1].timer \in Timer /\ hand[1].timer # t
               /\ timer[hand[1].timer].list = T!Unlinked
    BY <1>1, <1>2, <1>6, <2>1 DEF HandSound, CallsSound, CommandRecords
  <2>2. timer \in [Timer -> TimerRecords]
    BY <1>6 DEF LinksSound
  <2>. QED BY <1>5, <1>9, <2>1, <2>2 DEF HandSound
<1>14. ClockSound' /\ CallsSound' /\ ExpiringSound'
  BY <1>5, <1>6, CallsStay DEF ClockSound, ExpiringSound
<1>. QED BY <1>12, <1>13, <1>14 DEF TimersSound

\* The timer of the oldest command leaves its list.
LEMMA ReceiveStep ==
  ASSUME T!TimerAssumption, TimersSound, T!Receive PROVE TimersSound'
<1>1. PICK c : c = Head(commands)
  OBVIOUS
<1>2. /\ hand' = <<c>> /\ commands' = Tail(commands) /\ timer' = T!Unlink(c.timer)
      /\ left' = [left EXCEPT ![c.timer] = 0]
      /\ UNCHANGED <<tick, current, lastTime, lag, expiring>>
      /\ T!Free /\ hand = << >> /\ commands # << >>
  BY <1>1 DEF T!Receive
<1>3. commands \in Seq(CommandRecords) /\ \A i \in 1..Len(commands) : Sent(commands[i])
  BY DEF TimersSound, CallsSound
<1>4. c \in CommandRecords /\ Sent(c) /\ c.timer \in Timer
  <2>1. 1 \in 1..Len(commands) /\ c = commands[1] /\ commands[1] \in CommandRecords
    BY <1>1, <1>2, <1>3
  <2>. QED BY <1>3, <2>1 DEF CommandRecords
<1>5. CallsSound'
  <2>1. commands' \in Seq(CommandRecords) /\ \A i \in 1..Len(commands') : Sent(commands'[i])
    BY <1>2, <1>3
  <2>2. \A i \in 1..Len(commands') : Sent(commands[i])'
    BY <1>2, <2>1 DEF Sent
  <2>3. Sent(c)'
    BY <1>2, <1>4 DEF Sent
  <2>. QED BY <1>2, <1>4, <2>1, <2>2, <2>3 DEF CallsSound
<1>6. PICK t, r : t = c.timer /\ r = [timer[t] EXCEPT !.list = T!Unlinked]
  OBVIOUS
<1>7. timer \in [Timer -> TimerRecords] /\ LinksSound /\ ClockSound
  BY DEF TimersSound, LinksSound
<1>8. r \in TimerRecords /\ r.list = T!Unlinked /\ timer' = [timer EXCEPT ![t] = r]
  BY <1>2, <1>4, <1>6, <1>7 DEF T!Unlink, TimerRecords
<1>9. InHand(t)' /\ \A u \in Timer : u # t /\ InHand(u) => InHand(u)'
  BY <1>2, <1>6 DEF InHand, T!Free
<1>10. LinksSound'
  <2>1. Turn' = Turn /\ t \in Timer /\ 0 \in Int /\ left' = [left EXCEPT ![t] = 0]
    BY <1>2, <1>4, <1>6 DEF Turn
  <2>. QED BY <1>2, <1>7, <1>8, <1>9, <2>1, OneSettled
<1>11. HandSound'
  BY <1>2, <1>4, <1>6, <1>7, <1>8 DEF HandSound, T!Free
<1>12. ClockSound' /\ ExpiringSound'
  BY <1>2, <1>7 DEF ClockSound, ExpiringSound, T!Free
<1>. QED BY <1>5, <1>10, <1>11, <1>12 DEF TimersSound

\* xTimerStart, carried out late: the timer is placed by the moment of the call.
LEMMA StartIsOnTime ==
  ASSUME T!TimerAssumption, TimersSound, ~T!Wrapped, NEW c \in CommandRecords, Sent(c), T!Start(c)
  PROVE  \E r \in TimerRecords, d \in Int :
           /\ timer' = [timer EXCEPT ![c.timer] = r] /\ left' = [left EXCEPT ![c.timer] = d]
           /\ r.list # T!Unlinked => r.active /\ OnTime(r, d)
           /\ r.list = T!Unlinked => ~r.active
<1>1. PICK t, at, age, old, p :
        t = c.timer /\ at = c.at /\ age = c.age /\ old = timer[c.timer] /\ p = timer[c.timer].period
  OBVIOUS
<1>2. /\ t \in Timer /\ old \in TimerRecords /\ p \in 1..(Ticks - 1) /\ ClockSound /\ Turn = 0
      /\ p = old.period
  BY <1>1 DEF CommandRecords, TimersSound, LinksSound, TimerRecords, Turn, T!Wrapped
<1>3. /\ Ticks \in Nat \ {0} /\ at \in 0..(Ticks - 1) /\ age \in Nat /\ age + 2 <= Ticks
      /\ tick \in 0..(Ticks - 1) /\ p \in Nat /\ p < Ticks /\ tick = (at + age) % Ticks
  BY <1>1, <1>2 DEF CommandRecords, Sent, T!Tick0, T!TimerAssumption, ClockSound
<1>4. PICK n : n = at + age
  OBVIOUS
<1>5. n \in Nat /\ Abs(n, tick) /\ n < Ticks + Ticks
  <2>1. n \in Nat /\ n < Ticks + Ticks /\ tick = n % Ticks
    BY <1>3, <1>4
  <2>2. CASE n < Ticks
    BY <1>3, <2>1, <2>2, SmallRemainder DEF Abs
  <2>3. CASE n >= Ticks
    <3>1. tick = n - Ticks
      BY <1>3, <2>1, <2>3, NextRemainder
    <3>. QED BY <1>3, <2>1, <3>1 DEF Abs
  <2>. QED BY <1>3, <2>1, <2>2, <2>3
<1>6. PICK next : next = (at + p) % Ticks
  OBVIOUS
<1>7. PICK l : l = T!Place(p, next, tick, at)
  OBVIOUS
<1>8. at % Ticks = at
  BY <1>3, SmallRemainder
<1>9. /\ next \in T!Tick0
      /\ at + p <= n => l = T!Unlinked
      /\ at + p > n =>
           /\ l \in T!Lists
           /\ next + (IF l = T!Other(current) THEN Ticks ELSE 0) = at + p - (n - tick)
  <2>1. tick \in T!Tick0 /\ at \in Nat /\ at <= n /\ n - at < Ticks /\ current \in T!Lists
    BY <1>2, <1>3, <1>4 DEF T!Tick0, ClockSound
  <2>2. l = T!Place(p, (at + p) % Ticks, tick, at % Ticks)
    BY <1>6, <1>7, <1>8
  <2>. QED BY <1>2, <1>5, <1>6, <2>1, <2>2, PlaceIs
<1>10. IF l = T!Unlinked THEN T!Settled(t, old, next, tick, p - age)
       ELSE /\ timer' = [timer EXCEPT ![t] = [old EXCEPT !.active = TRUE, !.list = l, !.expiry = next]]
            /\ left' = [left EXCEPT ![t] = p - age]
  BY <1>1, <1>6, <1>7 DEF T!Start
<1>11. T!Unlinked \notin T!Lists
  BY DEF T!Lists, T!Unlinked
<1>12. p - age \in Int
  BY <1>3
<1>13. CASE l = T!Unlinked
  <2>1. at + p <= n
    BY <1>3, <1>5, <1>9, <1>11, <1>13
  <2>2. p - age = next - (IF next > tick THEN Ticks ELSE 0) - tick - 0
    <3>1. PICK u : u = at + p
      OBVIOUS
    <3>2. u \in Nat /\ u <= n /\ u < Ticks + Ticks /\ next = u % Ticks /\ u - n = p - age /\ n - u < Ticks
      BY <1>3, <1>4, <1>5, <1>6, <2>1, <3>1
    <3>3. CASE u < Ticks
      <4>1. next = u
        BY <1>3, <3>2, <3>3, SmallRemainder
      <4>2. CASE n = tick
        <5>1. ~(next > tick)
          BY <1>3, <3>2, <4>1, <4>2
        <5>. QED BY <1>3, <3>2, <4>1, <4>2, <5>1
      <4>3. CASE n = tick + Ticks
        <5>1. next > tick
          BY <1>3, <3>2, <4>1, <4>3
        <5>. QED BY <1>3, <3>2, <4>1, <4>3, <5>1
      <4>. QED BY <1>5, <4>2, <4>3 DEF Abs
    <3>4. CASE u >= Ticks
      <4>1. next = u - Ticks
        BY <1>3, <3>2, <3>4, NextRemainder
      <4>. QED BY <1>3, <1>5, <3>2, <3>4, <4>1 DEF Abs
    <3>. QED BY <1>3, <3>2, <3>3, <3>4
  <2>3. PICK due : due = p - age
    OBVIOUS
  <2>4. due \in Int /\ due = next - (IF next > tick THEN Ticks ELSE 0) - tick - Turn
    BY <1>2, <1>12, <2>2, <2>3
  <2>5. T!Settled(t, old, next, tick, due)
    BY <1>10, <1>13, <2>3
  <2>6. tick \in T!Tick0
    BY <1>2 DEF ClockSound
  <2>7. \E r \in TimerRecords, d \in Int :
           /\ timer' = [timer EXCEPT ![t] = r] /\ left' = [left EXCEPT ![t] = d]
           /\ r.list # T!Unlinked => r.active /\ OnTime(r, d)
           /\ r.list = T!Unlinked => ~r.active
    BY <1>2, <1>9, <2>4, <2>5, <2>6, SettledSound
  <2>. QED BY <1>1, <2>7
<1>14. CASE l # T!Unlinked
  <2>1. at + p > n
    BY <1>3, <1>5, <1>9, <1>14
  <2>2. PICK r : r = [old EXCEPT !.active = TRUE, !.list = l, !.expiry = next]
    OBVIOUS
  <2>3. r \in TimerRecords /\ r.list = l /\ r.expiry = next /\ r.active = TRUE
    BY <1>2, <1>9, <2>1, <2>2 DEF TimerRecords
  <2>4. PICK w, d : w = (IF l = T!Other(current) THEN Ticks ELSE 0) /\ d = p - age
    OBVIOUS
  <2>5. next + w = at + p - (n - tick)
    BY <1>9, <2>1, <2>4
  <2>6. d = next + w - tick - 0
    <3>1. next \in Int /\ w \in Int
      BY <1>3, <1>9, <2>4 DEF T!Tick0
    <3>. QED BY <1>3, <1>4, <1>5, <2>4, <2>5, <3>1
  <2>7. OnTime(r, d)
    BY <1>2, <2>3, <2>4, <2>6 DEF OnTime
  <2>8. timer' = [timer EXCEPT ![t] = r] /\ left' = [left EXCEPT ![t] = d] /\ d \in Int
    BY <1>10, <1>12, <1>14, <2>2, <2>4
  <2>. QED BY <1>1, <1>14, <2>3, <2>7, <2>8
<1>. QED BY <1>13, <1>14

\* xTimerChangePeriod counts from the tick at which it is carried out.
LEMMA ChangeIsOnTime ==
  ASSUME T!TimerAssumption, TimersSound, ~T!Wrapped, NEW c \in CommandRecords, T!ChangePeriod(c)
  PROVE  \E r \in TimerRecords, d \in Int :
           /\ timer' = [timer EXCEPT ![c.timer] = r] /\ left' = [left EXCEPT ![c.timer] = d]
           /\ r.list # T!Unlinked => r.active /\ OnTime(r, d)
           /\ r.list = T!Unlinked => ~r.active
<1>1. PICK t, p, old : t = c.timer /\ p = c.period /\ old = timer[c.timer]
  OBVIOUS
<1>2. t \in Timer /\ p \in 1..(Ticks - 1) /\ old \in TimerRecords /\ ClockSound /\ Turn = 0
  BY <1>1 DEF CommandRecords, TimersSound, LinksSound, Turn, T!Wrapped
<1>3. Ticks \in Nat \ {0} /\ tick \in 0..(Ticks - 1) /\ p \in Nat /\ p > 0 /\ p < Ticks
  BY <1>2 DEF T!TimerAssumption, ClockSound, T!Tick0
<1>4. tick % Ticks = tick
  BY <1>3, SmallRemainder
<1>5. PICK next, l : next = (tick + p) % Ticks /\ l = T!Place(p, (tick + p) % Ticks, tick, tick)
  OBVIOUS
<1>6. /\ next \in T!Tick0 /\ l \in T!Lists
      /\ next + (IF l = T!Other(current) THEN Ticks ELSE 0) = tick + p - (tick - tick)
  <2>1. /\ tick \in T!Tick0 /\ tick \in Nat /\ Abs(tick, tick) /\ tick <= tick /\ tick - tick < Ticks
        /\ current \in T!Lists
    BY <1>2, <1>3 DEF T!Tick0, ClockSound, Abs
  <2>2. l = T!Place(p, (tick + p) % Ticks, tick, tick % Ticks)
    BY <1>4, <1>5
  <2>3. tick + p > tick
    BY <1>3
  <2>. QED BY <1>2, <1>5, <2>1, <2>2, <2>3, PlaceIs
<1>7. PICK r : r = [old EXCEPT !.active = TRUE, !.period = p, !.expiry = next, !.list = l]
  OBVIOUS
<1>8. /\ r \in TimerRecords /\ r.list = l /\ r.expiry = next /\ r.active = TRUE
      /\ timer' = [timer EXCEPT ![t] = r] /\ left' = [left EXCEPT ![t] = p]
  <2>1. r \in TimerRecords /\ r.list = l /\ r.expiry = next /\ r.active = TRUE
    BY <1>2, <1>6, <1>7 DEF TimerRecords
  <2>2. timer \in [Timer -> TimerRecords]
    BY DEF TimersSound, LinksSound
  <2>3. timer' = [timer EXCEPT ![t] = r] /\ left' = [left EXCEPT ![t] = p]
    BY <1>1, <1>2, <1>5, <1>7, <2>2 DEF T!ChangePeriod
  <2>. QED BY <2>1, <2>3
<1>9. PICK w : w = (IF l = T!Other(current) THEN Ticks ELSE 0)
  OBVIOUS
<1>10. p = next + w - tick - 0
  <2>1. next \in Int /\ w \in Int /\ next + w = tick + p - (tick - tick)
    BY <1>3, <1>6, <1>9 DEF T!Tick0
  <2>. QED BY <1>3, <2>1
<1>11. OnTime(r, p)
  BY <1>2, <1>8, <1>9, <1>10 DEF OnTime
<1>12. T!Unlinked \notin T!Lists /\ p \in Int
  BY <1>3 DEF T!Lists, T!Unlinked
<1>. QED BY <1>1, <1>6, <1>8, <1>11, <1>12

\* The daemon carries a command out.
LEMMA ObeyStep ==
  ASSUME T!TimerAssumption, TimersSound, T!Obey PROVE TimersSound'
<1>1. PICK c \in CommandRecords : hand = <<c>> /\ Sent(c)
  BY DEF T!Obey, TimersSound, CallsSound
<1>2. /\ T!Free /\ hand' = << >> /\ ~T!Wrapped /\ lastTime' = tick /\ lag' = 0
      /\ UNCHANGED <<tick, current, commands, expiring>>
      /\ \/ T!Start(c) \/ T!ChangePeriod(c)
         \/ timer' = [timer EXCEPT ![c.timer].active = FALSE] /\ UNCHANGED left
  BY <1>1 DEF T!Obey
<1>3. PICK t : t = c.timer
  OBVIOUS
<1>4. /\ t \in Timer /\ ClockSound /\ CallsSound /\ LinksSound
      /\ timer \in [Timer -> TimerRecords] /\ left \in [Timer -> Int]
  BY <1>3 DEF CommandRecords, TimersSound, LinksSound
<1>5. \E r \in TimerRecords, d \in Int :
        /\ timer' = [timer EXCEPT ![t] = r] /\ left' = [left EXCEPT ![t] = d]
        /\ r.list # T!Unlinked => r.active /\ OnTime(r, d)
        /\ r.list = T!Unlinked => ~r.active
  <2>1. CASE T!Start(c)
    BY <1>1, <1>2, <1>3, <2>1, StartIsOnTime
  <2>2. CASE T!ChangePeriod(c)
    BY <1>2, <1>3, <2>2, ChangeIsOnTime
  <2>3. CASE timer' = [timer EXCEPT ![c.timer].active = FALSE] /\ UNCHANGED left
    <3>1. PICK r : r = [timer[t] EXCEPT !.active = FALSE]
      OBVIOUS
    <3>2. timer[t].list = T!Unlinked
      BY <1>1, <1>3 DEF TimersSound, HandSound
    <3>3. r \in TimerRecords /\ r.list = T!Unlinked /\ r.active = FALSE
      BY <1>4, <3>1, <3>2 DEF TimerRecords
    <3>4. /\ timer' = [timer EXCEPT ![t] = r] /\ left' = [left EXCEPT ![t] = left[t]]
          /\ left[t] \in Int
      BY <1>3, <1>4, <2>3, <3>1
    <3>. QED BY <3>3, <3>4
  <2>. QED BY <1>2, <2>1, <2>2, <2>3
<1>6. ClockSound' /\ Turn' = 0 /\ Turn = 0
  BY <1>2, <1>4, Sampled DEF ClockSound, Turn, T!Wrapped
<1>7. \A u \in Timer : u # t => ~InHand(u)
  BY <1>1, <1>2, <1>3 DEF InHand, T!Free
<1>8. LinksSound'
  BY <1>2, <1>4, <1>5, <1>6, <1>7, OneSettled
<1>9. CallsSound' /\ ExpiringSound' /\ HandSound'
  BY <1>2, <1>4, CallsStay DEF ExpiringSound, HandSound, T!Free
<1>. QED BY <1>6, <1>8, <1>9 DEF TimersSound

\* The daemon blocks.
LEMMA SampleStep ==
  ASSUME T!TimerAssumption, TimersSound, T!Sample PROVE TimersSound'
<1>1. /\ UNCHANGED <<tick, timer, current, commands, hand, expiring, left>>
      /\ lastTime' = tick /\ lag' = 0 /\ ~T!Wrapped
  BY DEF T!Sample
<1>2. ClockSound' /\ Turn' = 0 /\ Turn = 0
  BY <1>1, Sampled DEF TimersSound, ClockSound, Turn, T!Wrapped
<1>3. CallsSound'
  BY <1>1, CallsStay DEF TimersSound
<1>4. ExpiringSound' /\ HandSound' /\ LinksSound'
  BY <1>1, <1>2 DEF TimersSound, ExpiringSound, HandSound, LinksSound, OnTime, InHand
<1>. QED BY <1>2, <1>3, <1>4 DEF TimersSound

\* The timers stay sound whatever the tick, the tasks and the daemon do.
LEMMA TimersStep ==
  ASSUME T!TimerAssumption, TimersSound, T!Next PROVE TimersSound'
<1>1. ASSUME NEW t \in Timer, T!Call(t, "start", timer[t].period) \/ T!Call(t, "stop", timer[t].period)
      PROVE  TimersSound'
  <2>1. timer[t].period \in 1..(Ticks - 1)
    BY DEF TimersSound, LinksSound, TimerRecords
  <2>2. PICK p \in 1..(Ticks - 1) : p = timer[t].period
    BY <2>1
  <2>. QED BY <1>1, <2>2, CallStep
<1>2. ASSUME NEW t \in Timer, NEW p \in Periods, T!Call(t, "change-period", p) PROVE TimersSound'
  <2>1. p \in 1..(Ticks - 1)
    BY DEF T!TimerAssumption
  <2>. QED BY <1>2, <2>1, CallStep
<1>3. ASSUME T!Tick PROVE TimersSound'
  BY <1>3, TickStep
<1>4. ASSUME T!FlushUnlinks PROVE TimersSound'
  BY <1>4, FlushUnlinksStep
<1>5. ASSUME T!Switch PROVE TimersSound'
  BY <1>5, SwitchStep
<1>6. ASSUME T!ExpireUnlinks PROVE TimersSound'
  BY <1>6, ExpireUnlinksStep
<1>7. ASSUME T!Settle PROVE TimersSound'
  BY <1>7, SettleStep
<1>8. ASSUME T!Receive PROVE TimersSound'
  BY <1>8, ReceiveStep
<1>9. ASSUME T!Obey PROVE TimersSound'
  BY <1>9, ObeyStep
<1>10. ASSUME T!Sample PROVE TimersSound'
  BY <1>10, SampleStep
<1>. QED BY <1>1, <1>2, <1>3, <1>4, <1>5, <1>6, <1>7, <1>8, <1>9, <1>10 DEF T!Next

\* The timers start sound.
LEMMA TimersInvInit == ASSUME T!TimerAssumption, Init PROVE TimersInv
<1> SUFFICES ASSUME object = "timers" PROVE TimersSound
  BY DEF TimersInv
<1>1. T!Init
  BY DEF Init
<1>2. Ticks \in Nat \ {0} /\ MaxLag \in Nat /\ Periods \subseteq 1..(Ticks - 1)
  BY DEF T!TimerAssumption
<1>3. ClockSound
  <2>1. tick = 0 /\ lastTime = 0 /\ lag = 0 /\ current \in T!Lists
    BY <1>1 DEF T!Init, T!Lists
  <2>2. 0 % Ticks = 0 /\ 0 + 0 = 0
    BY <1>2, SmallRemainder
  <2>. QED BY <1>2, <2>1, <2>2 DEF ClockSound, T!Tick0
<1>4. CallsSound /\ ExpiringSound /\ HandSound
  BY <1>1 DEF T!Init, CallsSound, ExpiringSound, HandSound
<1>5. LinksSound
  <2>1. /\ timer \in [Timer -> [period : Periods, auto : BOOLEAN, active : {FALSE}, list : {T!Unlinked}, expiry : {0}]]
        /\ left = [t \in Timer |-> 0]
    BY <1>1 DEF T!Init
  <2>2. ASSUME NEW t \in Timer
        PROVE  timer[t] \in TimerRecords /\ timer[t].list = T!Unlinked /\ timer[t].active = FALSE
    <3>1. timer[t] \in [period : Periods, auto : BOOLEAN, active : {FALSE}, list : {T!Unlinked}, expiry : {0}]
      BY <2>1
    <3>2. PICK r : r = timer[t]
      OBVIOUS
    <3>3. 0 \in T!Tick0
      BY <1>2 DEF T!Tick0
    <3>4. r \in TimerRecords /\ r.list = T!Unlinked /\ r.active = FALSE
      BY <1>2, <3>1, <3>2, <3>3 DEF TimerRecords
    <3>. QED BY <3>2, <3>4
  <2>3. timer \in [Timer -> TimerRecords]
    BY <2>1, <2>2
  <2>4. left \in [Timer -> Int]
    BY <2>1
  <2>. QED BY <2>2, <2>3, <2>4 DEF LinksSound
<1>. QED BY <1>3, <1>4, <1>5 DEF TimersSound

\* Only the tick, the tasks and the daemon change them.
LEMMA TimersInvKept == ASSUME T!TimerAssumption, TimersInv, [Next]_vars PROVE TimersInv'
<1> SUFFICES ASSUME object' = "timers" PROVE TimersSound'
  BY DEF TimersInv
<1>1. object = "timers" /\ (T!Next \/ UNCHANGED timerVars)
  BY DEF Next, vars
<1>2. TimersSound
  BY <1>1 DEF TimersInv
<1>3. CASE T!Next
  BY <1>2, <1>3, TimersStep
<1>4. CASE UNCHANGED timerVars
  <2>1. UNCHANGED <<tick, timer, current, lastTime, lag, commands, hand, expiring, left>>
    BY <1>4 DEF timerVars
  <2>2. \A i \in 1..Len(commands) : Sent(commands[i])'
    BY <1>2, <2>1 DEF TimersSound, CallsSound, Sent
  <2>. QED BY <1>2, <2>1, <2>2 DEF TimersSound, ClockSound, CallsSound, Sent, ExpiringSound, HandSound,
                              LinksSound, OnTime, Turn, InHand
<1>. QED BY <1>1, <1>3, <1>4

\* timer_expires_in and timer_list_label: what the row of a linked timer shows.
LEMMA LinkedRowIsTrue ==
  ASSUME T!TimerAssumption, TimersSound, ~T!Wrapped, NEW t \in Timer, timer[t].list # T!Unlinked
  PROVE  /\ T!Row(t).expires = {IF left[t] < 0 THEN T!Overdue ELSE left[t]}
         /\ T!Row(t).list[2] = timer[t].list
<1>1. PICK l, e, d, now : l = timer[t].list /\ e = timer[t].expiry /\ d = left[t] /\ now = tick
  OBVIOUS
<1>2. /\ Ticks \in Nat \ {0} /\ e \in 0..(Ticks - 1) /\ now \in 0..(Ticks - 1) /\ d \in Int
      /\ l \in T!Lists /\ current \in T!Lists /\ OnTime(timer[t], left[t])
  BY <1>1 DEF T!TimerAssumption, TimersSound, ClockSound, LinksSound, TimerRecords, T!Tick0
<1>3. PICK o : o = T!Other(current)
  OBVIOUS
<1>4. o # current /\ (l = current \/ l = o) /\ T!Unlinked # l
  BY <1>1, <1>2, <1>3, OtherList
<1>5. d = e + (IF l = o THEN Ticks ELSE 0) - now - 0
  BY <1>1, <1>2, <1>3 DEF OnTime, Turn, T!Wrapped
<1>6. PICK x : x = T!ExpiresIn(e, T!TimerEpoch(l) = "overflow")
  OBVIOUS
<1>7. T!Row(t).expires = {x} /\ T!Row(t).list = T!TimerListLabel(l)
  BY <1>1, <1>4, <1>6 DEF T!Row
<1>8. CASE l = current
  <2>1. T!TimerEpoch(l) = "current"
    BY <1>4, <1>8 DEF T!TimerEpoch
  <2>2. T!TimerListLabel(l) = <<"current", l>>
    BY <1>8, <2>1 DEF T!TimerListLabel, T!Unlinked
  <2>3. x = IF e < now THEN T!Overdue ELSE (e - now) % Ticks
    BY <1>1, <1>6, <2>1 DEF T!ExpiresIn
  <2>4. d = e - now
    BY <1>2, <1>4, <1>5, <1>8
  <2>5. ASSUME d >= 0 PROVE (e - now) % Ticks = d
    <3>1. d \in Nat /\ d < Ticks
      BY <1>2, <2>4, <2>5
    <3>2. d % Ticks = d
      BY <1>2, <3>1, SmallRemainder
    <3>. QED BY <2>4, <3>2
  <2>6. x = IF d < 0 THEN T!Overdue ELSE d
    BY <1>2, <2>3, <2>4, <2>5
  <2>. QED BY <1>1, <1>7, <2>2, <2>6
<1>9. CASE l = o
  <2>1. T!TimerEpoch(l) = "overflow"
    BY <1>4, <1>9 DEF T!TimerEpoch
  <2>2. T!TimerListLabel(l) = <<"overflow", l>>
    BY <1>3, <1>9, <2>1 DEF T!TimerListLabel, T!Unlinked
  <2>3. x = (Ticks - now) + e
    BY <1>1, <1>6, <2>1 DEF T!ExpiresIn
  <2>4. d = e + Ticks - now /\ ~(d < 0)
    BY <1>2, <1>5, <1>9
  <2>5. x = d
    BY <1>2, <2>3, <2>4
  <2>. QED BY <1>1, <1>7, <2>2, <2>4, <2>5
<1>. QED BY <1>4, <1>8, <1>9

\* In the invariant the rows are true.
LEMMA SoundTimers ==
  ASSUME T!TimerAssumption, TimersSound PROVE T!ExpiryIsTrue /\ T!InStepUnlessInHand
<1>1. T!ExpiryIsTrue
  BY LinkedRowIsTrue DEF T!ExpiryIsTrue
<1>2. ASSUME NEW t \in Timer
      PROVE  /\ T!TimerChecks(t).StatusListSync = "fail" <=> timer[t].list = T!Unlinked /\ timer[t].active
             /\ T!Row(t).state = IF timer[t].list # T!Unlinked THEN "active"
                                 ELSE IF timer[t].active THEN "dormant?" ELSE "dormant"
             /\ timer[t].list = T!Unlinked => T!Row(t).expires = {}
             /\ timer[t].list = T!Unlinked /\ timer[t].active => InHand(t)
  <2>1. /\ timer[t].active \in BOOLEAN
        /\ timer[t].list # T!Unlinked => timer[t].active
        /\ timer[t].list = T!Unlinked /\ timer[t].active => InHand(t)
    BY DEF TimersSound, LinksSound, TimerRecords
  <2>2. T!TimerChecks(t).StatusListSync = (IF (timer[t].list # T!Unlinked) = timer[t].active THEN "ok" ELSE "fail")
    BY DEF T!TimerChecks
  <2>3. T!Row(t).state = T!StateCell(t)
    BY DEF T!Row
  <2>4. timer[t].list = T!Unlinked => T!Row(t).expires = {}
    BY DEF T!Row
  <2>5. T!StateCell(t) = IF timer[t].list # T!Unlinked THEN "active"
                         ELSE IF timer[t].active THEN "dormant?" ELSE "dormant"
    BY <2>1 DEF T!StateCell
  <2>. QED BY <2>1, <2>2, <2>3, <2>4, <2>5
<1>3. PICK hands : hands = {t \in Timer : \/ hand # << >> /\ hand[1].timer = t
                                          \/ expiring # << >> /\ expiring[1].timer = t}
  OBVIOUS
<1>4. \A t \in Timer : InHand(t) => t \in hands
  BY <1>3 DEF InHand
<1>5. \A t \in Timer : T!TimerChecks(t).StatusListSync = "fail" => t \in hands
  BY <1>2, <1>4
<1>6. T!TimerTable.transition <=> \E t \in Timer : T!TimerChecks(t).StatusListSync = "fail"
  <2>1. T!TimerTable.transition <=> \E t \in Timer : T!Row(t).state \in {"active?", "dormant?"}
    BY DEF T!TimerTable
  <2>. QED BY <1>2, <2>1
<1>7. \A r \in T!TimerTable.then : r.row.expires = {} /\ (r.row.state = "dormant?" => r.addr \in hands)
  <2>1. ASSUME NEW r \in T!TimerTable.then
        PROVE  r.row.expires = {} /\ (r.row.state = "dormant?" => r.addr \in hands)
    <3>1. PICK t \in Timer : timer[t].list = T!Unlinked /\ r = [addr |-> t, row |-> T!Row(t)]
      BY DEF T!TimerTable
    <3>2. r.addr = t /\ r.row = T!Row(t)
      BY <3>1
    <3>3. T!Row(t).expires = {}
      BY <1>2, <3>1
    <3>4. T!Row(t).state = "dormant?" => t \in hands
      BY <1>2, <1>4, <3>1
    <3>. QED BY <3>2, <3>3, <3>4
  <2>. QED BY <2>1
<1>8. \A r \in T!TimerTable.first : r.row.state = "active"
  <2>1. ASSUME NEW r \in T!TimerTable.first PROVE r.row.state = "active"
    <3>1. PICK t \in Timer : timer[t].list # T!Unlinked /\ r = [addr |-> t, row |-> T!Row(t)]
      BY DEF T!TimerTable
    <3>2. r.row = T!Row(t)
      BY <3>1
    <3>. QED BY <1>2, <3>1, <3>2
  <2>. QED BY <2>1
<1>9. T!InStepUnlessInHand
  BY <1>3, <1>5, <1>6, <1>7, <1>8 DEF T!InStepUnlessInHand
<1>. QED BY <1>1, <1>9

\* The invariant of the timers: the daemon's sample is as old as it is, a timer is
\* linked where the daemon will come to it in time, whatever the counter did
\* since, and one that is active and on no list is in the daemon's hands.
THEOREM TimersAreSound == Spec => []TimersInv
<1>1. Init => TimersInv
  BY TimersInvInit, ObjectsAssumption
<1>2. TimersInv /\ [Next]_vars => TimersInv'
  BY TimersInvKept, ObjectsAssumption
<1>. QED BY <1>1, <1>2, PTL DEF Spec

\* For any width of the counter, any timers and periods, and any delay of the
\* daemon short of a turn: the ticks shown until a timer expires are the true
\* ones on either list, and a doubtful state means the daemon is at that timer.
THEOREM TimersAreTrue == Spec => []ExpiryIsTrue
<1>1. TimersInv => ExpiryIsTrue
  BY SoundTimers, ObjectsAssumption DEF TimersInv, ExpiryIsTrue
<1>. QED BY <1>1, TimersAreSound, PTL

-----------------------------------------------------------------------------
\* What is found from handles (Discovery).

\* What holds of 0, and of n + 1 where it holds of n, holds of all up to the last.
LEMMA UpTo ==
  ASSUME NEW n \in Nat, NEW U, 0 \in U, \A i \in 0..(n - 1) : i \in U => i + 1 \in U
  PROVE  \A i \in 0..n : i \in U
<1> DEFINE X == {m \in 0..n : \A i \in 0..m : i \in U}
<1>1. X \in SUBSET (0..n) /\ 0 \in X
  OBVIOUS
<1>2. PICK g \in X : \A x \in X : x <= g
  <2>. HIDE DEF X
  <2>. QED BY <1>1, GreatestIsThere
<1>3. g = n
  <2>1. g \in 0..n /\ \A i \in 0..g : i \in U
    OBVIOUS
  <2>2. ASSUME g # n PROVE FALSE
    <3>1. g + 1 \in 0..n /\ g + 1 \in U
      BY <2>1, <2>2
    <3>2. \A i \in 0..(g + 1) : i \in U
      BY <2>1, <3>1
    <3>3. g + 1 \in X
      BY <3>1, <3>2
    <3>. QED BY <1>2, <2>1, <3>3
  <2>. QED BY <2>2
<1>. QED BY <1>3

\* What next makes of a value of V at each turn is one.
IsTurn(next, V, n) == next \in [V \X (1..n) -> V]

\* f holds the values from turn to turn, as the LETs of the model write it.
FirstTurn(f, V, n, first, next) ==
  f \in [0..n -> V] /\ f[0] = first /\ \A i \in 1..n : f[i] = next[<<f[i - 1], i>>]

\* A function defined turn by turn is one: each turn has its value.
LEMMA TurnsExist ==
  ASSUME NEW V, NEW n \in Nat, NEW first \in V, NEW next, IsTurn(next, V, n)
  PROVE  \E f : FirstTurn(f, V, n, first, next)
<1>0. next \in [V \X (1..n) -> V]
  BY DEF IsTurn
<1> DEFINE Runs == {m \in 0..n : \E f \in [0..m -> V] : f[0] = first /\ \A i \in 1..m : f[i] = next[<<f[i - 1], i>>]}
<1>1. 0 \in Runs
  <2>1. PICK f : f = [i \in 0..0 |-> first]
    OBVIOUS
  <2>2. f \in [0..0 -> V] /\ f[0] = first
    BY <2>1
  <2>. QED BY <2>2
<1>2. ASSUME NEW m \in 0..(n - 1), m \in Runs PROVE m + 1 \in Runs
  <2>1. PICK f \in [0..m -> V] : f[0] = first /\ \A i \in 1..m : f[i] = next[<<f[i - 1], i>>]
    BY <1>2
  <2>2. PICK k : k = m + 1
    OBVIOUS
  <2>3. k \in 1..n /\ k - 1 = m /\ m \in 0..m /\ k \notin 0..m /\ \A i \in 0..k : i = k \/ i \in 0..m
    BY <2>2
  <2>4. next[<<f[m], k>>] \in V
    BY <1>0, <2>1, <2>3
  <2>5. PICK g : g = [i \in 0..k |-> IF i = k THEN next[<<f[m], k>>] ELSE f[i]]
    OBVIOUS
  <2>6. g \in [0..k -> V] /\ g[k] = next[<<f[m], k>>] /\ \A i \in 0..m : g[i] = f[i]
    BY <2>1, <2>3, <2>4, <2>5
  <2>7. ASSUME NEW i \in 1..k PROVE g[i] = next[<<g[i - 1], i>>]
    <3>1. CASE i = k
      BY <2>3, <2>6, <3>1
    <3>2. CASE i # k
      <4>1. i \in 1..m /\ i - 1 \in 0..m /\ i \in 0..m
        BY <2>3, <3>2
      <4>. QED BY <2>1, <2>6, <4>1
    <3>. QED BY <3>1, <3>2
  <2>8. g[0] = first
    BY <2>1, <2>6
  <2>9. k \in 0..n /\ g[0] = first /\ g \in [0..k -> V]
    BY <2>3, <2>6, <2>8
  <2>10. k \in Runs
    BY <2>7, <2>9
  <2>. QED BY <2>2, <2>10
<1>3. n \in Runs
  <2>. HIDE DEF Runs
  <2>. QED BY <1>1, <1>2, UpTo
<1>. QED BY <1>3 DEF FirstTurn

\* The same, as the LETs of the model write it.
Turned(f, V, n, first, next) ==
  /\ f \in [0..n -> V] /\ f[0] = first
  /\ \A i \in 1..n : f[i - 1] \in V /\ f[i] = next[<<f[i - 1], i>>]
  /\ f = [i \in 0..n |-> IF i = 0 THEN first ELSE next[<<f[i - 1], i>>]]

\* So it is what its turns make of it, from the first to the last.
LEMMA Turns ==
  ASSUME NEW V, NEW n \in Nat, NEW first \in V, NEW next, IsTurn(next, V, n)
  PROVE  \E f : Turned(f, V, n, first, next)
<1>0. PICK f : FirstTurn(f, V, n, first, next)
  BY TurnsExist
<1>1. f \in [0..n -> V] /\ f[0] = first /\ \A i \in 1..n : f[i] = next[<<f[i - 1], i>>]
  BY <1>0 DEF FirstTurn
<1>2. \A i \in 1..n : f[i - 1] \in V
  <2>1. ASSUME NEW i \in 1..n PROVE f[i - 1] \in V
    <3>1. i - 1 \in 0..n
      OBVIOUS
    <3>. QED BY <1>1, <3>1
  <2>. QED BY <2>1
<1>3. PICK g : g = [i \in 0..n |-> IF i = 0 THEN first ELSE next[<<f[i - 1], i>>]]
  OBVIOUS
<1>4. ASSUME NEW i \in 0..n PROVE f[i] = g[i]
  <2>1. CASE i = 0
    BY <1>1, <1>3, <2>1
  <2>2. CASE i # 0
    <3>1. i \in 1..n
      BY <2>2
    <3>. QED BY <1>1, <1>3, <2>2, <3>1
  <2>. QED BY <2>1, <2>2
<1>5. f = g
  BY <1>1, <1>3, <1>4
<1>. QED BY <1>1, <1>2, <1>3, <1>5 DEF Turned

\* Without, turn by turn.
WithoutRun(s, U, f, n) ==
  f = [i \in 0..n |-> IF i = 0 THEN << >> ELSE IF s[i] \in U THEN f[i - 1] ELSE Append(f[i - 1], s[i])]

\* What is left of a sequence is made turn by turn.
LEMMA WithoutIsRun ==
  ASSUME NEW V, NEW s \in Seq(V), NEW U, NEW n \in Nat, n = Len(s)
  PROVE  \E f : /\ D!Without(s, U) = f[n] /\ f[0] = << >>
                /\ \A i \in 1..n : f[i] = IF s[i] \in U THEN f[i - 1] ELSE Append(f[i - 1], s[i])
<1>1. PICK next : next = [p \in Seq(V) \X (1..n) |-> IF s[p[2]] \in U THEN p[1] ELSE Append(p[1], s[p[2]])]
  OBVIOUS
<1>2. IsTurn(next, Seq(V), n)
  <2>1. \A i \in 1..n : s[i] \in V
    OBVIOUS
  <2>2. \A p \in Seq(V) \X (1..n) : (IF s[p[2]] \in U THEN p[1] ELSE Append(p[1], s[p[2]])) \in Seq(V)
    <3>1. ASSUME NEW x \in Seq(V), NEW i \in 1..n PROVE (IF s[i] \in U THEN x ELSE Append(x, s[i])) \in Seq(V)
      BY <2>1
    <3>. QED BY <3>1
  <2>. QED BY <1>1, <2>2 DEF IsTurn
<1>3. << >> \in Seq(V)
  OBVIOUS
<1>4. PICK f : Turned(f, Seq(V), n, << >>, next)
  BY <1>2, <1>3, Turns
<1>5. \A i \in 1..n : next[<<f[i - 1], i>>] = IF s[i] \in U THEN f[i - 1] ELSE Append(f[i - 1], s[i])
  BY <1>1, <1>4 DEF Turned
<1>6. WithoutRun(s, U, f, n)
  <2>1. \A i \in 0..n : i = 0 \/ i \in 1..n
    OBVIOUS
  <2>2. f = [i \in 0..n |-> IF i = 0 THEN << >> ELSE IF s[i] \in U THEN f[i - 1] ELSE Append(f[i - 1], s[i])]
    BY <1>4, <1>5, <2>1 DEF Turned
  <2>. QED BY <2>2 DEF WithoutRun
<1>7. PICK h : h = CHOOSE x : WithoutRun(s, U, x, n)
  OBVIOUS
<1>8. WithoutRun(s, U, h, n)
  BY <1>6, <1>7, Zenon
<1>9. D!Without(s, U) = h[n]
  BY <1>7, Zenon DEF D!Without, WithoutRun
<1>10. h[0] = << >> /\ \A i \in 1..n : h[i] = IF s[i] \in U THEN h[i - 1] ELSE Append(h[i - 1], s[i])
  <2>1. 0 \in 0..n /\ \A i \in 1..n : i \in 0..n /\ i # 0
    OBVIOUS
  <2>. QED BY <1>8, <2>1 DEF WithoutRun
<1>. QED BY <1>9, <1>10

\* What is not left out is kept, and nothing else is.
LEMMA WithoutIs ==
  ASSUME NEW V, NEW s \in Seq(V), NEW U
  PROVE  /\ D!Without(s, U) \in Seq(V \ U)
         /\ \A m \in DOMAIN s : s[m] \notin U =>
              \E j \in DOMAIN D!Without(s, U) : D!Without(s, U)[j] = s[m]
<1>1. PICK n \in Nat : n = Len(s) /\ DOMAIN s = 1..n
  OBVIOUS
<1>2. PICK f : /\ D!Without(s, U) = f[n] /\ f[0] = << >>
               /\ \A i \in 1..n : f[i] = IF s[i] \in U THEN f[i - 1] ELSE Append(f[i - 1], s[i])
  BY <1>1, WithoutIsRun
<1>3. \A i \in 1..n : f[i] = IF s[i] \in U THEN f[i - 1] ELSE Append(f[i - 1], s[i])
  BY <1>2
<1> DEFINE Good == {i \in 0..n : /\ f[i] \in Seq(V \ U)
                                /\ \A m \in 1..i : s[m] \notin U => \E j \in DOMAIN f[i] : f[i][j] = s[m]}
<1>4. 0 \in Good
  <2>1. f[0] \in Seq(V \ U) /\ 0 \in 0..n /\ 1..0 = {}
    BY <1>1, <1>2
  <2>. QED BY <2>1
<1>5. ASSUME NEW i \in 0..(n - 1), i \in Good PROVE i + 1 \in Good
  <2>1. PICK k : k = i + 1
    OBVIOUS
  <2>2. i \in Nat /\ k \in 1..n /\ k - 1 = i /\ \A m \in 1..k : m = k \/ m \in 1..i
    BY <1>1, <2>1
  <2>3. f[k] = IF s[k] \in U THEN f[i] ELSE Append(f[i], s[k])
    BY <1>3, <2>2
  <2>4. f[i] \in Seq(V \ U) /\ \A m \in 1..i : s[m] \notin U => \E j \in DOMAIN f[i] : f[i][j] = s[m]
    BY <1>5
  <2>5. CASE s[k] \in U
    BY <2>1, <2>2, <2>3, <2>4, <2>5
  <2>6. CASE s[k] \notin U
    <3>1. s[k] \in V \ U
      BY <1>1, <2>2, <2>6
    <3>2. PICK w : w = Append(f[i], s[k])
      OBVIOUS
    <3>3. /\ w \in Seq(V \ U) /\ DOMAIN w = 1..(Len(f[i]) + 1) /\ w[Len(f[i]) + 1] = s[k]
          /\ \A j \in DOMAIN f[i] : j \in DOMAIN w /\ w[j] = f[i][j]
      BY <2>4, <3>1, <3>2
    <3>4. Len(f[i]) + 1 \in DOMAIN w
      BY <2>4, <3>3
    <3>5. ASSUME NEW m \in 1..k, s[m] \notin U PROVE \E j \in DOMAIN w : w[j] = s[m]
      <4>1. CASE m = k
        BY <3>3, <3>4, <4>1
      <4>2. CASE m \in 1..i
        BY <2>4, <3>3, <3>5, <4>2
      <4>. QED BY <2>2, <4>1, <4>2
    <3>6. f[k] = w /\ k \in 0..n
      BY <2>2, <2>3, <2>6, <3>2
    <3>. QED BY <2>1, <3>3, <3>5, <3>6
  <2>. QED BY <2>5, <2>6
<1>6. n \in Good
  <2>. HIDE DEF Good
  <2>1. \A i \in 0..n : i \in Good
    BY <1>4, <1>5, UpTo
  <2>. QED BY <2>1
<1>. QED BY <1>1, <1>2, <1>6

-----------------------------------------------------------------------------
\* What a channel may say of an object.
Sources == {"mpu-pool", "registry", "active", "symbol", "waiter"}
Names == {"registered", "pcTimerName", None} \cup {Declared[i].symbol : i \in DOMAIN Declared}
Findings ==
  [kind : D!AllKinds, address : D!Address, name : Names, source : Sources,
   extra : SUBSET Sources, inferred : BOOLEAN]

\* classify_queue makes nothing but a queue, a semaphore or a mutex of one.
LEMMA RefineIs ==
  ASSUME image.trace \in BOOLEAN, NEW e \in Findings
  PROVE  /\ D!Refine(e) \in Findings /\ D!Refine(e).kind \in D!AllKinds
         /\ D!Refine(e).address = e.address /\ D!Refine(e).name = e.name /\ D!Refine(e).source = e.source
         /\ e.kind \notin D!QueueFamily => D!Refine(e) = e
         /\ e.kind \in D!QueueFamily => /\ D!Refine(e).kind = D!Classify(e.address)
                                        /\ D!Refine(e).kind \in D!QueueFamily
                                        /\ D!Refine(e).inferred = ~image.trace
<1>1. D!Classify(e.address) \in D!QueueFamily
  BY DEF D!Classify, D!Misread, D!QueueFamily
<1>2. CASE e.kind \notin D!QueueFamily
  BY <1>2 DEF D!Refine, Findings
<1>3. CASE e.kind \in D!QueueFamily
  <2>1. PICK k, i : k = D!Classify(e.address) /\ i = ~image.trace
    OBVIOUS
  <2>2. D!Refine(e) = [e EXCEPT !.kind = k, !.inferred = i]
    BY <1>3, <2>1 DEF D!Refine
  <2>3. k \in D!AllKinds /\ i \in BOOLEAN
    BY <1>1, <2>1 DEF D!AllKinds
  <2>. QED BY <1>1, <1>3, <2>1, <2>2, <2>3 DEF Findings
<1>. QED BY <1>2, <1>3

\* _merge_corroboration changes the name of a row that has none, and its channels.
LEMMA MergeIs ==
  ASSUME NEW r \in Findings, NEW e \in Findings
  PROVE  /\ D!Merge(r, e) \in Findings
         /\ D!Merge(r, e).address = r.address /\ D!Merge(r, e).kind = r.kind
         /\ D!Merge(r, e).source = r.source
         /\ D!Merge(r, e).name = IF r.name = None THEN e.name ELSE r.name
<1>1. PICK q : q = D!MergeSource(r, e.source)
  OBVIOUS
<1>2. q \in Findings /\ q.address = r.address /\ q.kind = r.kind /\ q.source = r.source /\ q.name = r.name
  BY <1>1 DEF D!MergeSource, Findings
<1>3. PICK n : n = IF r.name = None THEN e.name ELSE r.name
  OBVIOUS
<1>4. D!Merge(r, e) = [q EXCEPT !.name = n]
  BY <1>1, <1>2, <1>3 DEF D!Merge
<1>5. n \in Names
  BY <1>3 DEF Findings
<1>. QED BY <1>2, <1>3, <1>4, <1>5 DEF Findings

\* The first finding of an address makes the row: its kind, once classified, is
\* that of the row, and its channel the channel of record.
FoundFirst(r, k, ch, n) ==
  \E m \in 1..n : /\ \A j \in 1..(m - 1) : ch[j].address # ch[m].address
                  /\ ch[m].address = r.address /\ ch[m].source = r.source
                  /\ D!Refine(ch[m]).kind = k

\* The first finding of an address that has a name gives the row its name.
NamedFirst(r, ch, n) ==
  \/ r.name = None /\ \A q \in 1..n : ch[q].address = r.address => ch[q].name = None
  \/ r.name # None /\ \E p \in 1..n : /\ ch[p].address = r.address /\ ch[p].name = r.name
                                      /\ \A q \in 1..(p - 1) : ch[q].address = r.address => ch[q].name = None

RowIs(r, k, ch, n) == r.kind = k /\ FoundFirst(r, k, ch, n) /\ NamedFirst(r, ch, n)

\* The groups of discover_all after n findings.
GroupsAre(g, ch, n) ==
  /\ g \in [D!AllKinds -> Seq(Findings)]
  /\ \A k \in D!AllKinds : \A i \in DOMAIN g[k] : RowIs(g[k][i], k, ch, n)
  /\ \A k, l \in D!AllKinds : \A i \in DOMAIN g[k], j \in DOMAIN g[l] :
       g[k][i].address = g[l][j].address => k = l /\ i = j
  /\ \A m \in 1..n : \E k \in D!AllKinds : \E i \in DOMAIN g[k] : g[k][i].address = ch[m].address

\* A finding of another place leaves a row what it is.
LEMMA RowKept ==
  ASSUME NEW n \in Nat, NEW x, x = n + 1, NEW ch, NEW r, NEW k, RowIs(r, k, ch, n), ch[x].address # r.address
  PROVE  RowIs(r, k, ch, x)
<1>1. \A q \in 1..x : q = x \/ q \in 1..n
  OBVIOUS
<1>2. \A q \in 1..n : q \in 1..x
  OBVIOUS
<1>3. FoundFirst(r, k, ch, x)
  BY <1>2 DEF RowIs, FoundFirst
<1>4. NamedFirst(r, ch, x)
  BY <1>1, <1>2 DEF RowIs, NamedFirst
<1>. QED BY <1>3, <1>4 DEF RowIs

\* One of the same place may give it its name.
LEMMA RowMerged ==
  ASSUME NEW n \in Nat, NEW x, x = n + 1, NEW ch, ch[x] \in Findings, NEW r \in Findings,
         NEW k, RowIs(r, k, ch, n), ch[x].address = r.address
  PROVE  RowIs(D!Merge(r, ch[x]), k, ch, x)
<1>1. \A q \in 1..x : q = x \/ q \in 1..n
  OBVIOUS
<1>2. (\A q \in 1..n : q \in 1..x) /\ x \in 1..x /\ \A q \in 1..(x - 1) : q \in 1..n
  OBVIOUS
<1>3. PICK w : w = D!Merge(r, ch[x])
  OBVIOUS
<1>4. /\ w.address = r.address /\ w.kind = r.kind /\ w.source = r.source
      /\ w.name = IF r.name = None THEN ch[x].name ELSE r.name
  BY <1>3, MergeIs
<1>5. FoundFirst(w, k, ch, x)
  BY <1>2, <1>4 DEF RowIs, FoundFirst
<1>6. NamedFirst(w, ch, x)
  <2>1. CASE r.name # None
    BY <1>2, <1>4, <2>1 DEF RowIs, NamedFirst
  <2>2. CASE r.name = None /\ ch[x].name = None
    BY <1>1, <1>4, <2>2 DEF RowIs, NamedFirst
  <2>3. CASE r.name = None /\ ch[x].name # None
    <3>1. \A q \in 1..n : ch[q].address = r.address => ch[q].name = None
      BY <2>3 DEF RowIs, NamedFirst
    <3>2. \A q \in 1..(x - 1) : ch[q].address = w.address => ch[q].name = None
      BY <1>2, <1>4, <3>1
    <3>3. w.name = ch[x].name /\ w.name # None /\ ch[x].address = w.address
      BY <1>4, <2>3
    <3>. QED BY <1>2, <3>2, <3>3 DEF NamedFirst
  <2>. QED BY <2>1, <2>2, <2>3
<1>. QED BY <1>3, <1>4, <1>5, <1>6 DEF RowIs

\* The first of a place makes a row.
LEMMA RowMade ==
  ASSUME image.trace \in BOOLEAN, NEW n \in Nat, NEW x, x = n + 1, NEW ch, ch[x] \in Findings,
         \A j \in 1..n : ch[j].address # ch[x].address
  PROVE  RowIs(D!Refine(ch[x]), D!Refine(ch[x]).kind, ch, x)
<1>1. \A q \in 1..x : q = x \/ q \in 1..n
  OBVIOUS
<1>2. x \in 1..x /\ \A q \in 1..(x - 1) : q \in 1..n
  OBVIOUS
<1>3. PICK w : w = D!Refine(ch[x])
  OBVIOUS
<1>4. w.address = ch[x].address /\ w.source = ch[x].source /\ w.name = ch[x].name
  BY <1>3, RefineIs
<1>5. FoundFirst(w, w.kind, ch, x)
  BY <1>2, <1>3, <1>4 DEF FoundFirst
<1>6. NamedFirst(w, ch, x)
  <2>1. CASE w.name = None
    BY <1>1, <1>4, <2>1 DEF NamedFirst
  <2>2. CASE w.name # None
    BY <1>2, <1>4, <2>2 DEF NamedFirst
  <2>. QED BY <2>1, <2>2
<1>. QED BY <1>3, <1>5, <1>6 DEF RowIs

\* The group and the row of a place, where there is one.
GroupOf(g, a) == CHOOSE x \in {k \in D!AllKinds : D!At(g[k], a) # {}} : TRUE
RowOf(s, a) == CHOOSE j \in D!At(s, a) : TRUE

\* What a merge and a new row make of the groups.
Merged(g, k, i, e) == [g EXCEPT ![k] = [g[k] EXCEPT ![i] = D!Merge(g[k][i], e)]]
Grown(g, r) == [g EXCEPT ![r.kind] = Append(g[r.kind], r)]

\* No row is of the place a.
Free(g, a) == \A k \in D!AllKinds : D!At(g[k], a) = {}

\* A row of a place is where it was found.
LEMMA RowOfIs ==
  ASSUME NEW s, NEW a, D!At(s, a) # {} PROVE RowOf(s, a) \in DOMAIN s /\ s[RowOf(s, a)].address = a
<1>1. RowOf(s, a) \in D!At(s, a)
  BY DEF RowOf
<1>. QED BY <1>1 DEF D!At

\* One turn of discover_all: a row of the place is merged, or there is none and
\* one is made.
LEMMA RowPlaced ==
  ASSUME NEW g \in [D!AllKinds -> Seq(Findings)], NEW e
  PROVE  \/ \E k \in D!AllKinds : \E i \in DOMAIN g[k] :
              /\ g[k][i].address = e.address /\ i = RowOf(g[k], e.address) /\ D!At(g[k], e.address) # {}
              /\ D!Place(g, e) = Merged(g, k, i, e)
         \/ Free(g, e.address) /\ D!Place(g, e) = Grown(g, D!Refine(e))
<1>1. CASE {k \in D!AllKinds : D!At(g[k], e.address) # {}} # {}
  <2>1. PICK k : k = GroupOf(g, e.address)
    OBVIOUS
  <2>2. k \in D!AllKinds /\ D!At(g[k], e.address) # {}
    BY <1>1, <2>1 DEF GroupOf
  <2>3. PICK i : i = RowOf(g[k], e.address)
    OBVIOUS
  <2>4. i \in DOMAIN g[k] /\ g[k][i].address = e.address
    BY <2>2, <2>3, RowOfIs
  <2>5. D!Place(g, e) = [g EXCEPT ![GroupOf(g, e.address)][RowOf(g[GroupOf(g, e.address)], e.address)] =
                           D!Merge(g[GroupOf(g, e.address)][RowOf(g[GroupOf(g, e.address)], e.address)], e)]
    BY <1>1, Zenon DEF D!Place, GroupOf, RowOf
  <2>6. D!Place(g, e) = [g EXCEPT ![k] = [g[k] EXCEPT ![i] = D!Merge(g[k][i], e)]]
    BY <2>1, <2>3, <2>5
  <2>. QED BY <2>2, <2>3, <2>4, <2>6 DEF Merged
<1>2. CASE {k \in D!AllKinds : D!At(g[k], e.address) # {}} = {}
  <2>1. \A k \in D!AllKinds : D!At(g[k], e.address) = {}
    BY <1>2
  <2>2. D!Place(g, e) = [g EXCEPT ![D!Refine(e).kind] = Append(g[D!Refine(e).kind], D!Refine(e))]
    BY <1>2, Zenon DEF D!Place
  <2>. QED BY <2>1, <2>2 DEF Grown, Free
<1>. QED BY <1>1, <1>2

\* Before the first finding there is no row.
LEMMA NoGroups ==
  ASSUME NEW ch PROVE GroupsAre([k \in D!AllKinds |-> << >>], ch, 0)
<1>1. PICK g : g = [k \in D!AllKinds |-> << >>]
  OBVIOUS
<1>2. << >> \in Seq(Findings) /\ DOMAIN << >> = {} /\ 1..0 = {}
  OBVIOUS
<1>3. g \in [D!AllKinds -> Seq(Findings)] /\ \A k \in D!AllKinds : DOMAIN g[k] = {}
  BY <1>1, <1>2
<1>. QED BY <1>1, <1>2, <1>3 DEF GroupsAre

SamePlacesFound(h, g) == \A l \in D!AllKinds : \A a \in D!Address : D!At(h[l], a) = D!At(g[l], a)

\* A merge changes one row, and no address.
LEMMA GroupsMerged ==
  ASSUME NEW n \in Nat, NEW x, x = n + 1, NEW ch, ch[x] \in Findings,
         NEW g, GroupsAre(g, ch, n), NEW k \in D!AllKinds, NEW i \in DOMAIN g[k],
         g[k][i].address = ch[x].address,
         NEW h, h = Merged(g, k, i, ch[x])
  PROVE  /\ GroupsAre(h, ch, x)
         /\ SamePlacesFound(h, g)
         /\ \A l \in D!AllKinds \ {k} : h[l] = g[l]
<1>1. /\ g \in [D!AllKinds -> Seq(Findings)]
      /\ \A l \in D!AllKinds : \A j \in DOMAIN g[l] : g[l][j] \in Findings /\ RowIs(g[l][j], l, ch, n)
  BY DEF GroupsAre
<1>2. PICK w : w = D!Merge(g[k][i], ch[x])
  OBVIOUS
<1>3. w \in Findings /\ w.address = g[k][i].address
  BY <1>1, <1>2, MergeIs
<1>4. RowIs(w, k, ch, x)
  BY <1>1, <1>2, RowMerged
<1>5. PICK s : s = [g[k] EXCEPT ![i] = w]
  OBVIOUS
<1>6. s \in Seq(Findings) /\ DOMAIN s = DOMAIN g[k] /\ s[i] = w /\ \A j \in DOMAIN g[k] : j # i => s[j] = g[k][j]
  BY <1>1, <1>3, <1>5
<1>7. h = [g EXCEPT ![k] = s]
  BY <1>2, <1>5 DEF Merged
<1>8. h \in [D!AllKinds -> Seq(Findings)] /\ h[k] = s /\ \A l \in D!AllKinds : l # k => h[l] = g[l]
  BY <1>1, <1>6, <1>7
<1>9. \A l \in D!AllKinds : DOMAIN h[l] = DOMAIN g[l] /\ \A j \in DOMAIN g[l] : h[l][j].address = g[l][j].address
  BY <1>3, <1>6, <1>8
<1>10. ASSUME NEW l \in D!AllKinds, NEW j \in DOMAIN h[l] PROVE RowIs(h[l][j], l, ch, x)
  <2>1. CASE l = k /\ j = i
    BY <1>4, <1>6, <1>8, <2>1
  <2>2. CASE ~(l = k /\ j = i)
    <3>1. j \in DOMAIN g[l] /\ h[l][j] = g[l][j]
      BY <1>6, <1>8, <1>9, <2>2
    <3>2. g[l][j].address # ch[x].address
      BY <2>2, <3>1 DEF GroupsAre
    <3>. QED BY <1>1, <3>1, <3>2, RowKept
  <2>. QED BY <2>1, <2>2
<1>11. \A l, o \in D!AllKinds : \A p \in DOMAIN h[l], q \in DOMAIN h[o] :
         h[l][p].address = h[o][q].address => l = o /\ p = q
  BY <1>9 DEF GroupsAre
<1>12. ASSUME NEW m \in 1..x PROVE \E l \in D!AllKinds : \E j \in DOMAIN h[l] : h[l][j].address = ch[m].address
  <2>1. m = x \/ m \in 1..n
    OBVIOUS
  <2>2. \E l \in D!AllKinds : \E j \in DOMAIN g[l] : g[l][j].address = ch[m].address
    BY <2>1 DEF GroupsAre
  <2>. QED BY <1>9, <2>2
<1>13. SamePlacesFound(h, g)
  BY <1>9 DEF D!At, SamePlacesFound
<1>14. GroupsAre(h, ch, x)
  BY <1>8, <1>10, <1>11, <1>12 DEF GroupsAre
<1>. QED BY <1>8, <1>13, <1>14

\* A new row is the last of its group.
LEMMA GroupsGrown ==
  ASSUME image.trace \in BOOLEAN, NEW n \in Nat, NEW x, x = n + 1, NEW ch, ch[x] \in Findings,
         NEW g, GroupsAre(g, ch, n), Free(g, ch[x].address),
         NEW h, h = Grown(g, D!Refine(ch[x]))
  PROVE  GroupsAre(h, ch, x)
<1>0. PICK r : r = D!Refine(ch[x]) /\ h = Grown(g, r)
  OBVIOUS
<1>1. /\ g \in [D!AllKinds -> Seq(Findings)]
      /\ \A l \in D!AllKinds : \A j \in DOMAIN g[l] : g[l][j] \in Findings /\ RowIs(g[l][j], l, ch, n)
  BY DEF GroupsAre
<1>2. PICK k : k = r.kind
  OBVIOUS
<1>3. r \in Findings /\ k \in D!AllKinds /\ r.address = ch[x].address
  BY <1>0, <1>2, RefineIs
<1>4. \A l \in D!AllKinds : \A j \in DOMAIN g[l] : g[l][j].address # ch[x].address
  BY DEF D!At, Free
<1>5. ASSUME NEW m \in 1..n PROVE ch[m].address # ch[x].address
  BY <1>4 DEF GroupsAre
<1>6. RowIs(r, k, ch, x)
  BY <1>0, <1>2, <1>5, RowMade
<1>7. PICK s, o : s = Append(g[k], r) /\ o = Len(g[k]) + 1
  OBVIOUS
<1>8. g[k] \in Seq(Findings)
  BY <1>1, <1>3
<1>9. /\ s \in Seq(Findings) /\ DOMAIN s = DOMAIN g[k] \cup {o} /\ s[o] = r /\ o \notin DOMAIN g[k]
      /\ \A j \in DOMAIN g[k] : s[j] = g[k][j]
  BY <1>3, <1>7, <1>8
<1>10. h = [g EXCEPT ![k] = s]
  BY <1>0, <1>2, <1>7 DEF Grown
<1>11. h \in [D!AllKinds -> Seq(Findings)] /\ h[k] = s /\ \A l \in D!AllKinds : l # k => h[l] = g[l]
  BY <1>1, <1>3, <1>9, <1>10
<1>12. \A l \in D!AllKinds : \A j \in DOMAIN h[l] : \/ l = k /\ j = o /\ h[l][j] = r
                                                    \/ j \in DOMAIN g[l] /\ h[l][j] = g[l][j]
  BY <1>9, <1>11
<1>13. ASSUME NEW l \in D!AllKinds, NEW j \in DOMAIN h[l] PROVE RowIs(h[l][j], l, ch, x)
  <2>1. CASE l = k /\ j = o /\ h[l][j] = r
    BY <1>6, <2>1
  <2>2. CASE j \in DOMAIN g[l] /\ h[l][j] = g[l][j]
    BY <1>1, <1>4, <2>2, RowKept
  <2>. QED BY <1>12, <2>1, <2>2
<1>14. \A l, z \in D!AllKinds : \A p \in DOMAIN h[l], q \in DOMAIN h[z] :
         h[l][p].address = h[z][q].address => l = z /\ p = q
  <2>1. ASSUME NEW l \in D!AllKinds, NEW z \in D!AllKinds, NEW p \in DOMAIN h[l], NEW q \in DOMAIN h[z],
               h[l][p].address = h[z][q].address
        PROVE  l = z /\ p = q
    <3>1. CASE p \in DOMAIN g[l] /\ h[l][p] = g[l][p] /\ q \in DOMAIN g[z] /\ h[z][q] = g[z][q]
      BY <2>1, <3>1 DEF GroupsAre
    <3>2. CASE l = k /\ p = o /\ h[l][p] = r
      BY <1>3, <1>4, <1>12, <2>1, <3>2
    <3>3. CASE z = k /\ q = o /\ h[z][q] = r
      BY <1>3, <1>4, <1>12, <2>1, <3>3
    <3>. QED BY <1>12, <3>1, <3>2, <3>3
  <2>. QED BY <2>1
<1>15. ASSUME NEW m \in 1..x PROVE \E l \in D!AllKinds : \E j \in DOMAIN h[l] : h[l][j].address = ch[m].address
  <2>1. CASE m = x
    <3>1. o \in DOMAIN h[k] /\ h[k][o].address = ch[m].address
      BY <1>3, <1>9, <1>11, <2>1
    <3>. QED BY <1>3, <3>1
  <2>2. CASE m # x
    <3>1. m \in 1..n
      BY <2>2
    <3>2. PICK l \in D!AllKinds : \E j \in DOMAIN g[l] : g[l][j].address = ch[m].address
      BY <3>1 DEF GroupsAre
    <3>3. PICK j \in DOMAIN g[l] : g[l][j].address = ch[m].address
      BY <3>2
    <3>4. j \in DOMAIN h[l] /\ h[l][j] = g[l][j]
      BY <1>9, <1>11
    <3>. QED BY <3>3, <3>4
  <2>. QED BY <2>1, <2>2
<1>. QED BY <1>11, <1>13, <1>14, <1>15 DEF GroupsAre

\* So each turn of discover_all keeps the groups what they are.
LEMMA GroupsKept ==
  ASSUME image.trace \in BOOLEAN, NEW n \in Nat, NEW x, x = n + 1, NEW ch, ch[x] \in Findings,
         NEW g, GroupsAre(g, ch, n)
  PROVE  GroupsAre(D!Place(g, ch[x]), ch, x)
<1>2. PICK h : h = D!Place(g, ch[x])
  OBVIOUS
<1>3. g \in [D!AllKinds -> Seq(Findings)]
  BY DEF GroupsAre
<1>4. CASE \E k \in D!AllKinds : \E i \in DOMAIN g[k] :
              /\ g[k][i].address = ch[x].address
              /\ h = Merged(g, k, i, ch[x])
  <2>1. PICK k \in D!AllKinds : \E i \in DOMAIN g[k] :
              /\ g[k][i].address = ch[x].address
              /\ h = Merged(g, k, i, ch[x])
    BY <1>4
  <2>2. PICK i \in DOMAIN g[k] : /\ g[k][i].address = ch[x].address
                                 /\ h = Merged(g, k, i, ch[x])
    BY <2>1
  <2>3. GroupsAre(h, ch, x)
    BY <2>2, GroupsMerged
  <2>. QED BY <1>2, <2>3
<1>5. CASE Free(g, ch[x].address) /\ h = Grown(g, D!Refine(ch[x]))
  <2>1. GroupsAre(h, ch, x)
    BY <1>5, GroupsGrown
  <2>. QED BY <1>2, <2>1
<1>. QED BY <1>2, <1>3, <1>4, <1>5, RowPlaced

\* Groups stay groups of findings.
LEMMA PlaceIn ==
  ASSUME image.trace \in BOOLEAN, NEW g \in [D!AllKinds -> Seq(Findings)], NEW e \in Findings
  PROVE  D!Place(g, e) \in [D!AllKinds -> Seq(Findings)]
<1>1. PICK h : h = D!Place(g, e)
  OBVIOUS
<1>2. ASSUME NEW k \in D!AllKinds, NEW i \in DOMAIN g[k], h = Merged(g, k, i, e)
      PROVE  h \in [D!AllKinds -> Seq(Findings)]
  <2>1. g[k] \in Seq(Findings) /\ g[k][i] \in Findings
    OBVIOUS
  <2>2. PICK w : w = D!Merge(g[k][i], e)
    OBVIOUS
  <2>3. w \in Findings
    BY <2>1, <2>2, MergeIs
  <2>4. [g[k] EXCEPT ![i] = w] \in Seq(Findings)
    BY <2>1, <2>3
  <2>. QED BY <1>2, <2>2, <2>4 DEF Merged
<1>3. ASSUME h = Grown(g, D!Refine(e)) PROVE h \in [D!AllKinds -> Seq(Findings)]
  <2>1. PICK r : r = D!Refine(e)
    OBVIOUS
  <2>2. r \in Findings /\ r.kind \in D!AllKinds
    BY <2>1, RefineIs
  <2>3. Append(g[r.kind], r) \in Seq(Findings)
    BY <2>2
  <2>. QED BY <1>3, <2>1, <2>3 DEF Grown
<1>. QED BY <1>1, <1>2, <1>3, RowPlaced

AllRun(ch, g, n) ==
  g = [i \in 0..n |-> IF i = 0 THEN [k \in D!AllKinds |-> << >>] ELSE D!Place(g[i - 1], ch[i])]

\* discover_all, finding by finding.
LEMMA GroupsFound ==
  ASSUME image.trace \in BOOLEAN, NEW ch \in Seq(Findings), NEW n \in Nat, n = Len(ch)
  PROVE  \E g : /\ D!DiscoverAll(ch) = g[n] /\ g[0] = [k \in D!AllKinds |-> << >>]
                /\ \A i \in 1..n : g[i] = D!Place(g[i - 1], ch[i])
                /\ \A i \in 0..n : GroupsAre(g[i], ch, i)
<1>0. \A i \in 1..n : ch[i] \in Findings
  OBVIOUS
<1>1. PICK V, none : V = [D!AllKinds -> Seq(Findings)] /\ none = [k \in D!AllKinds |-> << >>]
  OBVIOUS
<1>2. PICK next : next = [p \in V \X (1..n) |-> D!Place(p[1], ch[p[2]])]
  OBVIOUS
<1>3. IsTurn(next, V, n)
  <2>1. \A p \in V \X (1..n) : D!Place(p[1], ch[p[2]]) \in V
    <3>1. ASSUME NEW y \in V, NEW i \in 1..n PROVE D!Place(y, ch[i]) \in V
      BY <1>0, <1>1, PlaceIn
    <3>. QED BY <3>1
  <2>. QED BY <1>2, <2>1 DEF IsTurn
<1>4. none \in V
  <2>1. << >> \in Seq(Findings)
    OBVIOUS
  <2>. QED BY <1>1, <2>1
<1>5. PICK f : Turned(f, V, n, none, next)
  BY <1>3, <1>4, Turns
<1>6. \A i \in 1..n : next[<<f[i - 1], i>>] = D!Place(f[i - 1], ch[i])
  BY <1>2, <1>5 DEF Turned
<1>7. AllRun(ch, f, n)
  <2>1. \A i \in 0..n : i = 0 \/ i \in 1..n
    OBVIOUS
  <2>2. f = [i \in 0..n |-> IF i = 0 THEN none ELSE D!Place(f[i - 1], ch[i])]
    BY <1>5, <1>6, <2>1 DEF Turned
  <2>. QED BY <1>1, <2>2 DEF AllRun
<1>8. PICK g : g = CHOOSE y : AllRun(ch, y, n)
  OBVIOUS
<1>9. AllRun(ch, g, n)
  BY <1>7, <1>8, Zenon
<1>10. D!DiscoverAll(ch) = g[n]
  BY <1>8, Zenon DEF D!DiscoverAll, AllRun
<1>11. g[0] = none /\ \A i \in 1..n : g[i] = D!Place(g[i - 1], ch[i])
  <2>1. 0 \in 0..n /\ \A i \in 1..n : i \in 0..n /\ i # 0
    OBVIOUS
  <2>. QED BY <1>1, <1>9, <2>1 DEF AllRun
<1> DEFINE Good == {i \in 0..n : GroupsAre(g[i], ch, i)}
<1>12. 0 \in Good
  <2>1. GroupsAre(g[0], ch, 0)
    BY <1>1, <1>11, NoGroups
  <2>. QED BY <2>1
<1>13. ASSUME NEW i \in 0..(n - 1), i \in Good PROVE i + 1 \in Good
  <2>1. PICK x : x = i + 1
    OBVIOUS
  <2>2. i \in Nat /\ x \in 1..n /\ x \in 0..n /\ x - 1 = i
    BY <2>1
  <2>3. GroupsAre(g[i], ch, i) /\ g[x] = D!Place(g[i], ch[x]) /\ ch[x] \in Findings
    BY <1>0, <1>11, <1>13, <2>2
  <2>4. GroupsAre(g[x], ch, x)
    BY <2>1, <2>2, <2>3, GroupsKept
  <2>. QED BY <2>1, <2>2, <2>4
<1>14. \A i \in 0..n : GroupsAre(g[i], ch, i)
  <2>. HIDE DEF Good
  <2>1. \A i \in 0..n : i \in Good
    BY <1>12, <1>13, UpTo
  <2>. QED BY <2>1 DEF Good
<1>. QED BY <1>1, <1>10, <1>11, <1>14

-----------------------------------------------------------------------------
\* discover, in step with discover_all: its rows are the group of its kind, and
\* what it filtered is in the other groups.
Others(g, k) == {a \in D!Address : \E l \in D!AllKinds \ {k} : D!At(g[l], a) # {}}
InStep(s, g, k) == s = [found |-> g[k], filtered |-> Others(g, k)]

States == [found : Seq(Findings), filtered : SUBSET D!Address]

\* What a turn of discover appends or filters by.
LEMMA KindTaken ==
  ASSUME image.trace \in BOOLEAN, NEW e \in Findings, NEW k \in D!AllKinds,
         NEW r, r = IF k \in D!QueueFamily THEN D!Refine(e) ELSE e
  PROVE  /\ r.kind # k <=> D!Refine(e).kind # k
         /\ r.kind = k => r = D!Refine(e)
  BY RefineIs

\* One turn of discover, in its four cases.
LEMMA TakeMerges ==
  ASSUME NEW s \in States, NEW e, NEW k, D!At(s.found, e.address) # {},
         NEW i, i = RowOf(s.found, e.address)
  PROVE  D!Take(s, e, k) = [found |-> [s.found EXCEPT ![i] = D!Merge(s.found[i], e)], filtered |-> s.filtered]
<1>1. D!Take(s, e, k) = [s EXCEPT !.found[RowOf(s.found, e.address)] = D!Merge(s.found[RowOf(s.found, e.address)], e)]
  BY Zenon DEF D!Take, RowOf
<1>2. D!Take(s, e, k) = [s EXCEPT !.found[i] = D!Merge(s.found[i], e)]
  BY <1>1
<1>. QED BY <1>2 DEF States

\* A finding another group has taken is passed over,
LEMMA TakeSkips ==
  ASSUME NEW s, NEW e, NEW k, D!At(s.found, e.address) = {}, e.address \in s.filtered
  PROVE  D!Take(s, e, k) = s
BY DEF D!Take

\* one of another kind is filtered from now on,
LEMMA TakeFilters ==
  ASSUME image.trace \in BOOLEAN, NEW s \in States, NEW e \in Findings, NEW k \in D!AllKinds,
         D!At(s.found, e.address) = {}, e.address \notin s.filtered, D!Refine(e).kind # k
  PROVE  D!Take(s, e, k) = [found |-> s.found, filtered |-> s.filtered \cup {e.address}]
<1>1. PICK r : r = IF k \in D!QueueFamily THEN D!Refine(e) ELSE e
  OBVIOUS
<1>2. r.kind # k
  BY <1>1, KindTaken
<1>3. D!Take(s, e, k) = [s EXCEPT !.filtered = @ \cup {e.address}]
  BY <1>1, <1>2 DEF D!Take
<1>. QED BY <1>3 DEF States

\* and one of the kind asked for makes a row.
LEMMA TakeAppends ==
  ASSUME image.trace \in BOOLEAN, NEW s \in States, NEW e \in Findings, NEW k \in D!AllKinds,
         D!At(s.found, e.address) = {}, e.address \notin s.filtered, D!Refine(e).kind = k
  PROVE  D!Take(s, e, k) = [found |-> Append(s.found, D!Refine(e)), filtered |-> s.filtered]
<1>1. PICK r : r = IF k \in D!QueueFamily THEN D!Refine(e) ELSE e
  OBVIOUS
<1>2. r.kind = k /\ r = D!Refine(e)
  BY <1>1, KindTaken
<1>3. D!Take(s, e, k) = [s EXCEPT !.found = Append(@, r)]
  BY <1>1, <1>2 DEF D!Take
<1>. QED BY <1>2, <1>3 DEF States

\* discover and discover_all stay in step over a finding.
LEMMA InStepKept ==
  ASSUME image.trace \in BOOLEAN, NEW n \in Nat, NEW x, x = n + 1, NEW ch, ch[x] \in Findings,
         NEW g, GroupsAre(g, ch, n), NEW k \in D!AllKinds, NEW s, InStep(s, g, k)
  PROVE  InStep(D!Take(s, ch[x], k), D!Place(g, ch[x]), k)
<1>1. PICK e, a, h, f, w : e = ch[x] /\ a = e.address /\ h = D!Place(g, e) /\ f = g[k] /\ w = Others(g, k)
  OBVIOUS
<1>2. g \in [D!AllKinds -> Seq(Findings)] /\ f \in Seq(Findings) /\ e \in Findings /\ a \in D!Address
  BY <1>1 DEF GroupsAre, Findings
<1>3. s = [found |-> f, filtered |-> w] /\ s \in States /\ s.found = f /\ s.filtered = w
  BY <1>1, <1>2 DEF InStep, Others, States
<1>4. \A l, z \in D!AllKinds : D!At(g[l], a) # {} /\ D!At(g[z], a) # {} => l = z
  BY DEF GroupsAre, D!At
<1>5. PICK t, q : t = D!Take(s, e, k) /\ q = RowOf(f, a)
  OBVIOUS
<1>9. D!At(f, a) # {} => t = [found |-> [f EXCEPT ![q] = D!Merge(f[q], e)], filtered |-> w]
  BY <1>1, <1>3, <1>5, TakeMerges
<1>10. D!At(f, a) = {} /\ a \in w => t = s
  BY <1>1, <1>3, <1>5, TakeSkips
<1>11. D!At(f, a) = {} /\ a \notin w /\ D!Refine(e).kind # k => t = [found |-> f, filtered |-> w \cup {a}]
  BY <1>1, <1>2, <1>3, <1>5, TakeFilters
<1>12. D!At(f, a) = {} /\ a \notin w /\ D!Refine(e).kind = k => t = [found |-> Append(f, D!Refine(e)), filtered |-> w]
  BY <1>1, <1>2, <1>3, <1>5, TakeAppends
<1>6. CASE \E l \in D!AllKinds : \E i \in DOMAIN g[l] :
             g[l][i].address = a /\ i = RowOf(g[l], a) /\ D!At(g[l], a) # {} /\ h = Merged(g, l, i, e)
  <2>1. PICK l \in D!AllKinds :
             \E i \in DOMAIN g[l] :
             g[l][i].address = a /\ i = RowOf(g[l], a) /\ D!At(g[l], a) # {} /\ h = Merged(g, l, i, e)
    BY <1>6
  <2>2. PICK i \in DOMAIN g[l] :
             g[l][i].address = a /\ i = RowOf(g[l], a) /\ D!At(g[l], a) # {} /\ h = Merged(g, l, i, e)
    BY <2>1
  <2>3. SamePlacesFound(h, g) /\ \A z \in D!AllKinds \ {l} : h[z] = g[z]
    <3>1. ch[x] \in Findings /\ h = Merged(g, l, i, ch[x]) /\ g[l][i].address = ch[x].address
      BY <1>1, <2>2
    <3>. QED BY <3>1, GroupsMerged
  <2>4. Others(h, k) = w
    BY <1>1, <2>3 DEF Others, SamePlacesFound
  <2>5. CASE l = k
    <3>1. t = [found |-> [f EXCEPT ![i] = D!Merge(f[i], e)], filtered |-> w]
      BY <1>1, <1>5, <1>9, <2>2, <2>5
    <3>2. h[k] = [f EXCEPT ![i] = D!Merge(f[i], e)]
      BY <1>1, <1>2, <2>2, <2>5 DEF Merged
    <3>. QED BY <1>1, <1>5, <2>4, <3>1, <3>2 DEF InStep
  <2>6. CASE l # k
    <3>1. D!At(f, a) = {} /\ a \in w
      BY <1>1, <1>2, <1>4, <2>2, <2>6 DEF Others
    <3>2. t = s
      BY <1>10, <3>1
    <3>3. h[k] = f
      BY <1>1, <2>3, <2>6
    <3>. QED BY <1>1, <1>3, <1>5, <2>4, <3>2, <3>3 DEF InStep
  <2>. QED BY <2>5, <2>6
<1>7. CASE Free(g, a) /\ h = Grown(g, D!Refine(e))
  <2>1. PICK r : r = D!Refine(e)
    OBVIOUS
  <2>2. r \in Findings /\ r.kind \in D!AllKinds /\ r.address = a
    BY <1>1, <1>2, <2>1, RefineIs
  <2>3. D!At(f, a) = {} /\ a \notin w
    BY <1>1, <1>7 DEF Free, Others
  <2>4. h[r.kind] = Append(g[r.kind], r) /\ \A z \in D!AllKinds \ {r.kind} : h[z] = g[z]
    BY <1>2, <1>7, <2>1, <2>2 DEF Grown
  <2>5. CASE r.kind = k
    <3>1. t = [found |-> Append(f, r), filtered |-> w]
      BY <1>12, <2>1, <2>3, <2>5
    <3>2. Others(h, k) = w
      BY <1>1, <2>4, <2>5 DEF Others
    <3>. QED BY <1>1, <1>5, <2>4, <2>5, <3>1, <3>2 DEF InStep
  <2>6. CASE r.kind # k
    <3>1. t = [found |-> f, filtered |-> w \cup {a}]
      BY <1>11, <2>1, <2>3, <2>6
    <3>2. ASSUME NEW b \in D!Address PROVE D!At(h[r.kind], b) # {} <=> D!At(g[r.kind], b) # {} \/ b = a
      <4>1. g[r.kind] \in Seq(Findings)
        BY <1>2, <2>2
      <4>2. PICK v, o : v = Append(g[r.kind], r) /\ o = Len(g[r.kind]) + 1
        OBVIOUS
      <4>3. /\ DOMAIN v = DOMAIN g[r.kind] \cup {o} /\ v[o] = r /\ o \notin DOMAIN g[r.kind]
            /\ \A j \in DOMAIN g[r.kind] : v[j] = g[r.kind][j]
        BY <2>2, <4>1, <4>2
      <4>. QED BY <2>2, <2>4, <4>2, <4>3 DEF D!At
    <3>3. Others(h, k) = w \cup {a}
      BY <1>1, <1>2, <2>2, <2>4, <2>6, <3>2 DEF Others
    <3>. QED BY <1>1, <1>5, <2>2, <2>4, <2>6, <3>1, <3>3 DEF InStep
  <2>. QED BY <2>5, <2>6
<1>8. h = D!Place(g, e) /\ a = e.address
  BY <1>1
<1>. QED BY <1>2, <1>6, <1>7, <1>8, RowPlaced

\* A turn leaves rows and addresses.
LEMMA TakeIn ==
  ASSUME image.trace \in BOOLEAN, NEW s \in States, NEW e \in Findings, NEW k \in D!AllKinds
  PROVE  D!Take(s, e, k) \in States
<1>1. PICK f, w, a, i : f = s.found /\ w = s.filtered /\ a = e.address /\ i = RowOf(s.found, e.address)
  OBVIOUS
<1>2. f \in Seq(Findings) /\ w \in SUBSET D!Address /\ a \in D!Address
  BY <1>1 DEF States, Findings
<1>3. CASE D!At(f, a) # {}
  <2>1. i \in DOMAIN f
    BY <1>1, <1>3, RowOfIs
  <2>2. PICK m : m = D!Merge(f[i], e)
    OBVIOUS
  <2>3. m \in Findings
    BY <1>2, <2>1, <2>2, MergeIs
  <2>4. D!Take(s, e, k) = [found |-> [f EXCEPT ![i] = m], filtered |-> w]
    BY <1>1, <1>3, <2>2, TakeMerges
  <2>5. [f EXCEPT ![i] = m] \in Seq(Findings)
    BY <1>2, <2>1, <2>3
  <2>. QED BY <1>2, <2>4, <2>5 DEF States
<1>4. CASE D!At(f, a) = {} /\ a \in w
  BY <1>1, <1>4, TakeSkips
<1>5. CASE D!At(f, a) = {} /\ a \notin w /\ D!Refine(e).kind # k
  <2>1. D!Take(s, e, k) = [found |-> f, filtered |-> w \cup {a}]
    BY <1>1, <1>5, TakeFilters
  <2>. QED BY <1>2, <2>1 DEF States
<1>6. CASE D!At(f, a) = {} /\ a \notin w /\ D!Refine(e).kind = k
  <2>1. PICK r : r = D!Refine(e)
    OBVIOUS
  <2>2. r \in Findings
    BY <2>1, RefineIs
  <2>3. D!Take(s, e, k) = [found |-> Append(f, r), filtered |-> w]
    BY <1>1, <1>6, <2>1, TakeAppends
  <2>. QED BY <1>2, <2>2, <2>3 DEF States
<1>. QED BY <1>3, <1>4, <1>5, <1>6

DiscoverRun(ch, k, f, n) ==
  f = [i \in 0..n |-> IF i = 0 THEN [found |-> << >>, filtered |-> {}] ELSE D!Take(f[i - 1], ch[i], k)]

\* discover, finding by finding.
LEMMA KindFound ==
  ASSUME image.trace \in BOOLEAN, NEW ch \in Seq(Findings), NEW n \in Nat, n = Len(ch), NEW k \in D!AllKinds
  PROVE  \E f : /\ D!Discover(k, ch) = f[n].found /\ f[0] = [found |-> << >>, filtered |-> {}]
                /\ \A i \in 1..n : f[i] = D!Take(f[i - 1], ch[i], k)
<1>0. \A i \in 1..n : ch[i] \in Findings
  OBVIOUS
<1>1. PICK none : none = [found |-> << >>, filtered |-> {}]
  OBVIOUS
<1>2. PICK next : next = [p \in States \X (1..n) |-> D!Take(p[1], ch[p[2]], k)]
  OBVIOUS
<1>3. IsTurn(next, States, n)
  <2>1. \A p \in States \X (1..n) : D!Take(p[1], ch[p[2]], k) \in States
    <3>1. ASSUME NEW y \in States, NEW i \in 1..n PROVE D!Take(y, ch[i], k) \in States
      BY <1>0, TakeIn
    <3>. QED BY <3>1
  <2>. QED BY <1>2, <2>1 DEF IsTurn
<1>4. none \in States
  BY <1>1 DEF States
<1>5. PICK h : Turned(h, States, n, none, next)
  BY <1>3, <1>4, Turns
<1>6. \A i \in 1..n : next[<<h[i - 1], i>>] = D!Take(h[i - 1], ch[i], k)
  BY <1>2, <1>5 DEF Turned
<1>7. DiscoverRun(ch, k, h, n)
  <2>1. \A i \in 0..n : i = 0 \/ i \in 1..n
    OBVIOUS
  <2>2. h = [i \in 0..n |-> IF i = 0 THEN none ELSE D!Take(h[i - 1], ch[i], k)]
    BY <1>5, <1>6, <2>1 DEF Turned
  <2>. QED BY <1>1, <2>2 DEF DiscoverRun
<1>8. PICK f : f = CHOOSE y : DiscoverRun(ch, k, y, n)
  OBVIOUS
<1>9. DiscoverRun(ch, k, f, n)
  BY <1>7, <1>8, Zenon
<1>10. D!Discover(k, ch) = f[n].found
  BY <1>8, Zenon DEF D!Discover, DiscoverRun
<1>11. f[0] = none /\ \A i \in 1..n : f[i] = D!Take(f[i - 1], ch[i], k)
  <2>1. 0 \in 0..n /\ \A i \in 1..n : i \in 0..n /\ i # 0
    OBVIOUS
  <2>. QED BY <1>1, <1>9, <2>1 DEF DiscoverRun
<1>. QED BY <1>1, <1>10, <1>11

\* Whatever the channels find, the table of a kind is the summary's group of it.
LEMMA SameRows ==
  ASSUME image.trace \in BOOLEAN, NEW ch \in Seq(Findings), NEW k \in D!AllKinds
  PROVE  D!Discover(k, ch) = D!DiscoverAll(ch)[k]
<1>0. PICK n \in Nat : n = Len(ch)
  OBVIOUS
<1>1. PICK g : /\ D!DiscoverAll(ch) = g[n] /\ g[0] = [l \in D!AllKinds |-> << >>]
               /\ \A i \in 1..n : g[i] = D!Place(g[i - 1], ch[i])
               /\ \A i \in 0..n : GroupsAre(g[i], ch, i)
  BY <1>0, GroupsFound
<1>2. PICK f : /\ D!Discover(k, ch) = f[n].found /\ f[0] = [found |-> << >>, filtered |-> {}]
               /\ \A i \in 1..n : f[i] = D!Take(f[i - 1], ch[i], k)
  BY <1>0, KindFound
<1> DEFINE Good == {i \in 0..n : InStep(f[i], g[i], k)}
<1>3. 0 \in Good
  <2>1. g[0][k] = << >> /\ \A l \in D!AllKinds : \A a : D!At(g[0][l], a) = {}
    <3>1. \A a : D!At(<< >>, a) = {}
      BY DEF D!At
    <3>. QED BY <1>1, <3>1
  <2>2. Others(g[0], k) = {}
    BY <2>1 DEF Others
  <2>3. InStep(f[0], g[0], k)
    BY <1>2, <2>1, <2>2 DEF InStep
  <2>. QED BY <2>3
<1>4. ASSUME NEW i \in 0..(n - 1), i \in Good PROVE i + 1 \in Good
  <2>1. PICK x : x = i + 1
    OBVIOUS
  <2>2. i \in Nat /\ x \in 1..n /\ x \in 0..n /\ x - 1 = i /\ i \in 0..n
    BY <2>1
  <2>3. /\ InStep(f[i], g[i], k) /\ GroupsAre(g[i], ch, i) /\ ch[x] \in Findings
        /\ f[x] = D!Take(f[i], ch[x], k) /\ g[x] = D!Place(g[i], ch[x])
    BY <1>0, <1>1, <1>2, <1>4, <2>2
  <2>4. InStep(f[x], g[x], k)
    BY <2>1, <2>2, <2>3, InStepKept
  <2>. QED BY <2>1, <2>2, <2>4
<1>5. InStep(f[n], g[n], k)
  <2>. HIDE DEF Good
  <2>1. \A i \in 0..n : i \in Good
    BY <1>3, <1>4, UpTo
  <2>2. n \in Good
    BY <2>1
  <2>. QED BY <2>2 DEF Good
<1>. QED BY <1>1, <1>2, <1>5 DEF InStep

-----------------------------------------------------------------------------
\* Every handle the kernel keeps is of an object there is: slots of the registry
\* hold members of the queue family, those of the pool what the wrappers made,
\* the lists timers; and what was cached of the symbols was in place when read.
KernelSources == {"mpu-pool", "registry", "active"}
HandlesSound ==
  /\ D!TypeOK
  /\ \A o \in live : memory[o] \in D!AllKinds
  /\ \A j \in 1..Slots : registry[j] # D!Unused =>
       image.registry /\ registry[j] \in live /\ memory[registry[j]] \in D!QueueFamily
  /\ \A j \in 1..Slots : pool[j] # D!Unused => image.mpu /\ pool[j] \in live \cup {D!Reserved}
  /\ ~image.mpu => \A i \in DOMAIN Declared : variable[i] \in Obj \cup {D!Unused}
  /\ active \in Seq({o \in live : memory[o] = "timer"})
  /\ cache = None \/ cache \in Seq({e \in Findings : e.source = "symbol"})

\* The ELF image tells which keepers there are.
LEMMA ImageIs ==
  ASSUME D!DiscoveryAssumption, HandlesSound
  PROVE  image.trace \in BOOLEAN /\ image.registry \in BOOLEAN /\ image.mpu \in BOOLEAN
BY DEF D!DiscoveryAssumption, HandlesSound, D!TypeOK

\* A finding of an object there is, under the kind its memory has.
OfKernel(e) == e.address \in live /\ D!Refine(e).kind = memory[e.address]

\* No mark of a slot is a place.
LEMMA PlacesApart ==
  ASSUME D!DiscoveryAssumption, NEW a \in D!Address
  PROVE  a # D!Unused /\ a # D!Reserved /\ a \notin 1..Slots
BY DEF D!DiscoveryAssumption, D!Unused, D!Reserved

\* iter_mpu_pool_objects
LEMMA PoolFindings ==
  ASSUME D!DiscoveryAssumption, HandlesSound
  PROVE  /\ D!PoolObjects \in Seq({e \in Findings : e.source = "mpu-pool" /\ e.name = None /\ OfKernel(e)})
         /\ \A j \in 1..Slots : pool[j] \in live =>
              \E i \in DOMAIN D!PoolObjects : D!PoolObjects[i].address = pool[j]
<1> DEFINE X == {e \in Findings : e.source = "mpu-pool" /\ e.name = None /\ OfKernel(e)}
<1>1. CASE ~image.mpu
  <2>1. D!PoolObjects = << >>
    BY <1>1 DEF D!PoolObjects
  <2>2. << >> \in Seq(X)
    OBVIOUS
  <2>3. \A j \in 1..Slots : pool[j] = D!Unused /\ pool[j] \notin live
    BY <1>1, PlacesApart DEF HandlesSound, D!TypeOK, D!Address
  <2>. QED BY <2>1, <2>2, <2>3
<1>2. CASE image.mpu
  <2>1. PICK p, U : p = pool /\ U = {D!Unused, D!Reserved}
    OBVIOUS
  <2>2. p \in Seq(live \cup U)
    <3>1. p \in [1..Slots -> live \cup U] /\ Slots \in Nat
      BY <2>1 DEF HandlesSound, D!TypeOK, D!DiscoveryAssumption
    <3>. QED BY <3>1
  <2>3. PICK used : used = D!Without(p, U)
    OBVIOUS
  <2>4. /\ used \in Seq(live) /\ DOMAIN used = 1..Len(used)
        /\ \A j \in DOMAIN p : p[j] \notin U => \E i \in DOMAIN used : used[i] = p[j]
    <3>1. /\ used \in Seq((live \cup U) \ U)
          /\ \A j \in DOMAIN p : p[j] \notin U => \E i \in DOMAIN used : used[i] = p[j]
      BY <2>2, <2>3, WithoutIs
    <3>. QED BY <3>1
  <2>5. PICK s : s = [i \in DOMAIN used |-> D!Found(D!PoolKind(used[i]), used[i], None, "mpu-pool",
                                                     memory[used[i]] \in D!QueueFamily)]
    OBVIOUS
  <2>6. D!PoolObjects = s
    BY <1>2, <2>1, <2>3, <2>5 DEF D!PoolObjects
  <2>7. ASSUME NEW i \in DOMAIN used PROVE s[i] \in X /\ s[i].address = used[i]
    <3>1. PICK o, b : o = used[i] /\ b = (memory[o] \in D!QueueFamily)
      OBVIOUS
    <3>2. o \in live /\ o \in Obj /\ o \in D!Address /\ memory[o] \in D!AllKinds
      BY <2>4, <3>1 DEF HandlesSound, D!TypeOK, D!Address
    <3>3. PICK k : k = D!PoolKind(o)
      OBVIOUS
    <3>4. k \in D!AllKinds /\ (k \in D!QueueFamily <=> memory[o] \in D!QueueFamily)
          /\ (memory[o] \notin D!QueueFamily => k = memory[o])
      BY <3>2, <3>3 DEF D!PoolKind, D!AllKinds, D!QueueFamily
    <3>5. PICK e : e = D!Found(k, o, None, "mpu-pool", b)
      OBVIOUS
    <3>6. e \in Findings /\ e.kind = k /\ e.address = o /\ e.name = None /\ e.source = "mpu-pool"
      <4>1. e = [kind |-> k, address |-> o, name |-> None, source |-> "mpu-pool", extra |-> {}, inferred |-> b]
        BY <3>5 DEF D!Found
      <4>2. None \in Names /\ "mpu-pool" \in Sources /\ b \in BOOLEAN
        BY <3>1 DEF Names, Sources
      <4>. QED BY <3>2, <3>4, <4>1, <4>2 DEF Findings
    <3>7. s[i] = e
      BY <2>5, <3>1, <3>3, <3>5
    <3>8. D!Classify(o) = memory[o] \/ memory[o] \notin D!QueueFamily
      BY <3>2 DEF D!Classify, D!QueueFamily
    <3>9. D!Refine(e).kind = memory[o]
      BY <3>4, <3>6, <3>8, RefineIs, ImageIs
    <3>. QED BY <3>1, <3>2, <3>6, <3>7, <3>9 DEF OfKernel
  <2>8. s \in Seq(X)
    <3>. HIDE DEF X
    <3>1. s \in [DOMAIN used -> X]
      BY <2>5, <2>7
    <3>2. Len(used) \in Nat /\ s \in [1..Len(used) -> X]
      BY <2>4, <3>1
    <3>. QED BY <3>2
  <2>9. ASSUME NEW j \in 1..Slots, pool[j] \in live PROVE \E i \in DOMAIN s : s[i].address = pool[j]
    <3>1. j \in DOMAIN p /\ p[j] = pool[j]
      BY <2>1 DEF HandlesSound, D!TypeOK
    <3>2. p[j] \in D!Address
      BY <2>9, <3>1 DEF HandlesSound, D!TypeOK, D!Address
    <3>3. p[j] \notin U
      BY <2>1, <3>2, PlacesApart
    <3>4. PICK i \in DOMAIN used : used[i] = p[j]
      BY <2>4, <3>1, <3>3
    <3>. QED BY <2>5, <2>7, <3>1, <3>4
  <2>. QED BY <2>6, <2>8, <2>9
<1>. QED BY <1>1, <1>2

\* iter_registry_entries
LEMMA RegistryFindings ==
  ASSUME D!DiscoveryAssumption, HandlesSound
  PROVE  /\ D!RegistryEntries \in Seq({e \in Findings : e.source = "registry" /\ e.name = "registered" /\ OfKernel(e)})
         /\ \A j \in 1..Slots : registry[j] # D!Unused =>
              \E i \in DOMAIN D!RegistryEntries : D!RegistryEntries[i].address = registry[j]
<1> DEFINE X == {e \in Findings : e.source = "registry" /\ e.name = "registered" /\ OfKernel(e)}
<1>1. CASE ~image.registry
  <2>1. D!RegistryEntries = << >>
    BY <1>1 DEF D!RegistryEntries
  <2>2. << >> \in Seq(X)
    OBVIOUS
  <2>3. \A j \in 1..Slots : registry[j] = D!Unused
    BY <1>1 DEF HandlesSound
  <2>. QED BY <2>1, <2>2, <2>3
<1>2. CASE image.registry
  <2>1. PICK p, U, W : p = registry /\ U = {D!Unused} /\ W = {o \in live : memory[o] \in D!QueueFamily}
    OBVIOUS
  <2>2. p \in Seq(W \cup U)
    <3>1. p \in [1..Slots -> W \cup U] /\ Slots \in Nat
      BY <2>1 DEF HandlesSound, D!TypeOK, D!DiscoveryAssumption
    <3>. QED BY <3>1
  <2>3. PICK used : used = D!Without(p, U)
    OBVIOUS
  <2>4. /\ used \in Seq(W) /\ DOMAIN used = 1..Len(used) /\ Len(used) \in Nat
        /\ \A j \in DOMAIN p : p[j] \notin U => \E i \in DOMAIN used : used[i] = p[j]
    <3>1. /\ used \in Seq((W \cup U) \ U)
          /\ \A j \in DOMAIN p : p[j] \notin U => \E i \in DOMAIN used : used[i] = p[j]
      BY <2>2, <2>3, WithoutIs
    <3>. QED BY <3>1
  <2>5. PICK s : s = [i \in DOMAIN used |-> D!Found("queue", used[i], "registered", "registry", TRUE)]
    OBVIOUS
  <2>6. D!RegistryEntries = s
    BY <1>2, <2>1, <2>3, <2>5 DEF D!RegistryEntries
  <2>7. ASSUME NEW i \in DOMAIN used PROVE s[i] \in X /\ s[i].address = used[i]
    <3>1. PICK o : o = used[i]
      OBVIOUS
    <3>2. o \in live /\ memory[o] \in D!QueueFamily /\ o \in D!Address
      BY <2>1, <2>4, <3>1 DEF HandlesSound, D!TypeOK, D!Address
    <3>3. PICK e : e = D!Found("queue", o, "registered", "registry", TRUE)
      OBVIOUS
    <3>4. e \in Findings /\ e.kind = "queue" /\ e.address = o /\ e.name = "registered" /\ e.source = "registry"
      <4>1. "queue" \in D!AllKinds /\ "registered" \in Names /\ "registry" \in Sources /\ TRUE \in BOOLEAN
        BY DEF D!AllKinds, D!QueueFamily, Names, Sources
      <4>. QED BY <3>2, <3>3, <4>1 DEF Findings, D!Found
    <3>5. s[i] = e
      BY <2>5, <3>1, <3>3
    <3>6. D!Classify(o) = memory[o]
      BY <3>2 DEF D!Classify, D!QueueFamily
    <3>7. D!Refine(e).kind = memory[o]
      BY <3>4, <3>6, RefineIs, ImageIs DEF D!QueueFamily
    <3>. QED BY <3>1, <3>2, <3>4, <3>5, <3>7 DEF OfKernel
  <2>8. s \in Seq(X)
    <3>. HIDE DEF X
    <3>1. s \in [DOMAIN used -> X]
      BY <2>5, <2>7
    <3>2. Len(used) \in Nat /\ s \in [1..Len(used) -> X]
      BY <2>4, <3>1
    <3>. QED BY <3>2
  <2>9. ASSUME NEW j \in 1..Slots, registry[j] # D!Unused PROVE \E i \in DOMAIN s : s[i].address = registry[j]
    <3>1. j \in DOMAIN p /\ p[j] = registry[j] /\ p[j] \notin U
      BY <2>1, <2>9 DEF HandlesSound, D!TypeOK
    <3>2. PICK i \in DOMAIN used : used[i] = p[j]
      BY <2>4, <3>1
    <3>. QED BY <2>5, <2>7, <3>1, <3>2
  <2>. QED BY <2>6, <2>8, <2>9
<1>. QED BY <1>1, <1>2, ImageIs

\* iter_active_timer_hosts
LEMMA ActiveFindings ==
  ASSUME D!DiscoveryAssumption, HandlesSound
  PROVE  /\ D!ActiveTimers \in Seq({e \in Findings : e.source = "active" /\ OfKernel(e)})
         /\ DOMAIN D!ActiveTimers = DOMAIN active
         /\ \A i \in DOMAIN active : D!ActiveTimers[i].address = active[i]
<1> DEFINE X == {e \in Findings : e.source = "active" /\ OfKernel(e)}
<1>1. PICK s : s = [i \in DOMAIN active |-> D!Found("timer", active[i], "pcTimerName", "active", FALSE)]
  OBVIOUS
<1>2. ASSUME NEW i \in DOMAIN active PROVE s[i] \in X /\ s[i].address = active[i]
  <2>1. PICK o : o = active[i]
    OBVIOUS
  <2>2. o \in live /\ memory[o] = "timer" /\ o \in D!Address
    BY <2>1 DEF HandlesSound, D!TypeOK, D!Address
  <2>3. PICK e : e = D!Found("timer", o, "pcTimerName", "active", FALSE)
    OBVIOUS
  <2>4. "timer" \in D!AllKinds /\ "pcTimerName" \in Names /\ "active" \in Sources /\ FALSE \in BOOLEAN
    BY DEF D!AllKinds, Names, Sources
  <2>5. e \in Findings /\ e.kind = "timer" /\ e.address = o /\ e.source = "active"
    BY <2>2, <2>3, <2>4 DEF Findings, D!Found
  <2>6. s[i] = e
    BY <1>1, <2>1, <2>3
  <2>7. D!Refine(e).kind = memory[o]
    <3>1. "timer" \notin D!QueueFamily
      BY DEF D!QueueFamily
    <3>. QED BY <2>2, <2>5, <3>1, RefineIs, ImageIs
  <2>. QED BY <2>1, <2>2, <2>5, <2>6, <2>7 DEF OfKernel
<1>3. active \in Seq({o \in live : memory[o] = "timer"})
  BY DEF HandlesSound
<1>4. DOMAIN active = 1..Len(active) /\ Len(active) \in Nat
  BY <1>3
<1>5. s \in Seq(X)
  <2>. HIDE DEF X
  <2>1. s \in [1..Len(active) -> X]
    BY <1>1, <1>2, <1>4
  <2>. QED BY <1>4, <2>1
<1>. QED BY <1>1, <1>2, <1>5 DEF D!ActiveTimers

\* A declared variable has a kind, and a buffer or none.
LEMMA DeclaredIs ==
  ASSUME D!DiscoveryAssumption, NEW i \in DOMAIN Declared
  PROVE  Declared[i].kind \in D!AllKinds /\ Declared[i].buffer \in Obj \cup {None}
<1>1. PICK V : V = [symbol : {Declared[j].symbol : j \in DOMAIN Declared}, kind : D!AllKinds, buffer : Obj \cup {None}]
  OBVIOUS
<1>2. Declared \in Seq(V)
  BY <1>1 DEF D!DiscoveryAssumption
<1>3. Declared[i] \in V
  BY <1>2
<1>. QED BY <1>1, <1>3

\* _address_from_symbol: what it answers is a place.
LEMMA AddressIs ==
  ASSUME D!DiscoveryAssumption, HandlesSound, NEW i \in DOMAIN Declared, D!AddressOf(i) # D!Unused
  PROVE  D!AddressOf(i) \in D!Address
<1>1. CASE D!IsStatic(i)
  BY <1>1, DeclaredIs DEF D!IsStatic, D!AddressOf, D!Address
<1>2. CASE ~D!IsStatic(i) /\ ~image.mpu
  BY <1>2 DEF D!AddressOf, HandlesSound, D!Address
<1>3. CASE ~D!IsStatic(i) /\ image.mpu
  <2>1. PICK h : h = variable[i]
    OBVIOUS
  <2>2. D!AddressOf(i) = D!Opaque(h)
    BY <1>3, <2>1 DEF D!AddressOf
  <2>3. CASE h \in 1..Slots
    <3>1. D!Opaque(h) = pool[h] /\ pool[h] \notin {D!Unused, D!Reserved}
      BY <2>2, <2>3 DEF D!Opaque
    <3>. QED BY <2>2, <2>3, <3>1 DEF HandlesSound, D!TypeOK, D!Address
  <2>4. CASE h \notin 1..Slots
    <3>1. D!Opaque(h) = h
      BY <2>4 DEF D!Opaque
    <3>2. h \in Obj \cup 0..Slots /\ Slots \in Nat
      BY <2>1 DEF HandlesSound, D!TypeOK, D!DiscoveryAssumption
    <3>3. h \in Obj
      BY <2>2, <2>4, <3>1, <3>2 DEF D!Unused
    <3>. QED BY <2>2, <3>1, <3>3 DEF D!Address
  <2>. QED BY <2>3, <2>4
<1>. QED BY <1>1, <1>2, <1>3

\* _scan_symbol_objects
LEMMA ScanFindings ==
  ASSUME D!DiscoveryAssumption, HandlesSound
  PROVE  D!ScanSymbols \in Seq({e \in Findings : e.source = "symbol"})
<1> DEFINE X == {e \in Findings : e.source = "symbol"}
<1>1. PICK indices, U, I : indices = [i \in DOMAIN Declared |-> i] /\ I = DOMAIN Declared
                           /\ U = {i \in DOMAIN Declared : D!AddressOf(i) = D!Unused}
  OBVIOUS
<1>2. indices \in Seq(I)
  <2>1. Len(Declared) \in Nat /\ I = 1..Len(Declared)
    BY <1>1 DEF D!DiscoveryAssumption
  <2>. QED BY <1>1, <2>1
<1>3. PICK used : used = D!Without(indices, U)
  OBVIOUS
<1>4. used \in Seq(I \ U)
  BY <1>2, <1>3, WithoutIs
<1>5. PICK n \in Nat : n = Len(used) /\ DOMAIN used = 1..n /\ \A i \in 1..n : used[i] \in I \ U
  BY <1>4
<1>6. PICK s : s = [j \in DOMAIN used |->
                      D!Found(Declared[used[j]].kind, D!AddressOf(used[j]),
                              IF Declared[used[j]].kind = "timer" /\ D!AddressOf(used[j]) \in Obj
                                 /\ memory[D!AddressOf(used[j])] = "timer"
                              THEN "pcTimerName" ELSE Declared[used[j]].symbol, "symbol", FALSE)]
  OBVIOUS
<1>7. D!ScanSymbols = s
  BY <1>1, <1>3, <1>6 DEF D!ScanSymbols
<1>8. ASSUME NEW j \in 1..n PROVE s[j] \in X
  <2>1. PICK i : i = used[j]
    OBVIOUS
  <2>2. i \in DOMAIN Declared /\ D!AddressOf(i) # D!Unused
    BY <1>1, <1>5, <2>1
  <2>3. PICK a, m : a = D!AddressOf(i) /\ m = IF Declared[i].kind = "timer" /\ a \in Obj /\ memory[a] = "timer"
                                              THEN "pcTimerName" ELSE Declared[i].symbol
    OBVIOUS
  <2>4. a \in D!Address /\ Declared[i].kind \in D!AllKinds /\ m \in Names
    <3>1. Declared[i].kind \in D!AllKinds
      BY <2>2, DeclaredIs
    <3>. QED BY <2>2, <2>3, <3>1, AddressIs DEF Names
  <2>5. s[j] = [kind |-> Declared[i].kind, address |-> a, name |-> m, source |-> "symbol", extra |-> {}, inferred |-> FALSE]
    BY <1>5, <1>6, <2>1, <2>3 DEF D!Found
  <2>. QED BY <2>4, <2>5 DEF Findings, Sources
<1>9. s \in Seq(X)
  <2>. HIDE DEF X
  <2>1. DOMAIN s = 1..n /\ s = [j \in 1..n |-> s[j]]
    BY <1>5, <1>6
  <2>2. s \in [1..n -> X]
    BY <1>8, <2>1
  <2>. QED BY <2>2
<1>. QED BY <1>7, <1>9

\* iter_static_symbol_objects, from the cache or the scan
LEMMA SymbolFindings ==
  ASSUME D!DiscoveryAssumption, HandlesSound
  PROVE  D!StaticSymbols \in Seq({e \in Findings : e.source = "symbol"})
<1>1. PICK w : w = {e \in Findings : e.source = "symbol"}
  OBVIOUS
<1>2. D!ScanSymbols \in Seq(w) /\ (cache = None \/ cache \in Seq(w))
  BY <1>1, ScanFindings DEF HandlesSound
<1>3. D!StaticSymbols \in Seq(w)
  BY <1>2 DEF D!StaticSymbols
<1>. QED BY <1>1, <1>3

WaiterRun(h, n) == h = [t \in 0..n |-> IF t = 0 THEN << >> ELSE h[t - 1] \o D!HostsOf(t)]

\* iter_waiter_hosts
LEMMA WaiterFindings ==
  ASSUME D!DiscoveryAssumption, HandlesSound
  PROVE  D!WaiterHosts \in Seq({e \in Findings : e.source = "waiter"})
<1>0. PICK X : X = {e \in Findings : e.source = "waiter"}
  OBVIOUS
<1>1. PICK n \in Nat : n = Tasks
  BY DEF D!DiscoveryAssumption
<1>2. ASSUME NEW t \in 1..n PROVE D!HostsOf(t) \in Seq(X)
  <2>1. PICK o, g : o = waits[t].host /\ g = waits[t].ghost
    OBVIOUS
  <2>2. o \in D!Address \cup {None} /\ g \in D!Address \cup {None}
    BY <1>1, <2>1 DEF HandlesSound, D!TypeOK, D!Address
  <2>3. PICK k : k = D!HostKind(o)
    OBVIOUS
  <2>4. k \in {"eventgroup", "queue"} /\ "queue" \in D!AllKinds /\ "eventgroup" \in D!AllKinds
    BY <2>3 DEF D!HostKind, D!AllKinds, D!QueueFamily
  <2>5. PICK host, q, z : /\ host = D!Found(k, o, None, "waiter", k = "queue")
                          /\ q = D!Found("queue", g, None, "waiter", TRUE)
                          /\ z = D!Found("eventgroup", g, None, "waiter", FALSE)
    OBVIOUS
  <2>6. D!HostsOf(t) = IF o = None THEN << >> ELSE IF g = None THEN <<host>>
                       ELSE IF host.kind = "eventgroup" THEN <<q, host>> ELSE <<host, z>>
    BY <2>1, <2>3, <2>5 DEF D!HostsOf
  <2>7. None \in Names /\ "waiter" \in Sources
    BY DEF Names, Sources
  <2>8. (o # None => host \in X) /\ (g # None => q \in X /\ z \in X)
    BY <1>0, <2>2, <2>4, <2>5, <2>7 DEF D!Found, Findings
  <2>. QED BY <2>6, <2>8
<1>3. PICK next : next = [p \in Seq(X) \X (1..n) |-> p[1] \o D!HostsOf(p[2])]
  OBVIOUS
<1>4. IsTurn(next, Seq(X), n)
  <2>1. \A p \in Seq(X) \X (1..n) : p[1] \o D!HostsOf(p[2]) \in Seq(X)
    <3>1. ASSUME NEW y \in Seq(X), NEW i \in 1..n PROVE y \o D!HostsOf(i) \in Seq(X)
      BY <1>2
    <3>. QED BY <3>1
  <2>. QED BY <1>3, <2>1 DEF IsTurn
<1>5. << >> \in Seq(X)
  OBVIOUS
<1>6. PICK f : Turned(f, Seq(X), n, << >>, next)
  BY <1>4, <1>5, Turns
<1>7. \A i \in 1..n : next[<<f[i - 1], i>>] = f[i - 1] \o D!HostsOf(i)
  BY <1>3, <1>6 DEF Turned
<1>8. WaiterRun(f, n)
  <2>1. \A i \in 0..n : i = 0 \/ i \in 1..n
    OBVIOUS
  <2>2. f = [i \in 0..n |-> IF i = 0 THEN << >> ELSE f[i - 1] \o D!HostsOf(i)]
    BY <1>6, <1>7, <2>1 DEF Turned
  <2>. QED BY <2>2 DEF WaiterRun
<1>9. PICK h : h = CHOOSE y : WaiterRun(y, n)
  OBVIOUS
<1>10. WaiterRun(h, n)
  BY <1>8, <1>9, Zenon
<1>11. D!WaiterHosts = h[n]
  BY <1>1, <1>9, Zenon DEF D!WaiterHosts, WaiterRun
<1>12. h[0] = << >> /\ \A i \in 1..n : h[i] = h[i - 1] \o D!HostsOf(i)
  <2>1. 0 \in 0..n /\ \A i \in 1..n : i \in 0..n /\ i # 0
    OBVIOUS
  <2>. QED BY <1>10, <2>1 DEF WaiterRun
<1> DEFINE Good == {i \in 0..n : h[i] \in Seq(X)}
<1>13. 0 \in Good
  <2>1. 0 \in 0..n /\ h[0] \in Seq(X)
    BY <1>5, <1>12
  <2>. QED BY <2>1
<1>14. ASSUME NEW i \in 0..(n - 1), i \in Good PROVE i + 1 \in Good
  <2>1. PICK x : x = i + 1
    OBVIOUS
  <2>2. x \in 1..n /\ x \in 0..n /\ x - 1 = i
    BY <2>1
  <2>3. h[x] = h[i] \o D!HostsOf(x) /\ h[i] \in Seq(X) /\ D!HostsOf(x) \in Seq(X)
    BY <1>2, <1>12, <1>14, <2>2
  <2>4. h[x] \in Seq(X)
    BY <2>3
  <2>. QED BY <2>1, <2>2, <2>4
<1>15. h[n] \in Seq(X)
  <2>. HIDE DEF Good
  <2>1. \A i \in 0..n : i \in Good
    BY <1>13, <1>14, UpTo
  <2>2. n \in Good
    BY <2>1
  <2>. QED BY <2>2 DEF Good
<1>. QED BY <1>0, <1>11, <1>15

\* w is s and t, one after the other.
Join(V, w, s, t, m, n, l) ==
  /\ w \in Seq(V) /\ Len(w) = l
  /\ \A i \in 1..m : w[i] = s[i]
  /\ \A i \in 1..n : m + i \in 1..l /\ w[m + i] = t[i]
  /\ \A i \in 1..l : i \in 1..m \/ \E j \in 1..n : i = m + j

\* What is found in one channel and then in the other is of both.
LEMMA Joined ==
  ASSUME NEW V, NEW s \in Seq(V), NEW t \in Seq(V), NEW w, w = s \o t,
         NEW m \in Nat, NEW n \in Nat, m = Len(s), n = Len(t), NEW l, l = m + n
  PROVE  Join(V, w, s, t, m, n, l)
<1>1. w \in Seq(V) /\ Len(w) = l /\ \A i \in 1..m : w[i] = s[i]
  OBVIOUS
<1>2. \A i \in 1..n : m + i \in 1..l /\ w[m + i] = t[i]
  OBVIOUS
<1>3. ASSUME NEW i \in 1..l, i \notin 1..m PROVE \E j \in 1..n : i = m + j
  <2>1. i - m \in 1..n /\ i = m + (i - m)
    BY <1>3
  <2>. QED BY <2>1
<1>. QED BY <1>1, <1>2, <1>3 DEF Join

\* Of the channels ch: the first n findings are those of the pool and of the
\* registry, the first m those the kernel vouches for.
Heard(ch, n, m) ==
  /\ ch \in Seq(Findings) /\ n \in Nat /\ m \in n..Len(ch)
  /\ \A i \in 1..m : OfKernel(ch[i])
  /\ \A i \in 1..n : ch[i].name \in {None, "registered"}
  /\ \A i \in (m + 1)..Len(ch) : ch[i].source \notin KernelSources
  /\ \A o \in live : \/ \E j \in 1..Slots : registry[j] = o \/ pool[j] = o
                     \/ \E i \in DOMAIN active : active[i] = o
                     => \E i \in 1..m : ch[i].address = o
  /\ \A j \in 1..Slots : registry[j] # D!Unused =>
       \E i \in 1..n : ch[i].address = registry[j] /\ ch[i].name = "registered"

\* All channels, in the order they are heard: the kernel's own first.
LEMMA ChannelsAre ==
  ASSUME D!DiscoveryAssumption, HandlesSound
  PROVE  \E n, m : Heard(D!Channels, n, m)
<1>1. PICK p, r, a, s, w : p = D!PoolObjects /\ r = D!RegistryEntries /\ a = D!ActiveTimers
                           /\ s = D!StaticSymbols /\ w = D!WaiterHosts
  OBVIOUS
<1>2. PICK P0, R0, A0, S0, W0 :
        /\ P0 = {e \in Findings : e.source = "mpu-pool" /\ e.name = None /\ OfKernel(e)}
        /\ R0 = {e \in Findings : e.source = "registry" /\ e.name = "registered" /\ OfKernel(e)}
        /\ A0 = {e \in Findings : e.source = "active" /\ OfKernel(e)}
        /\ S0 = {e \in Findings : e.source = "symbol"} /\ W0 = {e \in Findings : e.source = "waiter"}
  OBVIOUS
<1>3. p \in Seq(P0) /\ r \in Seq(R0) /\ a \in Seq(A0) /\ s \in Seq(S0) /\ w \in Seq(W0)
  BY <1>1, <1>2, PoolFindings, RegistryFindings, ActiveFindings, SymbolFindings, WaiterFindings
<1>4. /\ P0 \subseteq Findings /\ R0 \subseteq Findings /\ A0 \subseteq Findings
      /\ S0 \subseteq Findings /\ W0 \subseteq Findings
  BY <1>2
<1>5. p \in Seq(Findings) /\ r \in Seq(Findings) /\ a \in Seq(Findings) /\ s \in Seq(Findings) /\ w \in Seq(Findings)
  BY <1>3, <1>4
<1>6. PICK lp, lr, la, ls, lw : lp = Len(p) /\ lr = Len(r) /\ la = Len(a) /\ ls = Len(s) /\ lw = Len(w)
  OBVIOUS
<1>7. /\ lp \in Nat /\ lr \in Nat /\ la \in Nat /\ ls \in Nat /\ lw \in Nat
      /\ DOMAIN p = 1..lp /\ DOMAIN r = 1..lr /\ DOMAIN a = 1..la
      /\ \A i \in 1..lp : p[i] \in P0
      /\ \A i \in 1..lr : r[i] \in R0
      /\ \A i \in 1..la : a[i] \in A0
      /\ \A i \in 1..ls : s[i] \in S0
      /\ \A i \in 1..lw : w[i] \in W0
  BY <1>3, <1>6
<1>8. PICK pr, pra, pras, ch : pr = p \o r /\ pra = pr \o a /\ pras = pra \o s /\ ch = pras \o w
  OBVIOUS
<1>9. PICK n, m, k, l : n = lp + lr /\ m = n + la /\ k = m + ls /\ l = k + lw
  OBVIOUS
<1>10. n \in Nat /\ m \in Nat /\ k \in Nat /\ l \in Nat /\ n <= m /\ m <= k /\ k <= l
  BY <1>7, <1>9
<1>11. Join(Findings, pr, p, r, lp, lr, n)
  BY <1>5, <1>6, <1>7, <1>8, <1>9, Joined
<1>12. Join(Findings, pra, pr, a, n, la, m)
  <2>1. pr \in Seq(Findings) /\ Len(pr) = n
    BY <1>11 DEF Join
  <2>. QED BY <1>5, <1>6, <1>7, <1>8, <1>9, <1>10, <2>1, Joined
<1>13. Join(Findings, pras, pra, s, m, ls, k)
  <2>1. pra \in Seq(Findings) /\ Len(pra) = m
    BY <1>12 DEF Join
  <2>. QED BY <1>5, <1>6, <1>7, <1>8, <1>9, <1>10, <2>1, Joined
<1>14. Join(Findings, ch, pras, w, k, lw, l)
  <2>1. pras \in Seq(Findings) /\ Len(pras) = k
    BY <1>13 DEF Join
  <2>. QED BY <1>5, <1>6, <1>7, <1>8, <1>9, <1>10, <2>1, Joined
<1>15. /\ \A i \in 1..n : i \in 1..m /\ i \in 1..k
       /\ \A i \in 1..m : i \in 1..k
       /\ \A i \in 1..lp : i \in 1..n
  BY <1>7, <1>9, <1>10
<1>16. /\ \A i \in 1..lp : ch[i] = p[i]
       /\ \A i \in 1..lr : ch[lp + i] = r[i]
       /\ \A i \in 1..la : ch[n + i] = a[i]
       /\ \A i \in 1..ls : ch[m + i] = s[i]
  <2>1. \A i \in 1..k : ch[i] = pras[i]
    BY <1>14 DEF Join
  <2>2. \A i \in 1..m : ch[i] = pra[i]
    BY <1>13, <1>15, <2>1 DEF Join
  <2>3. \A i \in 1..n : ch[i] = pr[i]
    BY <1>12, <1>15, <2>2 DEF Join
  <2>4. \A i \in 1..lp : ch[i] = p[i]
    BY <1>11, <1>15, <2>3 DEF Join
  <2>5. \A i \in 1..lr : ch[lp + i] = r[i]
    BY <1>11, <2>3 DEF Join
  <2>6. \A i \in 1..la : ch[n + i] = a[i]
    BY <1>12, <2>2 DEF Join
  <2>7. \A i \in 1..ls : ch[m + i] = s[i]
    BY <1>13, <2>1 DEF Join
  <2>. QED BY <2>4, <2>5, <2>6, <2>7
<1>17. ASSUME NEW i \in 1..n PROVE OfKernel(ch[i]) /\ ch[i].name \in {None, "registered"}
  <2>1. CASE i \in 1..lp
    BY <1>2, <1>7, <1>16, <2>1
  <2>2. CASE \E j \in 1..lr : i = lp + j
    <3>1. PICK j \in 1..lr : i = lp + j
      BY <2>2
    <3>2. ch[i] = r[j] /\ r[j] \in R0
      BY <1>7, <1>16, <3>1
    <3>. QED BY <1>2, <3>2
  <2>. QED BY <1>11, <2>1, <2>2 DEF Join
<1>18. ASSUME NEW i \in 1..m PROVE OfKernel(ch[i])
  <2>1. CASE \E j \in 1..la : i = n + j
    <3>1. PICK j \in 1..la : i = n + j
      BY <2>1
    <3>. QED BY <1>2, <1>7, <1>16, <3>1
  <2>. QED BY <1>12, <1>17, <2>1 DEF Join
<1>19. ASSUME NEW i \in (m + 1)..l PROVE ch[i].source \notin KernelSources
  <2>1. i \in 1..l /\ i \notin 1..m
    BY <1>10
  <2>2. CASE \E j \in 1..ls : i = m + j
    <3>1. PICK j \in 1..ls : i = m + j
      BY <2>2
    <3>2. ch[i].source = "symbol"
      BY <1>2, <1>7, <1>16, <3>1
    <3>. QED BY <3>2 DEF KernelSources
  <2>3. CASE \E j \in 1..lw : i = k + j
    <3>1. PICK j \in 1..lw : i = k + j
      BY <2>3
    <3>2. ch[i].source = "waiter"
      BY <1>2, <1>7, <1>14, <3>1 DEF Join
    <3>. QED BY <3>2 DEF KernelSources
  <2>. QED BY <1>13, <1>14, <2>1, <2>2, <2>3 DEF Join
<1>20. ASSUME NEW j \in 1..Slots, registry[j] # D!Unused
       PROVE  \E i \in 1..n : ch[i].address = registry[j] /\ ch[i].name = "registered"
  <2>1. PICK i \in 1..lr : r[i].address = registry[j]
    BY <1>1, <1>7, <1>20, RegistryFindings
  <2>2. lp + i \in 1..n /\ ch[lp + i] = r[i] /\ r[i].name = "registered"
    BY <1>2, <1>7, <1>11, <1>16 DEF Join
  <2>. QED BY <2>1, <2>2
<1>21. ASSUME NEW o \in live, \/ \E j \in 1..Slots : registry[j] = o \/ pool[j] = o
                              \/ \E i \in DOMAIN active : active[i] = o
       PROVE  \E i \in 1..m : ch[i].address = o
  <2>1. ASSUME NEW j \in 1..Slots, registry[j] = o PROVE \E i \in 1..m : ch[i].address = o
    <3>1. o # D!Unused
      BY PlacesApart DEF HandlesSound, D!TypeOK, D!Address
    <3>2. PICK i \in 1..n : ch[i].address = o
      BY <1>20, <2>1, <3>1
    <3>. QED BY <1>15, <3>2
  <2>2. ASSUME NEW j \in 1..Slots, pool[j] = o PROVE \E i \in 1..m : ch[i].address = o
    <3>1. PICK i \in 1..lp : p[i].address = o
      BY <1>1, <1>7, <2>2, PoolFindings
    <3>. QED BY <1>15, <1>16, <3>1
  <2>3. ASSUME NEW i \in DOMAIN active, active[i] = o PROVE \E x \in 1..m : ch[x].address = o
    <3>1. i \in 1..la /\ a[i].address = o
      BY <1>1, <1>7, <2>3, ActiveFindings
    <3>2. n + i \in 1..m /\ ch[n + i] = a[i]
      BY <1>12, <1>16, <3>1 DEF Join
    <3>. QED BY <3>1, <3>2
  <2>. QED BY <1>21, <2>1, <2>2, <2>3
<1>22. D!Channels = ch
  BY <1>1, <1>8 DEF D!Channels
<1>23. m \in n..Len(ch)
  BY <1>10, <1>14 DEF Join
<1>24. Heard(ch, n, m)
  BY <1>10, <1>14, <1>17, <1>18, <1>19, <1>20, <1>21, <1>23 DEF Heard, Join
<1>. QED BY <1>22, <1>24

-----------------------------------------------------------------------------
\* The kernel keeps its handles so.
LEMMA SlotIs ==
  ASSUME NEW W \in SUBSET (1..Slots), W # {}, Slots \in Nat
  PROVE  D!Least(W) \in W
<1>1. W \in SUBSET Nat
  OBVIOUS
<1>2. \E i \in W : \A j \in W : i <= j
  BY <1>1, P!LeastIsLeast
<1>. QED BY <1>2 DEF D!Least

\* A timer stopped or deleted leaves the active list, and no other does.
LEMMA ActiveWithout ==
  ASSUME HandlesSound, NEW o, NEW w, w = D!Without(active, {o})
  PROVE  w \in Seq({q \in live \ {o} : memory[q] = "timer"})
<1>1. PICK V : V = {q \in live : memory[q] = "timer"}
  OBVIOUS
<1>2. active \in Seq(V)
  BY <1>1 DEF HandlesSound
<1>3. w \in Seq(V \ {o})
  BY <1>2, WithoutIs
<1>4. V \ {o} = {q \in live \ {o} : memory[q] = "timer"}
  BY <1>1
<1>. QED BY <1>3, <1>4

\* Nothing is kept at first.
LEMMA HandlesInit == ASSUME D!DiscoveryAssumption, D!Init PROVE HandlesSound
<1>1. D!TypeOK
  <2>1. memory \in [D!Address -> D!Contents]
    BY DEF D!Init, D!Contents, D!AllKinds, D!QueueFamily
  <2>2. /\ registry \in [1..Slots -> Obj \cup {D!Unused}]
        /\ pool \in [1..Slots -> Obj \cup {D!Unused, D!Reserved}]
    BY DEF D!Init
  <2>3. variable \in [DOMAIN Declared -> Obj \cup 0..Slots]
    BY DEF D!Init, D!Unused, D!DiscoveryAssumption
  <2>4. active \in Seq(live) /\ waits \in [1..Tasks -> [host : live \cup {None}, ghost : D!Address \cup {None}]]
    BY DEF D!Init
  <2>5. image \in Images /\ live \subseteq Obj
    BY DEF D!Init
  <2>. QED BY <2>1, <2>2, <2>3, <2>4, <2>5 DEF D!TypeOK
<1>2. << >> \in Seq({o \in live : memory[o] = "timer"})
  OBVIOUS
<1>. QED BY <1>1, <1>2 DEF HandlesSound, D!Init

\* A new object is of the kind its keepers are for.
LEMMA CreateKeeps ==
  ASSUME D!DiscoveryAssumption, HandlesSound, NEW o \in Obj, NEW k \in Kinds, NEW i \in 0..Len(Declared),
         D!Create(o, k, i)
  PROVE  HandlesSound'
<1>1. /\ Slots \in Nat /\ k \in D!AllKinds /\ k \in D!Contents /\ o \in D!Address /\ o \notin live
      /\ memory' = [memory EXCEPT ![o] = k] /\ live' = live \cup {o}
      /\ UNCHANGED <<image, registry, active, waits, cache>>
  BY DEF D!Create, D!DiscoveryAssumption, D!Contents, D!Address
<1>2. PICK n : /\ n = IF ~image.mpu THEN o ELSE D!Least({j \in 1..Slots : pool[j] = D!Reserved})
               /\ pool' = IF image.mpu THEN [pool EXCEPT ![n] = o] ELSE pool
               /\ variable' = IF i \in DOMAIN Declared THEN [variable EXCEPT ![i] = n] ELSE variable
               /\ image.mpu => \E j \in 1..Slots : pool[j] = D!Reserved
  BY DEF D!Create
<1>3. image.mpu => n \in 1..Slots
  <2>1. ASSUME image.mpu PROVE n \in {j \in 1..Slots : pool[j] = D!Reserved}
    BY <1>1, <1>2, <2>1, SlotIs
  <2>. QED BY <2>1
<1>4. D!TypeOK
  BY DEF HandlesSound
<1>5. memory' \in [D!Address -> D!Contents] /\ memory'[o] = k /\ \A a \in D!Address \ {o} : memory'[a] = memory[a]
  BY <1>1, <1>4 DEF D!TypeOK
<1>6. /\ pool' \in [1..Slots -> Obj \cup {D!Unused, D!Reserved}]
      /\ \A j \in 1..Slots : pool'[j] = pool[j] \/ (image.mpu /\ pool'[j] = o)
  BY <1>2, <1>3, <1>4 DEF D!TypeOK
<1>7. /\ variable' \in [DOMAIN Declared -> Obj \cup 0..Slots]
      /\ \A j \in DOMAIN Declared : variable'[j] = variable[j] \/ variable'[j] = n
  BY <1>1, <1>2, <1>3, <1>4, ImageIs DEF D!TypeOK
<1>8. PICK V, W : V = {q \in live : memory[q] = "timer"} /\ W = {q \in live' : memory'[q] = "timer"}
  OBVIOUS
<1>9. V \subseteq W /\ V \subseteq live /\ live \subseteq Obj
  BY <1>1, <1>4, <1>5, <1>8 DEF D!TypeOK, D!Address
<1>10. active' \in Seq(W) /\ active' \in Seq(live')
  <2>1. active \in Seq(V)
    BY <1>8 DEF HandlesSound
  <2>2. active \in Seq(W)
    BY <1>9, <2>1
  <2>3. V \subseteq live'
    BY <1>1, <1>9
  <2>. QED BY <1>1, <2>1, <2>2, <2>3
<1>11. D!TypeOK'
  BY <1>1, <1>4, <1>5, <1>6, <1>7, <1>10 DEF D!TypeOK
<1>12. \A q \in live' : memory'[q] \in D!AllKinds
  BY <1>1, <1>5, <1>9 DEF HandlesSound, D!Address
<1>13. \A j \in 1..Slots : registry'[j] # D!Unused =>
         image'.registry /\ registry'[j] \in live' /\ memory'[registry'[j]] \in D!QueueFamily
  BY <1>1, <1>5, <1>9 DEF HandlesSound, D!Address
<1>14. \A j \in 1..Slots : pool'[j] # D!Unused => image'.mpu /\ pool'[j] \in live' \cup {D!Reserved}
  BY <1>1, <1>6 DEF HandlesSound
<1>15. ~image'.mpu => \A j \in DOMAIN Declared : variable'[j] \in Obj \cup {D!Unused}
  BY <1>1, <1>2, <1>7 DEF HandlesSound
<1>. QED BY <1>1, <1>8, <1>10, <1>11, <1>12, <1>13, <1>14, <1>15 DEF HandlesSound

\* A deleted one leaves every keeper.
LEMMA DeleteKeeps ==
  ASSUME D!DiscoveryAssumption, HandlesSound, NEW o \in Obj, D!Delete(o)
  PROVE  HandlesSound'
<1>1. /\ o \in live /\ live' = live \ {o} /\ \A t \in 1..Tasks : waits[t].host # o
      /\ registry' = [j \in 1..Slots |-> IF registry[j] = o THEN D!Unused ELSE registry[j]]
      /\ pool' = [j \in 1..Slots |-> IF pool[j] = o THEN D!Unused ELSE pool[j]]
      /\ active' = D!Without(active, {o})
      /\ UNCHANGED <<image, memory, variable, waits, cache>>
  BY DEF D!Delete
<1>2. D!TypeOK
  BY DEF HandlesSound
<1>3. PICK W : W = {q \in live' : memory'[q] = "timer"}
  OBVIOUS
<1>4. active' \in Seq(W) /\ W \subseteq live'
  <2>1. W = {q \in live \ {o} : memory[q] = "timer"}
    BY <1>1, <1>3
  <2>. QED BY <1>1, <1>3, <2>1, ActiveWithout
<1>5. /\ registry' \in [1..Slots -> Obj \cup {D!Unused}]
      /\ \A j \in 1..Slots : registry'[j] = D!Unused \/ (registry'[j] = registry[j] /\ registry[j] # o)
  BY <1>1, <1>2 DEF D!TypeOK
<1>6. /\ pool' \in [1..Slots -> Obj \cup {D!Unused, D!Reserved}]
      /\ \A j \in 1..Slots : pool'[j] = D!Unused \/ (pool'[j] = pool[j] /\ pool[j] # o)
  BY <1>1, <1>2 DEF D!TypeOK
<1>7. waits' \in [1..Tasks -> [host : live' \cup {None}, ghost : D!Address \cup {None}]]
  BY <1>1, <1>2 DEF D!TypeOK
<1>8. active' \in Seq(live')
  BY <1>4
<1>9. D!TypeOK'
  BY <1>1, <1>2, <1>5, <1>6, <1>7, <1>8 DEF D!TypeOK
<1>. QED BY <1>1, <1>3, <1>4, <1>5, <1>6, <1>9 DEF HandlesSound

\* A slot of the registry gets a member of the queue family, or is emptied.
LEMMA RegistryKeeps ==
  ASSUME D!DiscoveryAssumption, HandlesSound, NEW o \in Obj, D!Register(o) \/ D!Unregister(o)
  PROVE  HandlesSound'
<1>1. D!TypeOK /\ Slots \in Nat
  BY DEF HandlesSound, D!DiscoveryAssumption
<1>2. UNCHANGED <<image, memory, live, pool, variable, active, waits, cache>>
  BY DEF D!Register, D!Unregister
<1>3. /\ registry' \in [1..Slots -> Obj \cup {D!Unused}]
      /\ \A j \in 1..Slots : \/ registry'[j] \in {D!Unused, registry[j]}
                             \/ registry'[j] = o /\ o \in live /\ image.registry /\ memory[o] \in D!QueueFamily
  <2>1. CASE D!Register(o)
    <3>1. PICK n : n = D!Least({j \in 1..Slots : registry[j] = D!Unused})
      OBVIOUS
    <3>2. /\ image.registry /\ o \in live /\ memory[o] \in D!QueueFamily
          /\ registry' = [registry EXCEPT ![n] = o]
      BY <2>1, <3>1 DEF D!Register
    <3>. QED BY <1>1, <3>2 DEF D!TypeOK
  <2>2. CASE D!Unregister(o)
    <3>1. registry' = [j \in 1..Slots |-> IF registry[j] = o THEN D!Unused ELSE registry[j]]
      BY <2>2 DEF D!Unregister
    <3>. QED BY <1>1, <3>1 DEF D!TypeOK
  <2>. QED BY <2>1, <2>2
<1>4. D!TypeOK'
  BY <1>1, <1>2, <1>3 DEF D!TypeOK
<1>. QED BY <1>2, <1>3, <1>4 DEF HandlesSound

\* Starting or stopping a timer moves it on the active list alone.
LEMMA TimersKeep ==
  ASSUME D!DiscoveryAssumption, HandlesSound, NEW o \in Obj, D!StartTimer(o) \/ D!StopTimer(o)
  PROVE  HandlesSound'
<1>1. UNCHANGED <<image, memory, live, registry, pool, variable, waits, cache>>
  BY DEF D!StartTimer, D!StopTimer
<1>2. PICK V, W : V = {q \in live : memory[q] = "timer"} /\ W = V \ {o}
  OBVIOUS
<1>3. active' \in Seq(V)
  <2>1. CASE D!StartTimer(o)
    <3>1. active' = Append(active, o) /\ o \in V /\ active \in Seq(V)
      BY <1>2, <2>1 DEF D!StartTimer, HandlesSound
    <3>. QED BY <3>1
  <2>2. CASE D!StopTimer(o)
    <3>1. PICK w : w = D!Without(active, {o})
      OBVIOUS
    <3>2. active' = w
      BY <2>2, <3>1 DEF D!StopTimer
    <3>3. w \in Seq({q \in live \ {o} : memory[q] = "timer"})
      BY <3>1, ActiveWithout
    <3>4. {q \in live \ {o} : memory[q] = "timer"} = W
      BY <1>2
    <3>5. w \in Seq(W) /\ W \subseteq V
      BY <1>2, <3>3, <3>4
    <3>. QED BY <3>2, <3>5
  <2>. QED BY <2>1, <2>2
<1>4. active' \in Seq(live)
  BY <1>2, <1>3
<1>5. D!TypeOK'
  BY <1>1, <1>4 DEF HandlesSound, D!TypeOK
<1>. QED BY <1>1, <1>2, <1>3, <1>5 DEF HandlesSound

\* A task that blocks or wakes changes no handle.
LEMMA WaitsKeep ==
  ASSUME D!DiscoveryAssumption, HandlesSound, NEW t \in 1..Tasks,
         D!Unblock(t) \/ \E o \in Obj, g \in D!Address \cup {None} : D!Block(t, o, g)
  PROVE  HandlesSound'
<1>1. UNCHANGED <<image, memory, live, registry, pool, variable, active, cache>>
  BY DEF D!Unblock, D!Block
<1>2. PICK h \in live \cup {None}, g \in D!Address \cup {None} :
        waits' = [waits EXCEPT ![t] = [host |-> h, ghost |-> g]]
  BY DEF D!Unblock, D!Block
<1>3. waits' \in [1..Tasks -> [host : live \cup {None}, ghost : D!Address \cup {None}]]
  BY <1>2 DEF HandlesSound, D!TypeOK
<1>4. D!TypeOK'
  BY <1>1, <1>3 DEF HandlesSound, D!TypeOK
<1>. QED BY <1>1, <1>4 DEF HandlesSound

\* A slot reserved holds no handle.
LEMMA ReserveKeeps ==
  ASSUME D!DiscoveryAssumption, HandlesSound, D!Reserve PROVE HandlesSound'
<1>1. UNCHANGED <<image, memory, live, registry, variable, active, waits, cache>> /\ image.mpu
  BY DEF D!Reserve
<1>2. PICK n : n = D!Least({j \in 1..Slots : pool[j] = D!Unused})
  OBVIOUS
<1>3. pool' = [pool EXCEPT ![n] = D!Reserved]
  BY <1>2 DEF D!Reserve
<1>4. /\ pool' \in [1..Slots -> Obj \cup {D!Unused, D!Reserved}]
      /\ \A j \in 1..Slots : pool'[j] \in {pool[j], D!Reserved}
  BY <1>3 DEF HandlesSound, D!TypeOK
<1>5. D!TypeOK'
  BY <1>1, <1>4 DEF HandlesSound, D!TypeOK
<1>. QED BY <1>1, <1>4, <1>5 DEF HandlesSound

\* A command caches symbols it read in place; a reset drops them.
LEMMA CacheKeeps ==
  ASSUME D!DiscoveryAssumption, HandlesSound, D!Command \/ D!Reset PROVE HandlesSound'
<1>1. UNCHANGED <<image, memory, live, registry, pool, variable, active, waits>>
  BY DEF D!Command, D!Reset, D!targetVars
<1>2. cache' = None \/ cache' \in Seq({e \in Findings : e.source = "symbol"})
  BY SymbolFindings DEF D!Command, D!Reset
<1>3. D!TypeOK'
  BY <1>1 DEF HandlesSound, D!TypeOK
<1>. QED BY <1>1, <1>2, <1>3 DEF HandlesSound

\* Every step keeps the handles sound.
LEMMA HandlesStep == ASSUME D!DiscoveryAssumption, HandlesSound, D!Next PROVE HandlesSound'
<1>1. ASSUME NEW o \in Obj, NEW k \in Kinds, NEW i \in 0..Len(Declared), D!Create(o, k, i) PROVE HandlesSound'
  BY <1>1, CreateKeeps
<1>2. ASSUME NEW o \in Obj, D!Delete(o) \/ D!Register(o) \/ D!Unregister(o) \/ D!StartTimer(o) \/ D!StopTimer(o)
      PROVE  HandlesSound'
  BY <1>2, DeleteKeeps, RegistryKeeps, TimersKeep
<1>3. ASSUME NEW t \in 1..Tasks, D!Unblock(t) \/ \E o \in Obj, g \in D!Address \cup {None} : D!Block(t, o, g)
      PROVE  HandlesSound'
  BY <1>3, WaitsKeep
<1>4. CASE D!Reserve \/ D!Command \/ D!Reset
  BY <1>4, ReserveKeeps, CacheKeeps
<1>. QED BY <1>1, <1>2, <1>3, <1>4 DEF D!Next

-----------------------------------------------------------------------------
\* What the channels hear, discovery shows.
Shown(all, ch, n, m) ==
  /\ all = D!DiscoverAll(ch) /\ ch = D!Channels /\ Heard(ch, n, m) /\ GroupsAre(all, ch, Len(ch))

\* The rows are those of the findings of all channels.
LEMMA ShownIs ==
  ASSUME D!DiscoveryAssumption, HandlesSound
  PROVE  \E all, ch, n, m : Shown(all, ch, n, m)
<1>1. PICK ch : ch = D!Channels
  OBVIOUS
<1>2. PICK n, m : Heard(ch, n, m)
  BY <1>1, ChannelsAre
<1>3. ch \in Seq(Findings) /\ Len(ch) \in Nat
  BY <1>2 DEF Heard
<1>4. PICK l \in Nat : l = Len(ch)
  BY <1>3
<1>5. PICK g : /\ D!DiscoverAll(ch) = g[l] /\ \A i \in 0..l : GroupsAre(g[i], ch, i)
  BY <1>3, <1>4, GroupsFound, ImageIs
<1>6. PICK all : all = D!DiscoverAll(ch)
  OBVIOUS
<1>7. GroupsAre(all, ch, l)
  BY <1>4, <1>5, <1>6
<1>. QED BY <1>1, <1>2, <1>4, <1>6, <1>7 DEF Shown

\* Tables and summary agree, and every row is a place.
LEMMA SoundTables ==
  ASSUME D!DiscoveryAssumption, HandlesSound
  PROVE  D!TypeOK /\ D!TablesAgree /\ D!RowsArePlaces
<1>1. PICK all, ch, n, m : Shown(all, ch, n, m)
  BY ShownIs
<1>2. /\ all = D!DiscoverAll(ch) /\ ch = D!Channels /\ Heard(ch, n, m) /\ GroupsAre(all, ch, Len(ch))
      /\ ch \in Seq(Findings)
  BY <1>1 DEF Shown, Heard
<1>3. D!TypeOK
  BY DEF HandlesSound
<1>4. D!TablesAgree
  <2>1. \A k \in D!AllKinds : D!Discover(k, ch) = all[k]
    BY <1>2, SameRows, ImageIs
  <2>. QED BY <1>2, <2>1 DEF D!TablesAgree
<1>5. ASSUME NEW r \in D!Rows(all)
      PROVE  r.address \in D!Address /\ (r.source \in KernelSources => r.address \in live)
  <2>1. PICK k \in D!AllKinds : \E i \in DOMAIN all[k] : r = all[k][i]
    BY DEF D!Rows
  <2>2. PICK i \in DOMAIN all[k] : r = all[k][i]
    BY <2>1
  <2>3. r \in Findings /\ RowIs(r, k, ch, Len(ch))
    BY <1>2, <2>2 DEF GroupsAre
  <2>4. PICK x \in 1..Len(ch) : ch[x].address = r.address /\ ch[x].source = r.source
    BY <2>3 DEF RowIs, FoundFirst
  <2>5. r.address \in D!Address
    BY <2>3 DEF Findings
  <2>6. ASSUME r.source \in KernelSources PROVE r.address \in live
    <3>1. n \in Nat /\ m \in n..Len(ch) /\ Len(ch) \in Nat
      BY <1>2 DEF Heard
    <3>2. x \in 1..m
      <4>1. x \notin (m + 1)..Len(ch)
        BY <1>2, <2>4, <2>6 DEF Heard
      <4>. QED BY <3>1, <4>1
    <3>. QED BY <1>2, <2>4, <3>2 DEF Heard, OfKernel
  <2>. QED BY <2>5, <2>6
<1>6. D!RowsArePlaces
  BY <1>2, <1>5 DEF D!RowsArePlaces, KernelSources
<1>. QED BY <1>3, <1>4, <1>6

\* What the kernel vouches for is found under its kind, in one row.
LEMMA SoundRows ==
  ASSUME D!DiscoveryAssumption, HandlesSound PROVE D!FoundAsItIs
<1>1. PICK all, ch, n, m : Shown(all, ch, n, m)
  BY ShownIs
<1>2. /\ all = D!DiscoverAll(ch) /\ ch = D!Channels /\ Heard(ch, n, m) /\ GroupsAre(all, ch, Len(ch))
  BY <1>1 DEF Shown
<1>3. n \in Nat /\ m \in n..Len(ch) /\ Len(ch) \in Nat
  BY <1>2 DEF Heard
<1>4. ASSUME NEW o \in live, \/ \E j \in 1..Slots : registry[j] = o \/ pool[j] = o
                             \/ \E i \in DOMAIN active : active[i] = o
      PROVE  /\ \E i \in DOMAIN all[memory[o]] : all[memory[o]][i].address = o
             /\ \A r, s \in D!Rows(all) : r.address = o /\ s.address = o => r = s
  <2>1. PICK x \in 1..m : ch[x].address = o
    BY <1>2, <1>4 DEF Heard
  <2>2. x \in 1..Len(ch)
    BY <1>3
  <2>3. PICK k \in D!AllKinds : \E i \in DOMAIN all[k] : all[k][i].address = o
    BY <1>2, <2>1, <2>2 DEF GroupsAre
  <2>4. PICK i \in DOMAIN all[k] : all[k][i].address = o
    BY <2>3
  <2>5. PICK r : r = all[k][i]
    OBVIOUS
  <2>6. RowIs(r, k, ch, Len(ch)) /\ r.address = o
    BY <1>2, <2>4, <2>5 DEF GroupsAre
  <2>7. PICK y \in 1..Len(ch) : /\ \A j \in 1..(y - 1) : ch[j].address # ch[y].address
                                /\ ch[y].address = o /\ D!Refine(ch[y]).kind = k
    BY <2>6 DEF RowIs, FoundFirst
  <2>8. y \in 1..m
    <3>1. x \notin 1..(y - 1)
      BY <2>1, <2>7
    <3>. QED BY <1>3, <3>1
  <2>9. k = memory[o]
    BY <1>2, <2>7, <2>8 DEF Heard, OfKernel
  <2>10. \A z \in D!AllKinds : \A j \in DOMAIN all[z] : all[z][j].address = o => z = k /\ j = i
    BY <1>2, <2>4 DEF GroupsAre
  <2>11. ASSUME NEW q \in D!Rows(all), q.address = o PROVE q = r
    <3>1. PICK z \in D!AllKinds : \E j \in DOMAIN all[z] : q = all[z][j]
      BY DEF D!Rows
    <3>2. PICK j \in DOMAIN all[z] : q = all[z][j]
      BY <3>1
    <3>3. z = k /\ j = i
      BY <2>10, <2>11, <3>2
    <3>. QED BY <2>5, <3>2, <3>3
  <2>. QED BY <2>4, <2>9, <2>11
<1>5. \A o \in live : (o \in {registry[j] : j \in 1..Slots} \/ D!Slot(o) # {} \/ \E i \in DOMAIN active : active[i] = o)
        => \/ \E j \in 1..Slots : registry[j] = o \/ pool[j] = o
           \/ \E i \in DOMAIN active : active[i] = o
  BY DEF D!Slot
<1>. QED BY <1>2, <1>4, <1>5 DEF D!FoundAsItIs

\* With the trace facility a row of the queue family that is shown or checked is
\* of the kind asked for, or of no live object of that family.
IsRow(r) ==
  r = [kind |-> r.kind, address |-> r.address, name |-> r.name, source |-> r.source, extra |-> r.extra,
       inferred |-> r.inferred]

\* So is it by the name of its variable, or by its address, where one is kept.
LEMMA SoundDetails ==
  ASSUME D!DiscoveryAssumption, HandlesSound PROVE D!DetailIsOfItsKind
<1>1. PICK all, ch, n, m : Shown(all, ch, n, m)
  BY ShownIs
<1>2. /\ ch = D!Channels /\ GroupsAre(all, ch, Len(ch)) /\ all = D!DiscoverAll(ch) /\ ch \in Seq(Findings)
  BY <1>1 DEF Shown, Heard
<1>3. ASSUME image.trace, NEW k \in Kinds \cap D!QueueFamily, NEW i \in DOMAIN Declared,
             NEW r \in D!ObjectDetail(k, i, D!Discover(k, ch)) \cup D!CheckedObjects(k, i, D!Discover(k, ch)),
             r.address \in live, memory[r.address] \in D!QueueFamily
      PROVE  memory[r.address] = k
  <2>1. PICK rows : rows = D!Discover(k, ch)
    OBVIOUS
  <2>2. k \in D!AllKinds /\ k \in D!QueueFamily
    BY DEF D!AllKinds
  <2>3. rows = all[k]
    BY <1>2, <2>1, <2>2, SameRows, ImageIs
  <2>4. ASSUME NEW j \in DOMAIN rows PROVE rows[j].kind = k /\ IsRow(rows[j])
    <3>1. rows[j].kind = k /\ rows[j] \in Findings
      BY <1>2, <2>2, <2>3 DEF GroupsAre, RowIs
    <3>. QED BY <3>1 DEF Findings, IsRow
  <2>5. ASSUME NEW e, e = D!ResolveObject(k, i), e # None PROVE e.kind = k /\ IsRow(e)
    BY <2>5 DEF D!ResolveObject, D!Found, IsRow
  <2>6. r \in D!ObjectDetail(k, i, rows) \/ r \in D!CheckedObjects(k, i, rows)
    BY <1>3, <2>1
  <2>7. r.kind = k /\ IsRow(r) /\ (D!Refine(r).kind = k \/ D!Refine(r).inferred)
    <3>1. CASE r \in D!ObjectDetail(k, i, rows)
      <4>1. r = D!FindNamed(k, i, rows) /\ r # None /\ (D!Refine(r).kind = k \/ D!Refine(r).inferred)
        BY <3>1 DEF D!ObjectDetail
      <4>2. PICK named : named = {j \in DOMAIN rows : rows[j].name = Declared[i].symbol}
        OBVIOUS
      <4>3. CASE named = {}
        <5>1. r = D!ResolveObject(k, i)
          BY <4>1, <4>2, <4>3 DEF D!FindNamed
        <5>. QED BY <2>5, <4>1, <5>1
      <4>4. CASE named # {}
        <5>1. r = rows[D!Least(named)]
          BY <4>1, <4>2, <4>4 DEF D!FindNamed
        <5>2. D!Least(named) \in named
          <6>1. rows \in Seq(Findings)
            BY <1>2, <2>2, <2>3 DEF GroupsAre
          <6>2. named \subseteq Nat
            BY <4>2, <6>1
          <6>3. \E x \in named : \A y \in named : x <= y
            BY <4>4, <6>2, P!LeastIsLeast
          <6>. QED BY <6>3 DEF D!Least
        <5>. QED BY <2>4, <4>1, <4>2, <5>1, <5>2
      <4>. QED BY <4>3, <4>4
    <3>2. CASE r \in D!CheckedObjects(k, i, rows)
      <4>1. PICK named, objects :
              /\ named = {rows[j] : j \in {q \in DOMAIN rows : rows[q].name = Declared[i].symbol}}
              /\ objects = IF named # {} THEN named ELSE {D!ResolveObject(k, i)} \ {None}
        OBVIOUS
      <4>2. r \in objects /\ (D!Refine(r).kind = k \/ D!Refine(r).inferred)
        BY <2>2, <3>2, <4>1 DEF D!CheckedObjects
      <4>3. CASE r \in named
        BY <2>4, <4>1, <4>2, <4>3
      <4>4. CASE r = D!ResolveObject(k, i) /\ r # None
        BY <2>5, <4>2, <4>4
      <4>. QED BY <4>1, <4>2, <4>3, <4>4
    <3>. QED BY <2>6, <3>1, <3>2
  <2>8. PICK a : a = r.address
    OBVIOUS
  <2>9. D!Classify(a) = memory[a]
    <3>1. a \in D!Address
      BY <1>3, <2>8 DEF HandlesSound, D!TypeOK, D!Address
    <3>. QED BY <1>3, <2>8, <3>1 DEF D!Classify, D!QueueFamily
  <2>10. D!Refine(r).kind = D!Classify(a) /\ ~D!Refine(r).inferred
    <3>1. PICK x, b : x = D!Classify(a) /\ b = ~image.trace
      OBVIOUS
    <3>2. D!Refine(r) = [r EXCEPT !.kind = x, !.inferred = b]
      BY <2>2, <2>7, <2>8, <3>1 DEF D!Refine
    <3>. QED BY <1>3, <2>7, <3>1, <3>2 DEF IsRow
  <2>. QED BY <2>7, <2>8, <2>9, <2>10
<1>. QED BY <1>2, <1>3 DEF D!DetailIsOfItsKind

\* A registered object has the registry's name: the pool gives none, and no other
\* channel is heard before the registry.
LEMMA SoundNames ==
  ASSUME D!DiscoveryAssumption, HandlesSound PROVE D!NamedByTheKernel
<1>1. PICK all, ch, n, m : Shown(all, ch, n, m)
  BY ShownIs
<1>2. /\ all = D!DiscoverAll(ch) /\ ch = D!Channels /\ Heard(ch, n, m) /\ GroupsAre(all, ch, Len(ch))
  BY <1>1 DEF Shown
<1>3. n \in Nat /\ m \in n..Len(ch) /\ Len(ch) \in Nat
  BY <1>2 DEF Heard
<1>4. ASSUME NEW r \in D!Rows(all), NEW j \in 1..Slots, r.address = registry[j] PROVE r.name = "registered"
  <2>1. PICK k \in D!AllKinds : \E i \in DOMAIN all[k] : r = all[k][i]
    BY DEF D!Rows
  <2>2. r \in Findings /\ RowIs(r, k, ch, Len(ch))
    BY <1>2, <2>1 DEF GroupsAre
  <2>3. registry[j] # D!Unused
    BY <1>4, <2>2, PlacesApart DEF Findings
  <2>4. PICK x \in 1..n : ch[x].address = r.address /\ ch[x].name = "registered"
    BY <1>2, <1>4, <2>3 DEF Heard
  <2>5. x \in 1..Len(ch) /\ "registered" # None
    BY <1>3 DEF D!DiscoveryAssumption
  <2>6. r.name # None
    BY <2>2, <2>4, <2>5 DEF RowIs, NamedFirst
  <2>7. PICK p \in 1..Len(ch) : /\ ch[p].address = r.address /\ ch[p].name = r.name
                                /\ \A q \in 1..(p - 1) : ch[q].address = r.address => ch[q].name = None
    BY <2>2, <2>6 DEF RowIs, NamedFirst
  <2>8. p \in 1..n
    <3>1. x \notin 1..(p - 1)
      BY <2>4, <2>5, <2>7
    <3>. QED BY <1>3, <3>1
  <2>. QED BY <1>2, <2>6, <2>7, <2>8 DEF Heard
<1>. QED BY <1>2, <1>4 DEF D!NamedByTheKernel

HandlesInv == object = "handles" => HandlesSound

\* And so of KernelObjects.
LEMMA HandlesInvInit == ASSUME D!DiscoveryAssumption, Init PROVE HandlesInv
<1> SUFFICES ASSUME object = "handles" PROVE HandlesSound
  BY DEF HandlesInv
<1>1. D!Init
  BY DEF Init
<1>. QED BY <1>1, HandlesInit

\* Another kind of object leaves the handles alone.
LEMMA HandlesInvKept == ASSUME D!DiscoveryAssumption, HandlesInv, [Next]_vars PROVE HandlesInv'
<1> SUFFICES ASSUME object' = "handles" PROVE HandlesSound'
  BY DEF HandlesInv
<1>1. object = "handles" /\ (D!Next \/ UNCHANGED handleVars)
  BY DEF Next, vars
<1>2. HandlesSound
  BY <1>1 DEF HandlesInv
<1>3. CASE D!Next
  BY <1>2, <1>3, HandlesStep
<1>4. CASE UNCHANGED handleVars
  <2>1. UNCHANGED <<image, memory, live, registry, pool, variable, active, waits, cache>>
    BY <1>4 DEF handleVars
  <2>. QED BY <1>2, <2>1 DEF HandlesSound, D!TypeOK
<1>. QED BY <1>1, <1>3, <1>4

\* The invariant of the handles: whatever is created, registered, listed, waited
\* on and deleted, every handle the kernel keeps is of an object there is, and of
\* a kind its keeper holds.
THEOREM HandlesAreSound == Spec => []HandlesInv
<1>1. Init => HandlesInv
  BY HandlesInvInit, ObjectsAssumption
<1>2. HandlesInv /\ [Next]_vars => HandlesInv'
  BY HandlesInvKept, ObjectsAssumption
<1>. QED BY <1>1, <1>2, PTL DEF Spec

\* For any objects, slots, declared variables and images: the table of a kind has
\* the rows of its group in the summary, in the same order, with the same names
\* and channels; and every row is a place.
THEOREM TablesAndSummary == Spec => []TablesAgree
<1>1. HandlesInv => TablesAgree
  BY SoundTables, ObjectsAssumption DEF HandlesInv, TablesAgree
<1>. QED BY <1>1, HandlesAreSound, PTL

\* An object the kernel keeps is found under its kind in one row, whatever
\* dangling variable or mistaken waiter points there; and with the trace facility
\* no detail or check shows an object of another kind.
THEOREM KeptIsFound == Spec => []FoundAsItIs
<1>1. HandlesInv => FoundAsItIs
  BY SoundRows, SoundDetails, ObjectsAssumption DEF HandlesInv, FoundAsItIs
<1>. QED BY <1>1, HandlesAreSound, PTL

\* A registered object goes by its name in the registry.
THEOREM RegistryNames == Spec => []NamedByTheKernel
<1>1. HandlesInv => NamedByTheKernel
  BY SoundNames, ObjectsAssumption DEF HandlesInv, NamedByTheKernel
<1>. QED BY <1>1, HandlesAreSound, PTL

=============================================================================
