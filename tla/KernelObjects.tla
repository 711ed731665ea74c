---------------------------- MODULE KernelObjects ----------------------------
(***************************************************************************)
(* What GDR reads of a kernel, side by side: a queue, a stream buffer, an  *)
(* event group, the software timers, the stacks of the tasks, the task     *)
(* lists, and the objects found from their handles.  A detail or a table   *)
(* is computed from one of these alone, so a behaviour is about one of     *)
(* them, and the state of the others is absent.                            *)
(***************************************************************************)
CONSTANTS Lengths, ItemSizes, Value, Owner, MaxNesting,
          RingLength, PrefixBytes, ByteBase, Triggers,
          TickBits, AppBits, Task,
          Timer, Ticks, Periods, MaxCommands, MaxLag,
          Words, WordBytes, Frame, EdgeBytes,
          None, TaskImages, MaxSlots, TickPeriod, MaxPended,
          Obj, Ghost, Tasks, Slots, Declared, Kinds, Images

VARIABLES object,                                                    \* what the behaviour is about
          queue, bytes, suspended, queueOp, queued,
          buffer, ring, pending, held,
          bits, waiting, asked, walk,
          tick, timer, current, lastTime, lag, commands, hand, expiring, left,
          kernel, stacks,
          taskImage, tcb, running, scheduler, does,
          image, memory, live, registry, pool, variable, active, waits, cache

Q == INSTANCE Queues WITH op <- queueOp, content <- queued
S == INSTANCE StreamBuffers
E == INSTANCE EventGroups
T == INSTANCE Timers
K == INSTANCE Stacks
L == INSTANCE FreeRtosTasks WITH Images <- TaskImages, Ticks <- TickPeriod, image <- taskImage,
                                 current <- running, kernel <- scheduler
D == INSTANCE Discovery

queueVars == <<queue, bytes, suspended, queueOp, queued>>
bufferVars == <<buffer, ring, pending, held>>
groupVars == <<bits, waiting, asked, walk>>
timerVars == <<tick, timer, current, lastTime, lag, commands, hand, expiring, left>>
stackVars == <<kernel, stacks>>
taskVars == <<taskImage, tcb, running, scheduler, does>>
handleVars == <<image, memory, live, registry, pool, variable, active, waits, cache>>

vars == <<object, queueVars, bufferVars, groupVars, timerVars, stackVars, taskVars, handleVars>>

ASSUME ObjectsAssumption ==
  /\ Q!QueueAssumption /\ S!StreamAssumption /\ E!EventAssumption
  /\ T!TimerAssumption /\ K!StackAssumption
  /\ L!TasksAssumption /\ D!DiscoveryAssumption

Absent == "absent"

NoQueue == queue = Absent /\ bytes = Absent /\ suspended = Absent /\ queueOp = Absent /\ queued = Absent
NoBuffer == buffer = Absent /\ ring = Absent /\ pending = Absent /\ held = Absent
NoGroup == bits = Absent /\ waiting = Absent /\ asked = Absent /\ walk = Absent
NoTimers ==
  /\ tick = Absent /\ timer = Absent /\ current = Absent /\ lastTime = Absent /\ lag = Absent
  /\ commands = Absent /\ hand = Absent /\ expiring = Absent /\ left = Absent
NoStacks == kernel = Absent /\ stacks = Absent

NoTasks == taskImage = Absent /\ tcb = Absent /\ running = Absent /\ scheduler = Absent /\ does = Absent
NoHandles ==
  /\ image = Absent /\ memory = Absent /\ live = Absent /\ registry = Absent /\ pool = Absent
  /\ variable = Absent /\ active = Absent /\ waits = Absent /\ cache = Absent

Init ==
  \/ object = "queue" /\ Q!Init /\ NoBuffer /\ NoGroup /\ NoTimers /\ NoStacks /\ NoTasks /\ NoHandles
  \/ object = "buffer" /\ S!Init /\ NoQueue /\ NoGroup /\ NoTimers /\ NoStacks /\ NoTasks /\ NoHandles
  \/ object = "group" /\ E!Init /\ NoQueue /\ NoBuffer /\ NoTimers /\ NoStacks /\ NoTasks /\ NoHandles
  \/ object = "timers" /\ T!Init /\ NoQueue /\ NoBuffer /\ NoGroup /\ NoStacks /\ NoTasks /\ NoHandles
  \/ object = "stacks" /\ K!Init /\ NoQueue /\ NoBuffer /\ NoGroup /\ NoTimers /\ NoTasks /\ NoHandles
  \/ object = "tasks" /\ L!Init /\ NoQueue /\ NoBuffer /\ NoGroup /\ NoTimers /\ NoStacks /\ NoHandles
  \/ object = "handles" /\ D!Init /\ NoQueue /\ NoBuffer /\ NoGroup /\ NoTimers /\ NoStacks /\ NoTasks

Next ==
  \/ object = "queue" /\ Q!Next
     /\ UNCHANGED <<object, bufferVars, groupVars, timerVars, stackVars, taskVars, handleVars>>
  \/ object = "buffer" /\ S!Next
     /\ UNCHANGED <<object, queueVars, groupVars, timerVars, stackVars, taskVars, handleVars>>
  \/ object = "group" /\ E!Next
     /\ UNCHANGED <<object, queueVars, bufferVars, timerVars, stackVars, taskVars, handleVars>>
  \/ object = "timers" /\ T!Next
     /\ UNCHANGED <<object, queueVars, bufferVars, groupVars, stackVars, taskVars, handleVars>>
  \/ object = "stacks" /\ K!Next
     /\ UNCHANGED <<object, queueVars, bufferVars, groupVars, timerVars, taskVars, handleVars>>
  \/ object = "tasks" /\ L!Next
     /\ UNCHANGED <<object, queueVars, bufferVars, groupVars, timerVars, stackVars, handleVars>>
  \/ object = "handles" /\ D!Next
     /\ UNCHANGED <<object, queueVars, bufferVars, groupVars, timerVars, stackVars, taskVars>>

Spec == Init /\ [][Next]_vars

-----------------------------------------------------------------------------
\* The dump of a queue is what it holds, in order (Queues).
DumpIsContent == object = "queue" => Q!DumpIsContent

\* A healthy queue, semaphore or mutex fails no check (Queues).
HealthyPasses == object = "queue" => Q!HealthyPasses

\* Used and free bytes of a ring are the true ones at every position of its
\* indices (StreamBuffers).
BytesAreTrue == object = "buffer" => S!BytesAreTrue

\* The length shown as the next message's is that of the oldest message, also
\* when its prefix straddles the end of the ring (StreamBuffers).
NextMessageIsNext == object = "buffer" => S!NextMessageIsNext

\* The bits and modes packed into a wait list are those asked for (EventGroups).
WaitersAsAsked == object = "group" => E!WaitersAsAsked

\* The ticks left are the true ones, on both lists and across the wrap; state
\* and list of a timer disagree only in the daemon's hand (Timers).
ExpiryIsTrue == object = "timers" => T!ExpiryIsTrue /\ T!InStepUnlessInHand

\* Used <= HighWater <= Stack with a mark that is real, and the direction of a
\* stack is never inferred wrong (Stacks).
StacksAreTrue == object = "stacks" => K!HighWaterIsTrue /\ K!DirectionIsTrue

\* The state shown is what the task does, and the cores shown are those of
\* pxCurrentTCBs (FreeRtosTasks).
StateIsTruth == object = "tasks" => L!TypeOK /\ L!StateIsTruth /\ L!RunnersAgree

\* No task is listed twice or lost (FreeRtosTasks).
EachTaskOnce == object = "tasks" => L!EachTaskOnce

\* A healthy kernel fails no check of its task lists, and its summary adds up
\* (FreeRtosTasks).
ChecksPass == object = "tasks" => L!ChecksPass /\ L!SummaryAddsUp

\* The table of a kind and the summary of all kinds agree, and every row is a
\* place that something in the target points at (Discovery).
TablesAgree == object = "handles" => D!TypeOK /\ D!TablesAgree /\ D!RowsArePlaces

\* An object is found once and as what it is, and a detail is of the kind asked
\* for (Discovery).
FoundAsItIs == object = "handles" => D!FoundAsItIs /\ D!DetailIsOfItsKind

\* The name shown is the kernel's own where it has one (Discovery).
NamedByTheKernel == object = "handles" => D!NamedByTheKernel
=============================================================================
