------------------------------- MODULE Queues -------------------------------
(***************************************************************************)
(* A Queue_t of a FreeRTOS target, used as a data queue, a semaphore or a  *)
(* (recursive) mutex, as the kernel keeps it and as GDR reads it: the FIFO *)
(* dump of its ring (freertos/navigation.py iter_queue_items), the timer   *)
(* daemon's commands in it (freertos/timers.py iter_timer_commands), its   *)
(* row (freertos/adapter.py value_to_queue_object) and its checks          *)
(* (freertos/diagnostics.py queue_checks).                                 *)
(*                                                                         *)
(* An operation of the kernel moves a pointer in one step and the count in *)
(* the next; the target may be halted between them.  Storage is addressed  *)
(* byte by byte, an item repeats its value in every byte.                  *)
(***************************************************************************)
EXTENDS Integers, Sequences

CONSTANTS Lengths,     \* uxLength of the queues created
          ItemSizes,   \* uxItemSize of the data queues created
          Value,       \* what is sent; a negative one is a pended callback
          Owner,       \* tasks that take mutexes
          MaxNesting   \* recursive takes

VARIABLES queue,       \* the Queue_t
          bytes,       \* its storage
          suspended,   \* uxSchedulerSuspended
          op,          \* the kernel operation under way
          content      \* what the queue holds, oldest first

vars == <<queue, bytes, suspended, op, content>>

Null == 0
Self == 1              \* the address of the Queue_t
Storage == 8           \* the address of its storage
Unlocked == -1         \* queueUNLOCKED
Nobody == "nobody"

\* what the constants have to satisfy
QueueAssumption ==
  /\ Lengths \subseteq Nat \ {0} /\ ItemSizes \subseteq Nat \ {0}
  /\ Value \subseteq Int /\ MaxNesting \in Nat /\ Nobody \notin Owner

-----------------------------------------------------------------------------
\* The kernel.

Created(kind, length, size) ==
  LET head == IF kind = "queue" THEN Storage ELSE IF kind = "semaphore" THEN Self ELSE Null
      tail == head + length * size
  IN [kind |-> kind, length |-> length, size |-> size, count |-> IF kind = "mutex" THEN 1 ELSE 0,
      head |-> head, tail |-> tail, write |-> head, read |-> tail - size,
      rx |-> Unlocked, tx |-> Unlocked, holder |-> Nobody, nesting |-> 0]

Init ==
  /\ queue \in {Created("queue", l, s) : l \in Lengths, s \in ItemSizes}
               \cup {Created("semaphore", l, 0) : l \in Lengths} \cup {Created("mutex", 1, 0)}
  /\ bytes = [a \in queue.head..(queue.tail - 1) |-> 0]
  /\ suspended = 0
  /\ op = [kind |-> "none", with |-> 0]
  /\ content = << >>

Idle == op.kind = "none"
Bounded == queue.rx < 2 /\ queue.tx < 2   \* the lock counters, kept small
IsQueue == queue.kind = "queue"
Put(a, v) == [b \in DOMAIN bytes |-> IF b \in a..(a + queue.size - 1) THEN v ELSE bytes[b]]
Forward(a) == IF a + queue.size >= queue.tail THEN queue.head ELSE a + queue.size
Back(a) == IF a - queue.size < queue.head THEN queue.tail - queue.size ELSE a - queue.size

\* prvCopyDataToQueue, to the back, to the front, or over the only item
SendCopies(v, where) ==
  /\ Idle /\ IsQueue /\ Bounded
  /\ queue.count < queue.length \/ (where = "over" /\ queue.length = 1)
  /\ where = "over" => queue.length = 1
  /\ bytes' = Put(IF where = "back" THEN queue.write ELSE queue.read, v)
  /\ queue' = IF where = "back" THEN [queue EXCEPT !.write = Forward(@)]
              ELSE [queue EXCEPT !.read = Back(@)]
  /\ op' = [kind |-> where, with |-> v]
  /\ UNCHANGED <<suspended, content>>

SendCounts ==
  /\ op.kind \in {"back", "front", "over"}
  /\ queue' = [queue EXCEPT !.count = IF op.kind = "over" THEN 1 ELSE @ + 1,
                            !.tx = IF @ = Unlocked THEN @ ELSE @ + 1]
  /\ content' = IF op.kind = "back" THEN Append(content, op.with)
                ELSE IF op.kind = "front" THEN <<op.with>> \o content ELSE <<op.with>>
  /\ op' = [op EXCEPT !.kind = "none"]
  /\ UNCHANGED <<bytes, suspended>>

\* xQueueReceive: prvCopyDataFromQueue moves the pointer, then reads
ReceiveCopies ==
  /\ Idle /\ IsQueue /\ Bounded /\ queue.count > 0
  /\ queue' = [queue EXCEPT !.read = Forward(@)]
  /\ op' = [kind |-> "receive", with |-> 0]
  /\ UNCHANGED <<bytes, suspended, content>>

ReceiveCounts ==
  /\ op.kind = "receive"
  /\ queue' = [queue EXCEPT !.count = @ - 1, !.rx = IF @ = Unlocked THEN @ ELSE @ + 1]
  /\ content' = Tail(content)
  /\ op' = [op EXCEPT !.kind = "none"]
  /\ UNCHANGED <<bytes, suspended>>

\* xQueueGenericReset
Reset ==
  /\ Idle /\ IsQueue /\ suspended = 0
  /\ queue' = [queue EXCEPT !.count = 0, !.write = queue.head, !.read = queue.tail - queue.size]
  /\ content' = << >>
  /\ UNCHANGED <<bytes, suspended, op>>

\* xSemaphoreGive, xSemaphoreTake
Give ==
  /\ queue.kind = "semaphore" /\ Bounded /\ queue.count < queue.length
  /\ queue' = [queue EXCEPT !.count = @ + 1, !.tx = IF @ = Unlocked THEN @ ELSE @ + 1]
  /\ UNCHANGED <<bytes, suspended, op, content>>

Take ==
  /\ queue.kind = "semaphore" /\ queue.count > 0
  /\ queue' = [queue EXCEPT !.count = @ - 1]
  /\ UNCHANGED <<bytes, suspended, op, content>>

\* A mutex: the count, then the holder; to give it, the holder, then the count.
TakeCounts(t) ==
  /\ Idle /\ queue.kind = "mutex" /\ queue.count = 1
  /\ queue' = [queue EXCEPT !.count = 0]
  /\ op' = [kind |-> "take", with |-> t]
  /\ UNCHANGED <<bytes, suspended, content>>

TakeHolds ==
  /\ op.kind = "take"
  /\ queue' = [queue EXCEPT !.holder = op.with]
  /\ op' = [op EXCEPT !.kind = "none"]
  /\ UNCHANGED <<bytes, suspended, content>>

Nest ==
  /\ Idle /\ queue.holder # Nobody /\ queue.nesting < MaxNesting
  /\ queue' = [queue EXCEPT !.nesting = @ + 1]
  /\ UNCHANGED <<bytes, suspended, op, content>>

Unnest ==
  /\ Idle /\ queue.holder # Nobody /\ queue.nesting > 0
  /\ queue' = [queue EXCEPT !.nesting = @ - 1]
  /\ UNCHANGED <<bytes, suspended, op, content>>

GiveReleases ==
  /\ Idle /\ queue.holder # Nobody /\ queue.nesting = 0
  /\ queue' = [queue EXCEPT !.holder = Nobody]
  /\ op' = [kind |-> "give", with |-> 0]
  /\ UNCHANGED <<bytes, suspended, content>>

GiveCounts ==
  /\ op.kind = "give"
  /\ queue' = [queue EXCEPT !.count = 1]
  /\ op' = [op EXCEPT !.kind = "none"]
  /\ UNCHANGED <<bytes, suspended, content>>

\* A task about to block locks the queue with the scheduler suspended;
\* interrupts that send or receive meanwhile count in the locks.
SuspendAll == Idle /\ suspended = 0 /\ suspended' = 1 /\ UNCHANGED <<queue, bytes, op, content>>
Lock ==
  /\ Idle /\ suspended = 1 /\ queue.rx = Unlocked
  /\ queue' = [queue EXCEPT !.rx = 0, !.tx = 0]
  /\ UNCHANGED <<bytes, suspended, op, content>>
Unlock ==
  /\ Idle /\ queue.rx # Unlocked
  /\ queue' = [queue EXCEPT !.rx = Unlocked, !.tx = Unlocked]
  /\ UNCHANGED <<bytes, suspended, op, content>>
ResumeAll ==
  /\ Idle /\ suspended = 1 /\ queue.rx = Unlocked
  /\ suspended' = 0
  /\ UNCHANGED <<queue, bytes, op, content>>

Next ==
  \/ SendCounts \/ ReceiveCounts \/ Give
  \/ \E v \in Value, where \in {"back", "front", "over"} : SendCopies(v, where)
  \/ ReceiveCopies \/ Reset \/ Take
  \/ \E t \in Owner : TakeCounts(t)
  \/ TakeHolds \/ Nest \/ Unnest \/ GiveReleases \/ GiveCounts
  \/ SuspendAll \/ Lock \/ Unlock \/ ResumeAll

Spec == Init /\ [][Next]_vars

-----------------------------------------------------------------------------
\* iter_queue_items

Smaller(a, b) == IF a < b THEN a ELSE b

Span == queue.tail - queue.head

Dumps == queue.size > 0 /\ queue.count > 0 /\ queue.length > 0 /\ Span > 0

\* Mutation: the dump starts at the item received last.
MutItemAt(i) == queue.head + ((queue.read + (i - 1) * queue.size - queue.head) % Span)

\* The i-th item starts one slot past pcReadFrom and wraps at pcTail.
ItemAt(i) == queue.head + ((queue.read + i * queue.size - queue.head) % Span)

QueueItems ==
  IF ~Dumps THEN << >>
  ELSE [i \in 1..Smaller(queue.count, queue.length) |->
          [address |-> ItemAt(i), payload |-> [b \in 0..(queue.size - 1) |-> bytes[ItemAt(i) + b]]]]

\* iter_timer_commands, of a queue of daemon messages whose callback arm is in
\* the debug information: the sign of xMessageID tells the arms apart.
TimerCommands ==
  [i \in DOMAIN QueueItems |->
     LET id == QueueItems[i].payload[0]
     IN IF id < 0 THEN [callback |-> TRUE, id |-> id] ELSE [callback |-> FALSE, id |-> id]]

\* value_to_queue_object; the holder only where the union holds one
FreeSlots == IF queue.length > queue.count THEN queue.length - queue.count ELSE 0
Holder == IF queue.kind = "mutex" THEN queue.holder ELSE Nobody

\* _queue_table, _semaphore_table, _mutex_table; the waiters, the label of the
\* type and the set of a queue are left out
QueueRow ==
  [count |-> queue.count, length |-> queue.length, free |-> FreeSlots,
   lock |-> IF queue.rx = Unlocked /\ queue.tx = Unlocked THEN {} ELSE {<<queue.rx, queue.tx>>}]
SemaphoreRow == [count |-> queue.count, max |-> queue.length]
\* held_cell: by the count, not by the holder
MutexRow == [held |-> queue.count = 0, owner |-> Holder, recursive |-> queue.nesting]

-----------------------------------------------------------------------------
\* queue_checks

IsData == queue.head # Null /\ queue.size # 0
Verdict(holds) == IF holds THEN "ok" ELSE "fail"
InStorage(a) == queue.head <= a /\ a < queue.tail

\* Mutation: a nested take counts, too.
MutMutexAccounting ==
  queue.count + (IF queue.holder # Nobody THEN 1 + queue.nesting ELSE 0) = 1

MutexAccounting ==
  queue.count + (IF queue.holder # Nobody THEN 1 ELSE 0) = 1 /\ queue.length = 1 /\ queue.size = 0

QueueChecks ==
  [Count |-> Verdict(queue.count <= queue.length),
   Storage |-> IF ~IsData THEN "skipped" ELSE Verdict(Span = queue.length * queue.size),
   WritePtr |-> IF ~IsData THEN "skipped" ELSE Verdict(InStorage(queue.write)),
   ReadPtr |-> IF ~IsData THEN "skipped" ELSE Verdict(InStorage(queue.read)),
   MutexAccounting |-> IF queue.kind # "mutex" THEN "skipped" ELSE Verdict(MutexAccounting),
   SemaphoreSelfHead |-> IF queue.kind # "semaphore" THEN "skipped"
                         ELSE Verdict(queue.head = Self /\ queue.size = 0),
   QueueLock |-> Verdict((queue.rx = Unlocked /\ queue.tx = Unlocked) \/ suspended # 0)]

-----------------------------------------------------------------------------
\* The dump of a queue is what was sent and not yet received, in the order it
\* will be received, item for item and byte for byte, whether it was sent to
\* the back, to the front or over the last one, at every position of the ring.
\* Wherever between two stores of the kernel the target was halted, the dump
\* stays inside the storage and reads no item twice.
DumpIsContent ==
  /\ Idle /\ IsQueue =>
       /\ Len(QueueItems) = Len(content)
       /\ \A i \in DOMAIN content :
            \A b \in 0..(queue.size - 1) : QueueItems[i].payload[b] = content[i]
       /\ \A i \in DOMAIN content : TimerCommands[i] = [callback |-> content[i] < 0, id |-> content[i]]
       /\ QueueRow.count = Len(content) /\ QueueRow.free = queue.length - Len(content)
       /\ QueueRow.lock = {} \/ suspended # 0
  /\ \A i \in DOMAIN QueueItems : QueueItems[i].address + queue.size <= queue.tail
  /\ \A i, j \in DOMAIN QueueItems : QueueItems[i].address = QueueItems[j].address => i = j

\* The checks find no fault with a queue, a semaphore or a mutex of a healthy
\* kernel, nested, locked or full; the accounting of a mutex only while a task
\* is between its two stores.  Then, and never else, the row of the mutex says
\* it is held and by nobody; one that has an owner or a depth is held.
HealthyPasses ==
  /\ \A c \in DOMAIN QueueChecks :
       QueueChecks[c] = "fail" => c = "MutexAccounting" /\ op.kind \in {"take", "give"}
  /\ queue.kind = "mutex" =>
       /\ (MutexRow.held /\ MutexRow.owner = Nobody) <=> QueueChecks.MutexAccounting = "fail"
       /\ (MutexRow.owner # Nobody \/ MutexRow.recursive > 0) => MutexRow.held
  /\ queue.kind = "semaphore" => SemaphoreRow.count <= SemaphoreRow.max
=============================================================================
