--------------------------- MODULE FreeRtosTasks ---------------------------
(***************************************************************************)
(* The tasks of a FreeRTOS target as GDR reads them (freertos/navigation.py*)
(* iter_tasks, task_state, core_of, current_tasks, list_count; the checks  *)
(* of freertos/diagnostics.py over the scheduler's lists), beside the      *)
(* kernel that moves the tasks: blocking with and without a deadline,      *)
(* notifications, suspension, a suspended scheduler with its pending list, *)
(* tick overflow, deletion, one core or several.                           *)
(*                                                                         *)
(* `does' is what the kernel's API says a task does; GDR sees only tcb,    *)
(* the scheduler's globals and the lists.  The target is halted between    *)
(* any two actions.  A critical section of the kernel is one action: GDR   *)
(* has no way to tell that it looks into one.  Idle tasks are left out,    *)
(* and so is the wake value of an item on no delayed list.                 *)
(***************************************************************************)
EXTENDS Integers, FiniteSets, Sequences

CONSTANTS Task,
          None,        \* nothing, or the idle task on a core
          Images,      \* configurations of the kernel
          MaxSlots,    \* configTASK_NOTIFICATION_ARRAY_ENTRIES
          Ticks,       \* 2^tick_bits
          MaxPended    \* ticks counted while the scheduler is suspended

VARIABLES image,
          tcb,         \* the task control blocks
          current,     \* pxCurrentTCB, pxCurrentTCBs[]
          kernel,      \* the globals of tasks.c
          does         \* what every task does

vars == <<image, tcb, current, kernel, does>>

Cores == IF image.smp THEN {0, 1} ELSE {0}
NotifySlots == IF image.array THEN 0..(MaxSlots - 1) ELSE {0}
Forever == Ticks - 1    \* portMAX_DELAY

NotRunning == -1        \* taskTASK_NOT_RUNNING
Yielding == -2          \* taskTASK_SCHEDULED_TO_YIELD

StateLists == {"ready", "delayed_1", "delayed_2", "suspended", "termination"}

TasksAssumption ==
  /\ IsFiniteSet(Task)
  /\ None \notin Task /\ None \notin {0, 1} /\ None \notin StateLists \cup {"pending", "object"}
  /\ Images \subseteq [smp : BOOLEAN, array : BOOLEAN]
  /\ MaxSlots \in Nat \ {0} /\ Ticks \in Nat \ {0, 1} /\ MaxPended \in Nat

Activities == {"absent", "runnable", "blocked", "suspended", "deleted"}
Tcb == [state : StateLists \cup {None}, event : {None, "pending", "object"},
        wake : 0..Forever, waiting : SUBSET (0..(MaxSlots - 1)),
        run : {NotRunning, Yielding} \cup {0, 1}]
Globals == [started : BOOLEAN, tick : 0..Forever, now : {"delayed_1", "delayed_2"},
            unblock : 0..Forever, suspended : 0..1, pended : 0..MaxPended, tasks : Nat]

TypeOK ==
  /\ image \in Images
  /\ tcb \in [Task -> Tcb]
  /\ current \in [Cores -> Task \cup {None}]
  /\ kernel \in Globals
  /\ does \in [Task -> Activities]

-----------------------------------------------------------------------------
\* The lists, by the containers of the items on them.

Exists(t) == does[t] # "absent"
OnList(l) ==
  IF l = "pending" THEN {t \in Task : tcb[t].event = "pending"}
  ELSE {t \in Task : tcb[t].state = l}

Later == IF kernel.now = "delayed_1" THEN "delayed_2" ELSE "delayed_1"

Least(S) == CHOOSE n \in S : \A m \in S : n <= m

-----------------------------------------------------------------------------
\* The kernel.

Fresh == [state |-> None, event |-> None, wake |-> 0, waiting |-> {}, run |-> NotRunning]
OnCore(c) == current[c]
Runs(t) == \E c \in Cores : current[c] = t
Going == kernel.started /\ kernel.suspended = 0

\* prvResetNextTaskUnblockTime over tasks `b' with the list `now'.
Deadline(b, now) ==
  LET due == {b[t].wake : t \in {u \in Task : b[u].state = now}}
  IN IF due = {} THEN Forever ELSE Least(due)

Create(t) ==
  /\ does[t] = "absent"
  /\ tcb' = [tcb EXCEPT ![t] = [Fresh EXCEPT !.state = "ready"]]
  /\ kernel' = [kernel EXCEPT !.tasks = @ + 1]
  /\ does' = [does EXCEPT ![t] = "runnable"]
  /\ UNCHANGED <<image, current>>

Start ==
  /\ ~kernel.started
  /\ kernel' = [kernel EXCEPT !.started = TRUE, !.unblock = Forever]
  /\ UNCHANGED <<image, tcb, current, does>>

\* vTaskSwitchContext: a core takes a ready task or its idle task, and leaves
\* the one it had to the lists.  A task that runs again is no longer waiting
\* for a notification.
Switch(c) ==
  /\ Going
  /\ \E t \in {u \in Task : tcb[u].state = "ready" /\ ~Runs(u)} \cup {None} :
       /\ t # current[c]
       /\ tcb' = [u \in Task |->
            IF u = t THEN [tcb[u] EXCEPT !.run = IF image.smp THEN c ELSE NotRunning,
                                         !.waiting = {}]
            ELSE IF u = current[c] THEN [tcb[u] EXCEPT !.run = NotRunning]
            ELSE tcb[u]]
       /\ current' = [current EXCEPT ![c] = t]
  /\ UNCHANGED <<image, kernel, does>>

\* prvAddCurrentTaskToDelayedList: without a deadline onto the suspended list,
\* else onto the delayed list of this turn of the tick counter or the next.
DelayedUntil(b, wake) == [b EXCEPT !.wake = wake, !.state = IF wake < kernel.tick THEN Later ELSE kernel.now]

Blocks(c, on) ==
  LET t == OnCore(c) IN
  /\ Going /\ t # None /\ does[t] = "runnable" /\ tcb[t].state = "ready"
  /\ \E event \in (IF on = "object" THEN {"object"} ELSE {None}),
        slots \in (IF on = "notification" THEN {{s} : s \in NotifySlots} ELSE {{}}) :
       LET b == [tcb[t] EXCEPT !.event = event, !.waiting = slots] IN
       \/ \E d \in 1..(Ticks - 2) :
            LET wake == (kernel.tick + d) % Ticks IN
            /\ tcb' = [tcb EXCEPT ![t] = DelayedUntil(b, wake)]
            /\ kernel' = [kernel EXCEPT !.unblock =
                            IF wake >= kernel.tick /\ wake < @ THEN wake ELSE @]
       \/ /\ on # "time"
          /\ tcb' = [tcb EXCEPT ![t] = [b EXCEPT !.state = "suspended"]]
          /\ UNCHANGED kernel
  /\ does' = [does EXCEPT ![t] = "blocked"]
  /\ UNCHANGED <<image, current>>

\* A give, a send or an event bit (xTaskRemoveFromEventList), or a
\* notification: the task becomes ready, or pending while the scheduler is
\* suspended.
Wakes(t) ==
  /\ kernel.started /\ does[t] = "blocked" /\ tcb[t].event # "pending"
  /\ tcb[t].event = "object" \/ tcb[t].waiting # {}
  /\ tcb' = [tcb EXCEPT ![t] =
       IF kernel.suspended = 0
       THEN [@ EXCEPT !.state = "ready", !.event = None, !.waiting = {}, !.wake = 0]
       ELSE [@ EXCEPT !.event = "pending", !.waiting = {}]]
  /\ does' = [does EXCEPT ![t] = "runnable"]
  /\ UNCHANGED <<image, current, kernel>>

\* vTaskSuspend, of any task but one that is deleted.
Suspend(t) ==
  /\ Going /\ does[t] \in {"runnable", "blocked"} /\ tcb[t].event # "pending"
  /\ LET run == IF image.smp /\ Runs(t) THEN Yielding ELSE tcb[t].run
         b == [tcb EXCEPT ![t] = [@ EXCEPT !.state = "suspended", !.event = None, !.waiting = {},
                                           !.wake = 0, !.run = run]]
     IN /\ tcb' = b
        /\ kernel' = [kernel EXCEPT !.unblock = Deadline(b, kernel.now)]
  /\ does' = [does EXCEPT ![t] = "suspended"]
  /\ UNCHANGED <<image, current>>

Resume(t) ==
  /\ Going /\ does[t] = "suspended"
  /\ tcb' = [tcb EXCEPT ![t] = [@ EXCEPT !.state = "ready"]]
  /\ does' = [does EXCEPT ![t] = "runnable"]
  /\ UNCHANGED <<image, current, kernel>>

\* xTaskIncrementTick: the lists change places when the counter turns over,
\* and every task that is due becomes ready; its notification slot still says
\* it waits until it runs.
Tick ==
  /\ Going
  /\ LET tick == (kernel.tick + 1) % Ticks
         now == IF tick = 0 THEN Later ELSE kernel.now
         unblock == IF tick = 0 THEN Deadline(tcb, now) ELSE kernel.unblock
         due == IF tick < unblock THEN {} ELSE {t \in OnList(now) : tcb[t].wake <= tick}
         b == [t \in Task |-> IF t \in due THEN [tcb[t] EXCEPT !.state = "ready", !.event = None, !.wake = 0]
                              ELSE tcb[t]]
     IN /\ tcb' = b
        /\ does' = [t \in Task |-> IF t \in due THEN "runnable" ELSE does[t]]
        /\ kernel' = [kernel EXCEPT !.tick = tick, !.now = now,
                        !.unblock = IF tick < unblock THEN unblock ELSE Deadline(b, now)]
  /\ UNCHANGED <<image, current>>

PendTick ==
  /\ kernel.suspended = 1 /\ kernel.pended < MaxPended
  /\ kernel' = [kernel EXCEPT !.pended = @ + 1]
  /\ UNCHANGED <<image, tcb, current, does>>

SuspendAll ==
  /\ Going
  /\ kernel' = [kernel EXCEPT !.suspended = 1]
  /\ UNCHANGED <<image, tcb, current, does>>

\* xTaskResumeAll: pending tasks become ready; the ticks it owes follow one
\* by one, as ticks of their own here.
ResumeAll ==
  /\ kernel.suspended = 1
  /\ LET b == [t \in Task |-> IF tcb[t].event = "pending"
                              THEN [tcb[t] EXCEPT !.state = "ready", !.event = None, !.wake = 0]
                              ELSE tcb[t]]
     IN /\ tcb' = b
        /\ kernel' = [kernel EXCEPT !.suspended = 0, !.pended = 0,
                        !.unblock = IF OnList("pending") # {} THEN Deadline(b, kernel.now) ELSE @]
  /\ UNCHANGED <<image, current, does>>

\* vTaskDelete: a task on a core waits for the idle task to free it.
Delete(t) ==
  /\ Going /\ does[t] \notin {"absent", "deleted"} /\ tcb[t].event # "pending"
  /\ LET run == IF image.smp THEN Yielding ELSE tcb[t].run
         b == [tcb EXCEPT ![t] =
           IF Runs(t)
           THEN [@ EXCEPT !.state = "termination", !.event = None, !.waiting = {}, !.run = run]
           ELSE Fresh]
     IN /\ tcb' = b
        /\ kernel' = [kernel EXCEPT !.unblock = Deadline(b, kernel.now),
                                    !.tasks = IF Runs(t) THEN @ ELSE @ - 1]
  /\ does' = [does EXCEPT ![t] = IF Runs(t) THEN "deleted" ELSE "absent"]
  /\ UNCHANGED <<image, current>>

\* prvCheckTasksWaitingTermination
Reap(t) ==
  /\ Going /\ does[t] = "deleted" /\ ~Runs(t)
  /\ tcb' = [tcb EXCEPT ![t] = Fresh]
  /\ kernel' = [kernel EXCEPT !.tasks = @ - 1]
  /\ does' = [does EXCEPT ![t] = "absent"]
  /\ UNCHANGED <<image, current>>

Init ==
  /\ image \in Images
  /\ tcb = [t \in Task |-> Fresh]
  /\ current = [c \in Cores |-> None]
  /\ kernel = [started |-> FALSE, tick |-> 0, now |-> "delayed_1", unblock |-> 0, suspended |-> 0,
               pended |-> 0, tasks |-> 0]
  /\ does = [t \in Task |-> "absent"]

Next ==
  \/ \E t \in Task : Create(t) \/ Wakes(t) \/ Suspend(t) \/ Resume(t) \/ Delete(t) \/ Reap(t)
  \/ \E c \in Cores : Switch(c) \/ \E on \in {"time", "object", "notification"} : Blocks(c, on)
  \/ Start \/ Tick \/ PendTick \/ SuspendAll \/ ResumeAll

Spec == Init /\ [][Next]_vars

-----------------------------------------------------------------------------
\* navigation.py

\* _waiting_notification
WaitingNotification(t) ==
  IF image.array THEN \E s \in 0..(MaxSlots - 1) : s \in tcb[t].waiting
  ELSE 0 \in tcb[t].waiting

\* core_of; the scan of pxCurrentTCBs[] stops at the first match.
CoreOf(t) ==
  IF ~image.smp THEN None
  ELSE IF tcb[t].run \in Cores THEN tcb[t].run
  ELSE IF tcb[t].run = Yielding /\ Runs(t) THEN Least({c \in Cores : current[c] = t})
  ELSE None

\* Step 1 of task_state.
Occupies(t) ==
  IF ~image.smp THEN current[0] = t
  ELSE \/ tcb[t].run = Yielding /\ CoreOf(t) # None
       \/ tcb[t].run \in Cores

RunningState(t) ==
  IF ~image.smp THEN <<"Running", 0>>
  ELSE IF tcb[t].run = Yielding THEN <<"Running(yielding)", CoreOf(t)>>
  ELSE <<"Running", tcb[t].run>>

\* Mutation: the lists are looked at before the pending-ready list.
MutTaskState(t) ==
  IF Occupies(t) THEN RunningState(t)
  ELSE IF tcb[t].state \in {kernel.now, Later} THEN <<"Blocked", None>>
  ELSE IF tcb[t].event = "pending" THEN <<"Ready", None>>
  ELSE IF tcb[t].state = "suspended"
    THEN IF tcb[t].event # None \/ WaitingNotification(t)
         THEN <<"Blocked", None>> ELSE <<"Suspended", None>>
  ELSE IF tcb[t].state \in {None, "termination"} THEN <<"Deleted", None>>
  ELSE <<"Ready", None>>

\* task_state, for a TCB that can be read
TaskState(t) ==
  IF Occupies(t) THEN RunningState(t)
  ELSE IF tcb[t].event = "pending" THEN <<"Ready", None>>
  ELSE IF tcb[t].state \in {kernel.now, Later} THEN <<"Blocked", None>>
  ELSE IF tcb[t].state = "suspended"
    THEN IF tcb[t].event # None \/ WaitingNotification(t)
         THEN <<"Blocked", None>> ELSE <<"Suspended", None>>
  ELSE IF tcb[t].state \in {None, "termination"} THEN <<"Deleted", None>>
  ELSE <<"Ready", None>>

\* The lists in the order of iter_tasks; the delayed lists come twice, by name
\* and by the pointers to the one in use.
Sources == <<"ready", "delayed_1", "delayed_2", kernel.now, Later, "pending", "suspended", "termination">>

Listed == LET sources == Sources IN UNION {{i} \X OnList(sources[i]) : i \in DOMAIN sources}

\* Mutation: the set of addresses is left out.
MutIterTasks == Listed

\* iter_tasks: every address once, where it is met first.
IterTasks ==
  LET listed == Listed IN {e \in listed : \A f \in listed : f[2] = e[2] => e[1] <= f[1]}

CurrentTasks == {<<c, current[c]>> : c \in {d \in Cores : current[d] # None}}

-----------------------------------------------------------------------------
\* adapter.py

\* task_table, of the tasks walked by iter_tasks: a star marks a task with a core
TaskTable(walk) ==
  LET Row(t, state) == [addr |-> t, star |-> state[2] # None, state |-> state[1], core |-> state[2]]
  IN {Row(t, TaskState(t)) : t \in {e[2] : e \in walk}}

\* list_count: the number in the header of a list, of all the ready lists
ListCount(l) == Cardinality(OnList(l))

\* system_summary; the first of the walk on a core is the current task
SystemSummary(walk) ==
  LET cored == {e \in walk : TaskState(e[2])[2] # None}
  IN [current |-> {e[2] : e \in {f \in cored : \A g \in cored : f[1] <= g[1]}},
      number |-> kernel.tasks,
      tick |-> kernel.tick,
      scheduler |-> IF kernel.started THEN "running" ELSE "not-running",
      states |-> [Ready |-> ListCount("ready"), Delayed |-> ListCount("delayed_1") + ListCount("delayed_2"),
                  Pending |-> ListCount("pending"), Suspended |-> ListCount("suspended"),
                  Termination |-> ListCount("termination")],
      walked |-> Cardinality(walk)]

-----------------------------------------------------------------------------
\* diagnostics.py system_checks

TaskCountCheck(walk) == IF kernel.tasks = Cardinality(walk) THEN "ok" ELSE "fail"

\* Mutation: an earlier deadline in the cache is an error too.
MutNextUnblockCheck ==
  IF ~kernel.started THEN "skipped"
  ELSE IF kernel.suspended # 0 THEN "skipped"
  ELSE IF kernel.unblock = Deadline(tcb, kernel.now) THEN "ok" ELSE "fail"

NextUnblockCheck ==
  IF ~kernel.started THEN "skipped"
  ELSE IF kernel.suspended # 0 THEN "skipped"
  ELSE IF kernel.unblock <= Deadline(tcb, kernel.now) THEN "ok" ELSE "fail"

-----------------------------------------------------------------------------
Truth(t) ==
  IF Runs(t) THEN "Running"
  ELSE CASE does[t] = "runnable"  -> "Ready"
         [] does[t] = "blocked"   -> "Blocked"
         [] does[t] = "suspended" -> "Suspended"
         [] does[t] = "deleted"   -> "Deleted"

\* Every task is shown in the state it is in: one that times out, that waits
\* without a deadline on the suspended list, that became pending while the
\* scheduler is suspended, or whose delay crosses the turn of the tick counter.
StateIsTruth ==
  \A t \in Task : Exists(t) =>
    \/ TaskState(t)[1] = Truth(t)
    \/ TaskState(t)[1] = "Running(yielding)" /\ Truth(t) = "Running"

\* The task table has every task of the kernel once, though the pending list
\* holds tasks of other lists and the delayed lists are reached by two names.
EachTaskOnce ==
  LET walk == IterTasks
  IN /\ \A e, f \in walk : e[2] = f[2] => e = f
     /\ {e[2] : e \in walk} = {t \in Task : Exists(t)}

\* The cores of the task table are those of pxCurrentTCBs: no core is shown
\* with two tasks or with one it left, also while a task is about to yield.
RunnersAgree ==
  {<<TaskState(t)[2], t>> : t \in {u \in Task : Exists(u) /\ TaskState(u)[2] # None}} = CurrentTasks

\* A kernel nobody broke passes the system checks wherever it is halted, with
\* deleted tasks nobody reaped, a stale deadline, a suspended scheduler.
ChecksPass == TaskCountCheck(IterTasks) = "ok" /\ NextUnblockCheck # "fail"

\* The summary adds up: but for the pending tasks, which are on a second list,
\* the counts of the lists are the tasks walked, and those the kernel counts;
\* the current task is one of pxCurrentTCBs, and is a starred row.
SummaryAddsUp ==
  LET walk == IterTasks
      s == SystemSummary(walk)
  IN /\ s.states.Ready + s.states.Delayed + s.states.Suspended + s.states.Termination = s.walked
     /\ s.walked = s.number /\ s.states.Pending <= s.walked
     /\ (s.current = {}) = (CurrentTasks = {})
     /\ \A t \in s.current : (\E c \in Cores : current[c] = t) /\ \E r \in TaskTable(walk) : r.addr = t /\ r.star
=============================================================================
