------------------------------ MODULE RtThread ------------------------------
(***************************************************************************)
(* The threads and IPC objects of an RT-Thread target as GDR lists them:   *)
(* the object registry per class, the wait lists of each object, the       *)
(* thread of the selected CPU, look-up by name, address or symbol, the     *)
(* summaries and the system checks (rtthread/navigation.py,                *)
(* rtthread/adapter.py, rtthread/diagnostics.py).                          *)
(*                                                                         *)
(* The kernel changes a list by a store that a forward walk sees whole,    *)
(* but a call is several such changes: a thread is suspended, then put on  *)
(* a wait list, then another one is switched in, and an exiting thread     *)
(* leaves the registry while it still runs.  The target may be halted      *)
(* between any two.                                                        *)
(***************************************************************************)
EXTENDS Naturals, Sequences, FiniteSets

CONSTANTS Thread, Object,  \* addresses
          Kinds,           \* classes of IPC objects in use
          NameOf,          \* the name each thread or object is created with
          Handle,          \* global variables that hold the address of an object
          CpuCount,        \* RT_CPUS_NR
          SenderList       \* the release has a sender wait list in a message queue

VARIABLES registry,        \* per class the registered objects, newest first
          kindOf,          \* the type byte of each object
          waitList,        \* per object and field the threads linked, in order
          stat,            \* rt_thread.stat
          oncpu,           \* rt_thread.oncpu
          currentOf,       \* rt_cpu.current_thread
          selected,        \* the CPU selected in GDB
          handle,          \* what each global variable holds
          step             \* the thread each kernel call under way is at

vars == <<registry, kindOf, waitList, stat, oncpu, currentOf, selected, handle, step>>

Null == "null"
All == ""                 \* no target; a nameless object has no other name
Cpus == 0..(CpuCount - 1)
Detached == CpuCount      \* of a thread on no CPU
AllKinds == {"semaphore", "mutex", "event", "mailbox", "msgqueue", "mempool"}

\* what the constants have to satisfy: no name and no identifier reads as an address
RtAssumption ==
  /\ Kinds \subseteq AllKinds /\ Thread \cap Object = {} /\ Null \notin Thread \cup Object
  /\ NameOf \in [Thread \cup Object -> STRING] /\ Handle \subseteq STRING
  /\ (Thread \cup Object) \cap (Handle \cup {All} \cup {NameOf[a] : a \in Thread \cup Object}) = {}
  /\ CpuCount \in Nat \ {0} /\ SenderList \in BOOLEAN

Classes == {"thread"} \cup Kinds
Address == Thread \cup Object
At(call, o, f) == [call |-> call, object |-> o, field |-> f]
NoStep == At("none", Null, Null)
Members(s) == {s[i] : i \in DOMAIN s}
Position(s, x) == CHOOSE i \in DOMAIN s : s[i] = x
Without(s, x) ==
  IF x \notin Members(s) THEN s
  ELSE SubSeq(s, 1, Position(s, x) - 1) \o SubSeq(s, Position(s, x) + 1, Len(s))
First(s, P(_)) == {s[i] : i \in {j \in DOMAIN s : P(s[j]) /\ \A k \in 1..(j - 1) : ~P(s[k])}}

\* the wait lists of each class
FieldsOf(kind) ==
  IF kind = "mailbox" \/ (kind = "msgqueue" /\ SenderList)
  THEN {"suspend_thread", "suspend_sender_thread"} ELSE {"suspend_thread"}
Fields == {"suspend_thread", "suspend_sender_thread"}

-----------------------------------------------------------------------------
\* The kernel.

Init ==
  /\ registry = [c \in Classes |-> << >>]
  /\ kindOf = [o \in Object |-> "none"]
  /\ waitList = [o \in Object |-> [f \in Fields |-> << >>]]
  /\ stat = [t \in Thread |-> "Unborn"]
  /\ oncpu = [t \in Thread |-> Detached]
  /\ currentOf = [c \in Cpus |-> Null]
  /\ selected \in Cpus
  /\ handle = [h \in Handle |-> Null]
  /\ step = [t \in Thread |-> NoStep]

Registered(c) == Members(registry[c])
Waiting(t) == \E o \in Object, f \in Fields : t \in Members(waitList[o][f])
NotMoving(t) == step[t] = NoStep

\* rt_thread_init, rt_sem_init, ...: the object enters the list of its class.
CreateThread(t) ==
  /\ stat[t] = "Unborn"
  /\ registry' = [registry EXCEPT !["thread"] = <<t>> \o @]
  /\ stat' = [stat EXCEPT ![t] = "Init"]
  /\ UNCHANGED <<kindOf, waitList, oncpu, currentOf, selected, handle, step>>

Startup(t) ==
  /\ stat[t] = "Init" /\ t \in Registered("thread")
  /\ stat' = [stat EXCEPT ![t] = "Ready"]
  /\ UNCHANGED <<registry, kindOf, waitList, oncpu, currentOf, selected, handle, step>>

CreateObject(o, kind) ==
  /\ kindOf[o] = "none"
  /\ registry' = [registry EXCEPT ![kind] = <<o>> \o @]
  /\ kindOf' = [kindOf EXCEPT ![o] = kind]
  /\ UNCHANGED <<waitList, stat, oncpu, currentOf, selected, handle, step>>

\* The program keeps a handle, and keeps it when the object is gone.
Keep(h, o) ==
  /\ kindOf[o] # "none" /\ handle[h] # o
  /\ handle' = [handle EXCEPT ![h] = o]
  /\ UNCHANGED <<registry, kindOf, waitList, stat, oncpu, currentOf, selected, step>>

\* rt_sem_detach, ...: every waiter is resumed (Resume), then the object leaves.
DeleteObject(o) ==
  /\ kindOf[o] # "none" /\ \A f \in Fields : waitList[o][f] = << >>
  /\ \A t \in Thread : step[t].object # o
  /\ registry' = [registry EXCEPT ![kindOf[o]] = Without(@, o)]
  /\ kindOf' = [kindOf EXCEPT ![o] = "none"]
  /\ UNCHANGED <<waitList, stat, oncpu, currentOf, selected, handle, step>>

Running(t) == \E c \in Cpus : currentOf[c] = t /\ oncpu[t] = c

\* A running thread waits: suspended, linked, switched out.
Suspend(t, o, f) ==
  /\ Running(t) /\ stat[t] = "Running" /\ NotMoving(t)
  /\ kindOf[o] # "none" /\ f \in FieldsOf(kindOf[o])
  /\ stat' = [stat EXCEPT ![t] = "Suspend"]
  /\ step' = [step EXCEPT ![t] = At("enter", o, f)]
  /\ UNCHANGED <<registry, kindOf, waitList, oncpu, currentOf, selected, handle>>

\* rt_ipc_list_suspend, first come or by priority.
Enter(t) ==
  \E o \in Object, f \in Fields :
    /\ step[t] = At("enter", o, f)
    /\ \E i \in 0..Len(waitList[o][f]) :
         waitList' = [waitList EXCEPT ![o][f] = SubSeq(@, 1, i) \o <<t>> \o SubSeq(@, i + 1, Len(@))]
    /\ step' = [step EXCEPT ![t] = NoStep]
    /\ UNCHANGED <<registry, kindOf, stat, oncpu, currentOf, selected, handle>>

\* rt_thread_delay: suspended, on no list.
Delay(t) ==
  /\ Running(t) /\ stat[t] = "Running" /\ NotMoving(t)
  /\ stat' = [stat EXCEPT ![t] = "Suspend"]
  /\ UNCHANGED <<registry, kindOf, waitList, oncpu, currentOf, selected, handle, step>>

\* rt_thread_resume, or the thread's timer: unlinked, then ready.
Unlink(t) ==
  /\ stat[t] = "Suspend" /\ NotMoving(t)
  /\ waitList' = [o \in Object |-> [f \in Fields |-> Without(waitList[o][f], t)]]
  /\ step' = [step EXCEPT ![t] = At("resume", Null, Null)]
  /\ UNCHANGED <<registry, kindOf, stat, oncpu, currentOf, selected, handle>>

Resume(t) ==
  /\ step[t].call = "resume"
  /\ stat' = [stat EXCEPT ![t] = IF Running(t) THEN "Running" ELSE "Ready"]
  /\ step' = [step EXCEPT ![t] = NoStep]
  /\ UNCHANGED <<registry, kindOf, waitList, oncpu, currentOf, selected, handle>>

\* rt_schedule: the CPU fields of both threads, then the current thread.
SwitchFields(c, t) ==
  LET from == currentOf[c]
  IN /\ stat[t] = "Ready" /\ NotMoving(t) /\ oncpu[t] = Detached
     /\ from # Null => oncpu[from] = c /\ (NotMoving(from) \/ step[from].call = "resume")
     /\ ~\E u \in Thread : oncpu[u] = c /\ u # from
     /\ oncpu' = [u \in Thread |-> IF u = t THEN c ELSE IF u = from THEN Detached ELSE oncpu[u]]
     /\ stat' = [u \in Thread |-> IF u = t THEN "Running"
                                  ELSE IF u = from /\ stat[u] = "Running" THEN "Ready" ELSE stat[u]]
     /\ UNCHANGED <<registry, kindOf, waitList, currentOf, selected, handle, step>>

SwitchCurrent(c) ==
  \E t \in Thread :
    /\ oncpu[t] = c /\ currentOf[c] # t
    /\ currentOf' = [currentOf EXCEPT ![c] = t]
    /\ UNCHANGED <<registry, kindOf, waitList, stat, oncpu, selected, handle, step>>

\* rt_thread_exit: a thread of static memory leaves the registry at once, one of
\* the heap when the idle thread reaps it; either still runs until the switch.
Exit(t, static) ==
  /\ Running(t) /\ stat[t] = "Running" /\ NotMoving(t)
  /\ stat' = [stat EXCEPT ![t] = "Close"]
  /\ registry' = IF static THEN [registry EXCEPT !["thread"] = Without(@, t)] ELSE registry
  /\ UNCHANGED <<kindOf, waitList, oncpu, currentOf, selected, handle, step>>

Reap(t) ==
  /\ stat[t] = "Close" /\ ~\E c \in Cpus : currentOf[c] = t \/ oncpu[t] = c
  /\ registry' = [registry EXCEPT !["thread"] = Without(@, t)]
  /\ stat' = [stat EXCEPT ![t] = "Unborn"]
  /\ UNCHANGED <<kindOf, waitList, oncpu, currentOf, selected, handle, step>>

\* The user selects the thread of another CPU in GDB.
Select(c) == selected' = c /\ UNCHANGED <<registry, kindOf, waitList, stat, oncpu, currentOf, handle, step>>

Next ==
  \/ \E t \in Thread :
       \/ CreateThread(t) \/ Startup(t) \/ Enter(t) \/ Delay(t) \/ Unlink(t) \/ Resume(t) \/ Reap(t)
       \/ \E static \in BOOLEAN : Exit(t, static)
       \/ \E o \in Object, f \in Fields : Suspend(t, o, f)
       \/ \E c \in Cpus : SwitchFields(c, t)
  \/ \E o \in Object : DeleteObject(o) \/ (\E k \in Kinds : CreateObject(o, k)) \/ \E h \in Handle : Keep(h, o)
  \/ \E c \in Cpus : SwitchCurrent(c) \/ Select(c)

Spec == Init /\ [][Next]_vars

-----------------------------------------------------------------------------
\* navigation.py

\* Mutation: the handle alone is followed, whatever it points at now.
MutFindObject(kind, target) ==
  IF target \in Handle THEN {handle[target]} \ {Null} ELSE {a \in Registered(kind) : a = target}

\* find_object, find_thread: a name, then an address or what a symbol refers to
\* when that is a live object of the class
FindObject(kind, target) ==
  LET named == First(registry[kind], LAMBDA a : NameOf[a] = target)
  IN IF named # {} THEN named
     ELSE LET address == IF target \in Handle THEN handle[target] ELSE target
          IN {a \in Registered(kind) : a = address}

\* get_current_thread: of the selected CPU, none before the scheduler starts
CurrentThread == {currentOf[selected]} \ {Null}

\* Mutation: the waiting senders are read from the list of the receivers.
MutWaiters(o, f) == IF f \in FieldsOf(kindOf[o]) THEN <<waitList[o]["suspend_thread"]>> ELSE << >>

\* suspend_thread_names, as threads; N/A where the release has no such list
Waiters(o, f) == IF f \in FieldsOf(kindOf[o]) THEN <<waitList[o][f]>> ELSE << >>

-----------------------------------------------------------------------------
\* adapter.py

\* _waiter_cell, _waiter_summary: how many wait, and who; N/A is the empty sequence
WaiterCell(o, f) == IF Waiters(o, f) = << >> THEN << >> ELSE <<Len(Waiters(o, f)[1]), Waiters(o, f)[1]>>

\* object_table: the rows of a class, in registry order
ObjectTable(kind) ==
  [i \in DOMAIN registry[kind] |->
     [name |-> NameOf[registry[kind][i]], waiters |-> [f \in Fields |-> WaiterCell(registry[kind][i], f)],
      addr |-> registry[kind][i]]]

\* object_counts
ObjectCounts == [c \in Classes |-> Len(registry[c])]

\* _ipc_detail_pairs, _waiter_detail_pairs
WaiterPairs(o) == [f \in Fields |-> WaiterCell(o, f)]

\* object_detail, found or not
ObjectDetail(kind, target) ==
  {[name |-> NameOf[a], waiters |-> WaiterPairs(a), addr |-> a] : a \in FindObject(kind, target)}

\* _cpu_or_none; a kernel for one CPU has no such field
Core(t) == IF CpuCount = 1 \/ oncpu[t] \notin Cpus THEN {} ELSE {oncpu[t]}

\* Mutation: a thread that a CPU runs is current.
MutTaskView(t) ==
  [name |-> NameOf[t], addr |-> t, state |-> stat[t], core |-> Core(t), pc |-> "frame"]

\* _task_view: the thread of the selected CPU is current, on CPU 0 if it has no
\* number; _thread_pc: a live frame, none on another CPU, else the saved frame
TaskView(t) ==
  LET current == t \in CurrentThread
  IN [name |-> NameOf[t], addr |-> t, state |-> stat[t],
      core |-> IF ~current THEN {} ELSE IF Core(t) # {} THEN Core(t) ELSE {0},
      pc |-> IF current THEN "frame" ELSE IF Core(t) # {} THEN "none" ELSE "saved"]

TaskTable == [i \in DOMAIN registry["thread"] |-> TaskView(registry["thread"][i])]

\* system_summary
SystemSummary ==
  LET rows == TaskTable
  IN [current |-> {r.name : r \in {q \in Members(rows) : q.core # {}}},
      tasks |-> Len(rows),
      states |-> [s \in {r.state : r \in Members(rows)} |-> Cardinality({i \in DOMAIN rows : rows[i].state = s})],
      objects |-> ObjectCounts]

-----------------------------------------------------------------------------
\* diagnostics.py system_checks, thread identity

CurrentThreadCheck ==
  IF CurrentThread = {} THEN "fail" ELSE IF CurrentThread \subseteq Registered("thread") THEN "ok" ELSE "fail"

RegistryTypes == \A k \in Kinds : \A o \in Registered(k) : kindOf[o] = k

-----------------------------------------------------------------------------
\* checks.py

CheckScopes == {"thread", "semaphore", "mutex", "event", "mailbox", "messagequeue", "mempool"}

\* render_check: what a name or an address selects of a class, else what
\* find_object does, but for threads.  A scope is resolved as the name of a
\* class: the one of message queues is msgqueue, so their scope finds none.
CheckedObjects(scope, target) ==
  LET matched == {a \in Registered(scope) : target \in {All, NameOf[a], a}}
  IN IF scope \notin CheckScopes \cap Classes THEN {}
     ELSE IF matched = {} /\ target # All /\ scope # "thread" THEN FindObject(scope, target)
     ELSE matched

\* object_identity_checks, of a thread by the list it is in
ObjectType(scope, a) == IF scope = "thread" \/ kindOf[a] = scope THEN "ok" ELSE "fail"

\* _name_uniqueness; no row for a nameless object
NameUnique(scope, a) ==
  IF NameOf[a] = "" THEN "none"
  ELSE IF \E b \in Registered(scope) \ {a} : NameOf[b] = NameOf[a] THEN "fail" ELSE "ok"

CheckRows(scope, target) ==
  {[addr |-> a, ObjectType |-> ObjectType(scope, a), NameUnique |-> NameUnique(scope, a)] :
     a \in CheckedObjects(scope, target)}

-----------------------------------------------------------------------------
Rows(kind) == Members(ObjectTable(kind))

\* Every live object is one row of exactly the table of its class, the counts
\* are those of the rows, the address a row shows selects that very row also
\* among objects of one name, and a handle whose object is gone, or of another
\* class, selects nothing.
RowsSelect ==
  /\ RegistryTypes
  /\ \A k \in Kinds :
       LET table == ObjectTable(k)
       IN /\ \A o \in Object :
               Cardinality({i \in DOMAIN table : table[i].addr = o}) = IF kindOf[o] = k THEN 1 ELSE 0
          /\ \A r \in Members(table) : ObjectDetail(k, r.addr) = {r}
  /\ \A k \in Kinds : \A h \in Handle : \A a \in FindObject(k, h) :
       kindOf[a] = k /\ (NameOf[a] # h => handle[h] = a)
  /\ LET counts == SystemSummary.objects
     IN \A c \in Classes : counts[c] = Cardinality(Registered(c))

\* The checks of a class are of all its objects; an address picks the one it is
\* of, a name all that have it, and each of those is told that it is not the
\* only one; a nameless object has an address only.  No object of a live kernel
\* is of another type than its registry.
\* Message queues have no scope that reaches them.
ChecksSelect ==
  \A s \in CheckScopes \cap Classes :
    LET all == CheckRows(s, All)
    IN /\ {r.addr : r \in all} = Registered(s) /\ \A r \in all : r.ObjectType = "ok"
       /\ \A r \in all : CheckRows(s, r.addr) = {r}
       /\ \A r \in all : NameOf[r.addr] # "" =>
                        LET same == CheckRows(s, NameOf[r.addr])
                        IN r \in same /\ (r.NameUnique = "ok" <=> same = {r})

\* A thread is shown waiting in at most one cell of all the tables, and only
\* when its own row says it is suspended.
WaitsOnce ==
  LET shown == UNION {Rows(k) : k \in Kinds}
      tasks == Members(TaskTable)
  IN \A t \in Thread :
       LET cells == {c \in shown \X Fields :
                       c[1].waiters[c[2]] # << >> /\ t \in Members(c[1].waiters[c[2]][2])}
       IN /\ Cardinality(cells) <= 1
          /\ cells # {} => \E r \in tasks : r.addr = t /\ r.state = "Suspend"

\* At most one thread is current and it is the selected CPU's, also while that
\* CPU is between two threads.  A saved frame is decoded of no thread a CPU
\* runs, except of one being switched in or out.  The check of the current
\* thread fails before the scheduler of the selected CPU has
\* started, and after that only while a thread of static memory, out of the
\* registry already, is on its way out.
CurrentIsOne ==
  /\ LET rows == TaskTable
     IN /\ Cardinality({i \in DOMAIN rows : rows[i].core # {}}) <= 1
        /\ \A r \in Members(rows) :
             /\ r.core # {} <=> currentOf[selected] = r.addr
             /\ r.pc = "saved" => ~Running(r.addr) \/ CpuCount = 1
             /\ r.pc = "none" => oncpu[r.addr] # selected \/ currentOf[selected] # r.addr
  /\ currentOf[selected] = Null => CurrentThreadCheck = "fail"
  /\ CurrentThreadCheck = "fail" /\ currentOf[selected] # Null => stat[currentOf[selected]] = "Close"
=============================================================================
