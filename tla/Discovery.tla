----------------------------- MODULE Discovery -----------------------------
(***************************************************************************)
(* The kernel objects GDR finds in a FreeRTOS target (freertos/navigation, *)
(* the object commands of freertos/adapter.py): five channels, the MPU     *)
(* object pool, the queue registry, the timer lists, the static symbols    *)
(* and the waiters of blocked tasks, merged by address into one row each,  *)
(* and the symbol scan kept for the session.                               *)
(*                                                                         *)
(* The target creates, registers and deletes objects and reuses their      *)
(* memory; it is halted between two actions and one command reads it.  A   *)
(* name stands for where it comes from, an address is an object, a place   *)
(* that only looks like one, or the small number of an MPU handle.         *)
(***************************************************************************)
EXTENDS Integers, Sequences

CONSTANTS Obj,         \* places of objects
          Ghost,       \* addresses inside other objects
          None,
          Tasks,       \* number of tasks
          Slots,       \* configQUEUE_REGISTRY_SIZE, and the size of the MPU pool
          Declared,    \* the variables `info variables' lists, in order
          Kinds,       \* kinds of objects the firmware creates
          Images       \* configurations: trace facility, registry, MPU wrappers

VARIABLES image,
          memory,      \* what the words at a place read as
          live,        \* the objects there are
          registry,    \* xQueueRegistry
          pool,        \* xKernelObjectPool
          variable,    \* the value of every declared handle variable
          active,      \* the timer lists
          waits,       \* what a task is blocked on, and the place mistaken for it
          cache        \* _SYMBOL_OBJECT_CACHE

targetVars == <<image, memory, live, registry, pool, variable, active, waits>>
vars == <<targetVars, cache>>

QueueFamily == {"queue", "semaphore", "mutex"}
AllKinds == QueueFamily \cup {"timer", "eventgroup", "streambuffer"}
Reserved == -1          \* an MPU pool slot while its object is created, ~0
Unused == 0
Address == Obj \cup Ghost

DiscoveryAssumption ==
  /\ Tasks \in Nat /\ Slots \in Nat
  /\ Kinds \subseteq AllKinds
  /\ Images \subseteq [trace : BOOLEAN, registry : BOOLEAN, mpu : BOOLEAN]
  /\ Declared \in Seq([symbol : {Declared[i].symbol : i \in DOMAIN Declared},
                       kind : AllKinds, buffer : Obj \cup {None}])
  /\ None \notin Address /\ None # "registered"
  /\ Address \cap (-1..Slots) = {}     \* no handle's number, no mark of a slot is an address

Contents == AllKinds \cup {"zero"}

TypeOK ==
  /\ image \in Images
  /\ memory \in [Address -> Contents]
  /\ live \subseteq Obj
  /\ registry \in [1..Slots -> Obj \cup {Unused}]
  /\ pool \in [1..Slots -> Obj \cup {Unused, Reserved}]
  /\ variable \in [DOMAIN Declared -> Obj \cup 0..Slots]
  /\ active \in Seq(live)
  /\ waits \in [1..Tasks -> [host : live \cup {None}, ghost : Address \cup {None}]]

-----------------------------------------------------------------------------
\* The target.

Least(S) == CHOOSE i \in S : \A j \in S : i <= j
\* the members of s that are not in S, in their order
Without(s, S) ==
  LET upto[i \in 0..Len(s)] ==
        IF i = 0 THEN << >> ELSE IF s[i] \in S THEN upto[i - 1] ELSE Append(upto[i - 1], s[i])
  IN upto[Len(s)]
IsStatic(i) == Declared[i].buffer # None

\* What a variable of a declared type may hold: SemaphoreHandle_t is also the
\* type of a mutex.
Holds(declared, k) == declared = k \/ (declared = "semaphore" /\ k = "mutex")

\* x*Create, x*CreateStatic.  Under the MPU wrappers a slot of the pool was
\* reserved and its index is the handle.
Create(o, k, i) ==
  /\ o \notin live
  /\ \A j \in DOMAIN Declared : Declared[j].buffer = o => Holds(Declared[j].kind, k)
  /\ i \in DOMAIN Declared => Holds(Declared[i].kind, k) /\ ~IsStatic(i)
  /\ LET n == IF ~image.mpu THEN o ELSE Least({j \in 1..Slots : pool[j] = Reserved}) IN
     /\ image.mpu => \E j \in 1..Slots : pool[j] = Reserved
     /\ pool' = IF image.mpu THEN [pool EXCEPT ![n] = o] ELSE pool
     /\ variable' = IF i \in DOMAIN Declared THEN [variable EXCEPT ![i] = n] ELSE variable
  /\ memory' = [memory EXCEPT ![o] = k]
  /\ live' = live \cup {o}
  /\ UNCHANGED <<image, registry, active, waits, cache>>

\* MPU_GetFreeIndexInKernelObjectPool
Reserve ==
  /\ image.mpu /\ Reserved \notin {pool[j] : j \in 1..Slots}
  /\ \E j \in 1..Slots : pool[j] = Unused
  /\ pool' = [pool EXCEPT ![Least({j \in 1..Slots : pool[j] = Unused})] = Reserved]
  /\ UNCHANGED <<image, memory, live, registry, variable, active, waits, cache>>

\* v*Delete: the handle variables keep what they held, the memory its words.
Delete(o) ==
  /\ o \in live /\ \A t \in 1..Tasks : waits[t].host # o
  /\ live' = live \ {o}
  /\ registry' = [j \in 1..Slots |-> IF registry[j] = o THEN Unused ELSE registry[j]]
  /\ pool' = [j \in 1..Slots |-> IF pool[j] = o THEN Unused ELSE pool[j]]
  /\ active' = Without(active, {o})
  /\ UNCHANGED <<image, memory, variable, waits, cache>>

\* vQueueAddToRegistry, vQueueUnregisterQueue
Register(o) ==
  /\ image.registry /\ o \in live /\ memory[o] \in QueueFamily
  /\ o \notin {registry[j] : j \in 1..Slots}
  /\ \E j \in 1..Slots : registry[j] = Unused
  /\ registry' = [registry EXCEPT ![Least({j \in 1..Slots : registry[j] = Unused})] = o]
  /\ UNCHANGED <<image, memory, live, pool, variable, active, waits, cache>>

Unregister(o) ==
  /\ \E j \in 1..Slots : registry[j] = o
  /\ registry' = [j \in 1..Slots |-> IF registry[j] = o THEN Unused ELSE registry[j]]
  /\ UNCHANGED <<image, memory, live, pool, variable, active, waits, cache>>

StartTimer(o) ==
  /\ o \in live /\ memory[o] = "timer" /\ \A i \in DOMAIN active : active[i] # o
  /\ active' = Append(active, o)
  /\ UNCHANGED <<image, memory, live, registry, pool, variable, waits, cache>>

StopTimer(o) ==
  /\ \E i \in DOMAIN active : active[i] = o
  /\ active' = Without(active, {o})
  /\ UNCHANGED <<image, memory, live, registry, pool, variable, waits, cache>>

\* A task blocks on an object.  The memory around the waiting list may make
\* another place pass for its owner, an address inside it or its neighbour.
Block(t, o, g) ==
  /\ waits[t].host = None /\ o \in live /\ memory[o] \in QueueFamily \cup {"eventgroup"} /\ g # o
  /\ waits' = [waits EXCEPT ![t] = [host |-> o, ghost |-> g]]
  /\ UNCHANGED <<image, memory, live, registry, pool, variable, active, cache>>

Unblock(t) ==
  /\ waits[t].host # None
  /\ waits' = [waits EXCEPT ![t] = [host |-> None, ghost |-> None]]
  /\ UNCHANGED <<image, memory, live, registry, pool, variable, active, cache>>

-----------------------------------------------------------------------------
\* classify_queue, _refine_queue_object

\* The words of an object of another family, read as a Queue_t.
Misread == "queue"

\* ucQueueType with the trace facility; without it pcHead == NULL is a mutex
\* and an item size of zero a semaphore.  A buffer nobody created is all zero.
Classify(a) ==
  IF a \notin Address THEN Misread
  ELSE IF memory[a] = "zero" THEN IF image.trace THEN "queue" ELSE "mutex"
  ELSE IF memory[a] \notin QueueFamily THEN Misread
  ELSE memory[a]

Refine(e) ==
  IF e.kind \notin QueueFamily THEN e
  ELSE [e EXCEPT !.kind = Classify(e.address), !.inferred = ~image.trace]

-----------------------------------------------------------------------------
\* The channels.

Found(k, a, n, s, i) ==
  [kind |-> k, address |-> a, name |-> n, source |-> s, extra |-> {}, inferred |-> i]

\* Mutation: the scan stops at the first empty slot.
MutRegistryEntries ==
  IF ~image.registry THEN << >>
  ELSE LET n == IF \E i \in 1..Slots : registry[i] = Unused
                THEN Least({i \in 1..Slots : registry[i] = Unused}) - 1 ELSE Slots
       IN [i \in 1..n |-> Found("queue", registry[i], "registered", "registry", TRUE)]

\* iter_registry_entries
RegistryEntries ==
  IF ~image.registry THEN << >>
  ELSE LET used == Without(registry, {Unused})
       IN [i \in DOMAIN used |-> Found("queue", used[i], "registered", "registry", TRUE)]

\* MPU_KIND_BY_TYPE: one type for the whole queue family.
PoolKind(o) == IF memory[o] \in QueueFamily THEN "queue" ELSE memory[o]

\* iter_mpu_pool_objects
PoolObjects ==
  IF ~image.mpu THEN << >>
  ELSE LET used == Without(pool, {Unused, Reserved})
       IN [i \in DOMAIN used |-> Found(PoolKind(used[i]), used[i], None, "mpu-pool",
                                       memory[used[i]] \in QueueFamily)]

\* iter_active_timer_hosts
ActiveTimers == [i \in DOMAIN active |-> Found("timer", active[i], "pcTimerName", "active", FALSE)]

\* _opaque_mpu_symbol_address; Unused where it answers None
Opaque(handle) ==
  IF handle \in 1..Slots
  THEN IF pool[handle] \in {Unused, Reserved} THEN Unused ELSE pool[handle]
  ELSE handle

\* _address_from_symbol
AddressOf(i) ==
  IF IsStatic(i) THEN Declared[i].buffer
  ELSE IF image.mpu THEN Opaque(variable[i]) ELSE variable[i]

\* _scan_symbol_objects; a timer goes by its pcTimerName, where one can be read
ScanSymbols ==
  LET indices == [i \in DOMAIN Declared |-> i]
      used == Without(indices, {i \in DOMAIN Declared : AddressOf(i) = Unused})
      NameOf(k, a, symbol) == IF k = "timer" /\ a \in Obj /\ memory[a] = "timer" THEN "pcTimerName" ELSE symbol
      Row(d, a) == Found(d.kind, a, NameOf(d.kind, a, d.symbol), "symbol", FALSE)
  IN [n \in DOMAIN used |-> Row(Declared[used[n]], AddressOf(used[n]))]

\* iter_static_symbol_objects
StaticSymbols == IF cache = None THEN ScanSymbols ELSE cache

HostKind(o) == IF memory[o] = "eventgroup" THEN "eventgroup" ELSE "queue"

\* iter_waiter_hosts for one task: the members of a queue are tried before that
\* of an event group, so the place taken for a queue comes first.
HostsOf(t) ==
  LET host == Found(HostKind(waits[t].host), waits[t].host, None, "waiter",
                    HostKind(waits[t].host) = "queue")
      queue == Found("queue", waits[t].ghost, None, "waiter", TRUE)
      group == Found("eventgroup", waits[t].ghost, None, "waiter", FALSE)
  IN IF waits[t].host = None THEN << >>
     ELSE IF waits[t].ghost = None THEN <<host>>
     ELSE IF host.kind = "eventgroup" THEN <<queue, host>>
     ELSE <<host, group>>

\* iter_waiter_hosts
WaiterHosts ==
  LET upto[t \in 0..Tasks] == IF t = 0 THEN << >> ELSE upto[t - 1] \o HostsOf(t)
  IN upto[Tasks]

\* Mutation: the symbols come before the registry.
MutChannels == PoolObjects \o StaticSymbols \o RegistryEntries \o ActiveTimers \o WaiterHosts

\* Every finding, in the order of the channels.
Channels == PoolObjects \o RegistryEntries \o ActiveTimers \o StaticSymbols \o WaiterHosts

-----------------------------------------------------------------------------
\* _merge_source
MergeSource(r, source) ==
  IF source = r.source THEN r ELSE [r EXCEPT !.extra = @ \cup {source}]

\* _merge_corroboration: a row without a name takes that of a later channel.
Merge(r, later) ==
  [MergeSource(r, later.source) EXCEPT !.name = IF @ = None THEN later.name ELSE @]

At(rows, a) == {i \in DOMAIN rows : rows[i].address = a}

\* Mutation: an address of another kind is looked at again in a later channel.
MutTake(s, e, kind) ==
  LET r == IF kind \in QueueFamily THEN Refine(e) ELSE e
  IN IF At(s.found, e.address) # {}
     THEN LET i == CHOOSE j \in At(s.found, e.address) : TRUE
          IN [s EXCEPT !.found[i] = Merge(s.found[i], e)]
     ELSE IF r.kind # kind THEN [s EXCEPT !.filtered = @ \cup {e.address}]
     ELSE [s EXCEPT !.found = Append(@, r)]

\* One turn of the loop of discover.
Take(s, e, kind) ==
  LET r == IF kind \in QueueFamily THEN Refine(e) ELSE e
  IN IF At(s.found, e.address) # {}
     THEN LET i == CHOOSE j \in At(s.found, e.address) : TRUE
          IN [s EXCEPT !.found[i] = Merge(s.found[i], e)]
     ELSE IF e.address \in s.filtered THEN s
     ELSE IF r.kind # kind THEN [s EXCEPT !.filtered = @ \cup {e.address}]
     ELSE [s EXCEPT !.found = Append(@, r)]

\* discover, of the findings of the channels
Discover(kind, channels) ==
  LET upto[i \in 0..Len(channels)] ==
        IF i = 0 THEN [found |-> << >>, filtered |-> {}]
        ELSE Take(upto[i - 1], channels[i], kind)
  IN upto[Len(channels)].found

\* One turn of the loop of discover_all; groups of rows by kind.
Place(groups, e) ==
  LET placed == {k \in AllKinds : At(groups[k], e.address) # {}}
      r == Refine(e)
  IN IF placed # {}
     THEN LET k == CHOOSE x \in placed : TRUE
              i == CHOOSE j \in At(groups[k], e.address) : TRUE
          IN [groups EXCEPT ![k][i] = Merge(groups[k][i], e)]
     ELSE [groups EXCEPT ![r.kind] = Append(@, r)]

DiscoverAll(channels) ==
  LET upto[i \in 0..Len(channels)] ==
        IF i = 0 THEN [k \in AllKinds |-> << >>] ELSE Place(upto[i - 1], channels[i])
  IN upto[Len(channels)]

-----------------------------------------------------------------------------
\* The object commands.

\* resolve_object, for the name of a declared variable
ResolveObject(kind, i) ==
  IF AddressOf(i) = Unused THEN None ELSE Found(kind, AddressOf(i), Declared[i].symbol, "user", FALSE)

\* _find_named_object, in the rows of its kind
FindNamed(kind, i, rows) ==
  LET named == {j \in DOMAIN rows : rows[j].name = Declared[i].symbol}
  IN IF named # {} THEN rows[Least(named)] ELSE ResolveObject(kind, i)

\* object_detail, for the queue family: the row it shows, none when the name is
\* unknown or is that of an object known to be of another kind
ObjectDetail(kind, i, rows) ==
  {r \in {FindNamed(kind, i, rows)} \ {None} : Refine(r).kind = kind \/ Refine(r).inferred}

\* render_checks of what a name finds: every row of that name, else the
\* variable's; of the queue family, an object known to be of another kind is
\* passed over
CheckedObjects(kind, i, rows) ==
  LET named == {rows[j] : j \in {n \in DOMAIN rows : rows[n].name = Declared[i].symbol}}
      objects == IF named # {} THEN named ELSE {ResolveObject(kind, i)} \ {None}
  IN {r \in objects : kind \in QueueFamily => Refine(r).kind = kind \/ Refine(r).inferred}

\* Any command that looks for objects.
Command == cache' = StaticSymbols /\ UNCHANGED targetVars

\* FreeRtosAdapter.reset, by gdr init and a new image
Reset == cache' = None /\ UNCHANGED targetVars

-----------------------------------------------------------------------------
Init ==
  /\ image \in Images
  /\ memory \in {m \in [Address -> {"zero", "queue"}] : \A o \in Obj : m[o] = "zero"}
  /\ live = {}
  /\ registry = [j \in 1..Slots |-> Unused]
  /\ pool = [j \in 1..Slots |-> Unused]
  /\ variable = [i \in DOMAIN Declared |-> Unused]
  /\ active = << >>
  /\ waits = [t \in 1..Tasks |-> [host |-> None, ghost |-> None]]
  /\ cache = None

Next ==
  \/ \E o \in Obj, k \in Kinds, i \in 0..Len(Declared) : Create(o, k, i)
  \/ \E o \in Obj : Delete(o) \/ Register(o) \/ Unregister(o) \/ StartTimer(o) \/ StopTimer(o)
  \/ \E t \in 1..Tasks : Unblock(t) \/ \E o \in Obj, g \in Address \cup {None} : Block(t, o, g)
  \/ Reserve \/ Command \/ Reset

Spec == Init /\ [][Next]_vars

-----------------------------------------------------------------------------
Rows(groups) == UNION {{groups[k][i] : i \in DOMAIN groups[k]} : k \in AllKinds}
Slot(o) == {j \in 1..Slots : pool[j] = o}

\* A table of one kind and the summary of all kinds never disagree: the same
\* rows in the same order, with the same names and channels.
TablesAgree ==
  LET channels == Channels
      all == DiscoverAll(channels)
  IN \A k \in AllKinds : Discover(k, channels) = all[k]

\* An object in the registry, in the MPU pool or on a timer list is found,
\* under the kind it is of and in one row, whatever holes other objects left,
\* whatever dangling variable or wrong waiter points at the same place.
FoundAsItIs ==
  LET all == DiscoverAll(Channels) IN
  \A o \in live :
    \/ o \in {registry[j] : j \in 1..Slots}
    \/ Slot(o) # {}
    \/ \E i \in DOMAIN active : active[i] = o
    => /\ \E i \in DOMAIN all[memory[o]] : all[memory[o]][i].address = o
       /\ \A r, s \in Rows(all) : r.address = o /\ s.address = o => r = s

\* A registered object goes by the name of the registry, also where the MPU
\* pool is the channel of record.
NamedByTheKernel ==
  LET all == DiscoverAll(Channels) IN
  \A r \in Rows(all) :
    r.address \in {registry[j] : j \in 1..Slots} => r.name = "registered"

\* Every row is a place of memory that something in the target points at: no
\* index of an MPU handle, no slot reserved for an object in the making.
RowsArePlaces ==
  \A r \in Rows(DiscoverAll(Channels)) :
    /\ r.address \in Address
    /\ r.source \in {"mpu-pool", "registry", "active"} => r.address \in live

\* With the trace facility neither a detail nor a check of the queue family is
\* that of a live object of another kind of the family.
DetailIsOfItsKind ==
  image.trace =>
    LET channels == Channels IN
    \A k \in Kinds \cap QueueFamily :
      LET rows == Discover(k, channels) IN
      \A i \in DOMAIN Declared : \A r \in ObjectDetail(k, i, rows) \cup CheckedObjects(k, i, rows) :
        r.address \in live /\ memory[r.address] \in QueueFamily => memory[r.address] = k

\* Every call is a fresh scan, as discover_all says: an object whose handle is
\* in a declared variable is found by every command.
EveryCallIsFresh ==
  LET rows == Rows(DiscoverAll(Channels))
  IN \A i \in DOMAIN Declared :
       AddressOf(i) \in live => \E r \in rows : r.address = AddressOf(i)
=============================================================================
