# GDR, verified

TLA+ specifications of GDR, a debugger helper in two halves: a Python package that runs inside
GDB, knows RT-Thread and FreeRTOS, and answers questions about the halted target; and a VS Code
extension that drives it through the debug adapter and shows the answers in a panel. The modules
follow the source file by file and name for name; `PROJECT.json` maps every definition to the
lines it stands for.

## The system

| Component | State | Operations | What is hard |
| --- | --- | --- | --- |
| **GDR session in GDB** (`gdr.py`, `gdr/adapter_api.py`, `printers.py`, `watch.py`, `functions.py`, `gdb_bridge.py`, `<rtos>/commands.py`, `<rtos>/version.py`) | the active adapter, the printer lookup, two command trees, watches, caches of the loaded image, the generation; each in a module of its own | `gdr init`, `gdr reset`, `gdr probe`, watch and unwatch, the stop and new-objfile hooks, sourcing the script | a set-up may raise between any two registrations; caches outlive images; nothing but call order keeps the parts together |
| **Transport** (`gdr/api.py`, `gdr/serialize.py`, `vscode/src/transport.ts`, `session.ts`) | the cache of frozen texts, files on disk, what each fetch has pulled | `$gdr_json`, `$gdr_json_chunk`, `$gdr_dump`; `fetch`, `fetchSnapshotFile`, `fetchViaFile` | an envelope is pulled by many evaluates; stops and other fetches come in between; the cache is cleared when full; file names may collide |
| **Session initialization** (`vscode/src/session.ts`, `probe.ts`, `inject.ts`) | what the extension takes for initialized, the cached answers, the runs of `onFirstStop` under way | probe, decide, ask, `gdr init`, verify | every step is an evaluate; runs overlap; the user types commands too; the cache outlives firmware |
| **RTOS views panel** (`vscode/src/panel.ts`, `extension.ts`, `tracker.ts`, `snapshot.ts`) | an entry per session (status, snapshot, frame id, timer, flags, heap map), the tabs | tracker events, the debounced refresh, heap maps, buttons | events and answers are handled late and out of step with the target |
| **Bounded walks** (`gdr/layout.py`, `freertos/navigation.py`, `events.py`, `diagnostics.py`) | the item, what was seen, the count left | five readers of a linked list, the list checks | the list may be cyclic, cut, unreadable, or halted between two stores of the kernel |
| **FreeRTOS objects** (`freertos/navigation.py`, `adapter.py`, `layout.py`) | the scan cache | six channels of discovery and their merge, classification, tables, summary, detail, the task lists | the channels disagree about kind and name; handles outlive objects; a task is on no list for a moment |
| **FreeRTOS decoding** (`freertos/timers.py`, `streams.py`, `events.py`, `diagnostics.py`, `gdr/derive.py`) | none | queues, stream buffers, event groups, timers, stack marks and the checks on each | wrap-around of rings and ticks; two stores for one fact |
| **FreeRTOS heap** (`freertos/heap.py`) | the walk | the free list and the linear walk, their cross-check | stale headers, one overwritten word, a halted allocator |
| **RT-Thread objects** (`rtthread/navigation.py`, `adapter.py`, `diagnostics.py`) | none | registry, wait lists, current thread, timers, tables, stores and their chains | several CPUs, a thread that exits, a symbol that goes stale; a timer in its own callback |
| **RT-Thread heaps, heap map** (`rtthread/diagnostics.py`, `heapviews.py`, `gdr/heapmap.py`) | none | the walks of small_mem, memheap and slab, the counters, the verdicts; cells, rows and folds of the map | headers counted or not; blocks that overlap or leave gaps; more blocks than cells |
| **Webview and presentation** (`vscode/src/webview/*`, `diff.ts`, help, tables) | view state | rendering, column layout, differences | little that interleaves |

The extension calls GDR only by evaluates on the debug adapter: `gdr init` as a console command,
everything else as a convenience function that returns a string. GDB runs one command or hook at
a time, and only while the target is stopped. The extension host is one thread too, but every
`await` hands control to the other handlers. Panel uses a session's `fetch`, which Transport shows
to be atomic; SessionInit runs the commands of GdrRuntime.

## Modules

| Module | Of | State and actions |
| --- | --- | --- |
| `AtomicFetch` | what a fetch promises | A fetch begins, and answers nothing or one envelope of the verb it asked for, computed in between. |
| `Transport` | both ends of the transport | `BeginFetch`/`BeginSnapshotFile`, `Ask` (the first `$gdr_json`), `Pull` (one `$gdr_json_chunk`), `DumpOpen`/`DumpWrite`/`ReadFile` (the file route), `EvaluateFails`, `Consume`, and a stop (`NextGeneration`). A text is the sequence of its frames; a frame shows the data, the last one closes over the whole envelope, as `pack_envelope` orders the members. Refines `AtomicFetch`. |
| `TransportProofs` | | the proofs about `Transport` |
| `Panel` | panel and tracker events | one action per tracker event (`Started`, `Running`, `Trace`, `Terminated`), per answer (`SnapshotAnswered`, `RequestedMapAnswered`, `FollowingMapAnswered`, `InitAnswered`), the debounce timer, the buttons, and the target and GDB underneath. Methods of the panel are operators on a session's entry. |
| `PanelProofs` | | the proofs about `Panel` |
| `GdrRuntime` | GDR inside GDB | one record, `gdr`, with a field per module of the code; `Reset` and `SetupOutcomes` say what a reset and a set-up make of it, so `gdr init --force` is their composition. A set-up that raises leaves what `InterruptedAt` says for the stage. |
| `SessionInit` | initialization by the extension | extends `GdrRuntime` with the runs of `onFirstStop`: `FirstStop`, `Probe`, `Decide`, `Pick`, `EvaluateInit`, `Verify`; the debug session, its stops, and the commands a user types. |
| `SessionProofs` | | the proofs about `GdrRuntime`, and those about `SessionInit` that rest on them |
| `HeapWalk` | the FreeRTOS heap snapshot | one action per turn of the loops of `walk_free_list` (`ListStep`, `ListStops`) and `walk_linear` (`LinearStep`, `LinearStops`), `BeginSnapshot`, `CrossValidate`; the memory is whatever the target left. `HeapReport` is what the console shows of it: the pairs, the block table, the check of the system. |
| `FreeRtosHeap` | the snapshot and the kernel it looks at | extends `HeapWalk` with `pvPortMalloc` and `vPortFree` cut where the target may be halted, a task that writes its own memory, and one that overwrites a word of the heap. |
| `FreeRtosHeapProofs` | | the proofs about `HeapWalk`, and those about `FreeRtosHeap` that rest on them |
| `ListWalk` | bounded walks | `Begin`, one `Turn` per turn of whichever reader's loop, `Stop`, `Continue`; the kernel's `BeginInsert`/`Link`/`Unlink`/`Count` by single stores, and a `Fault` that overwrites or hides a word. The verdicts of `list_checks` and `task_checks` are operators. |
| `ListWalkProofs` | | the proofs about `ListWalk` |
| `Queues` | data queues, semaphores, mutexes | the calls of `queue.c`, each cut between its pointer and its count (`SendCopies`/`SendCounts`, `TakeCounts`/`TakeHolds`, ...); `QueueItems`, `TimerCommands`, the rows and `QueueChecks`. |
| `StreamBuffers` | stream, message and batching buffers | `SendCopies`/`SendCommits`, `Receive`, `Reset`, `Delete`; bytes, space, trigger, the next message's prefix, the row. |
| `EventGroups` | event groups | `WaitBits`, `Timeout`, `ClearBits`, and `SetBits` item by item (`Skip`, `Rewrite`, `Unlink`, `Finish`); `DecodeWaiter`, the row, the check. |
| `Timers` | software timers and the daemon | `Tick`, `Call`, and the daemon's steps (`FlushUnlinks`, `Switch`, `ExpireUnlinks`, `Settle`, `Receive`, `Obey`, `Sample`); epochs, `ExpiresIn`, the table and the checks. |
| `Stacks` | stack marks of both RTOSes | `Push`, `Pop`, `Switch`; `FillWatermark`, `ValueToTask`, `ValueToThread`, the inferred direction. |
| `FreeRtosTasks` | the task lists | the calls of `tasks.c` with a suspended scheduler and pended ticks; `IterTasks`, `TaskState`, `CoreOf`, the task table, the summary, the count and unblock checks. |
| `FreeRtosTasksProofs` | | the inductive invariant of `FreeRtosTasks` |
| `Discovery` | object discovery | objects come, go, are registered, listed and waited on; `Command` is one GDR command, `Reset` drops the scan. The six channels, `Merge`, `Take`, `Discover`, `DiscoverAll`, the selection of the checks, `ResolveObject`, `ObjectDetail`. |
| `KernelObjects` | the seven modules of FreeRTOS objects and tasks, from `Queues` to `Discovery` | one behaviour is about one of them (`object`). |
| `KernelObjectsProofs` | | the proofs about its queues, event groups, timers, stacks, tasks and handles |
| `RtThread` | RT-Thread threads and objects | threads and objects come and go, wait, are switched in two steps, exit; `FindObject`, `ObjectTable`, `TaskTable`, `SystemSummary`, the waiters of an object, the scopes of `rtt check` and the registry checks. |
| `RtTimers` | RT-Thread timers | `Tick`, `InitTimer`, and by single stores `rt_timer_start`, `rt_timer_stop`, `rt_timer_detach` (`Call`, `Clear`, `Link`, `Activate`, `Unregister`) and the two timer checks (`Expire`, `Fire`, `Return`) with callbacks that call anything; the union of lists and registry, look-up, the row, the check. |
| `RtStores` | RT-Thread mailbox, message queue, memory pool | the calls of `ipc.c` and `mempool.c` by single stores, messages copied by several parties at once; slots, chains and verdicts. |
| `RtHeap` | RT-Thread heaps | an allocation and a free in three steps each (`Split`/`Count`/`Mark`, `Unmark`/`Discount`/`Merge`), `TurnPage` of slab, `Overwrite`; the walks turn by turn as recursive functions, the snapshot and the verdicts. |
| `HeapMap` | the heap map | no state: spans, distribution of cells, runs, folds, and the rows of the bitmap, as operators. |
| `RtTarget` | `RtThread`, `RtTimers`, `RtStores`, `RtHeap`, `HeapMap` | one behaviour is about the threads, the timers, a store or the heap (`part`). |
| `RtTargetProofs` | | the proofs about its threads, objects, timers and stores |
| `MC*` | | constants for the runs |

A table, a detail or a check of GDR is computed from one kind of object at one stop. So the two
compositions let a behaviour be about one component at a time: what is shown is still compared
between two stores of the kernel, but the components do not multiply each other's states.

A handler is cut into actions exactly at its awaits, at its evaluates, and where GDB writes a
file the client may read meanwhile. Commands and hooks of GDB are one action each.

Operators named `Mut...` precede the definition of the same name and change it the way a slip in
the code would: each property is shown to fail for one of them.

## Runs

| Run | Question | Bounds |
| --- | --- | --- |
| `transport` | Is a fetch atomic, whatever interleaves? Does a transfer fail without cause, a stale answer pass? | two fetches, two verbs, texts of one to three frames, a cache of one text, one stop, one time stamp |
| `panel` | Does a map fall behind its snapshot, an ended session call GDB, a target left at a stop not appear? | one session, two stops, two unhandled events and answers |
| `gdr_runtime` | Does silence mean a verified image? Does an adapter go with all that was made for it, and come with its own layout? Does the generation tell? | two RTOSes, three images, three versions, set-ups raising at three stages, the script sourced twice, three generations |
| `session_init` | Does the extension guess, force or replace an adapter? Is what it records what is active? Does it initialize in the end? | two sessions of two stops, four firmwares, four settings, a user at the console |
| `list_walk` | Is a sound list read whole by every reader? Is an ended walk a closed chain? Do the checks tell a broken list? Does every walk end? | three items, a limit of two, two builds, one overwritten or unreadable word |
| `freertos_heap` | Is a healthy heap read as it is? What is an "ok" worth? Is an overwritten word noticed? | heaps of four cells, sizes of one and two, six kinds of heap (heap_5 with one region and with two) and one image without a heap, a traversal bound of three, one overwritten word of five values, one write of a task |
| `kernel_objects` | Is what GDR decodes what the kernel holds? Where it cannot be, is it of the object in the kernel's hand? | queues of one to three items of one and two bytes; a ring of eight bytes with a prefix of two; two tasks waiting for two bits; one timer, a tick of five values, a daemon up to two ticks late; stacks of three words; two tasks on one core and on two; three objects, two registry slots, two declared variables |
| `rt_target` | Do rows select what they show, of timers with the ticks truly left, is one thread current, is a store listed as it is held, is a healthy heap read, is agreement forged by one word, does the map draw the blocks read? | two threads, two CPUs, two objects of one name, two timers of three shapes under a tick of eight values, soft ones late by one tick at most, stores of three places used by two parties, four kinds of heap with at most four blocks and a traversal bound of three, one overwritten word of six values, maps of twelve cells |

Two fetches are enough for a transfer to be displaced in each way the code knows (a stop, a
re-seed of its key, an eviction by another), three frames give a first, a middle and a closing
one, and a cache of one text is full with the second key, as the real one is with the ninth. Two
stops let anything of one stop meet the next. Three generations hold a set-up, a reset and a
second set-up with a hook between them. In SessionInit one firmware lets a cached answer
meet an image without the RTOS, another lets one that exports both versions open two questions. Four cells
hold two allocated blocks with a hole between them and one after, stale headers inside merged
blocks included; a traversal bound of three lets some of these heaps exceed it and others not;
the overwritten values serve as a size, an allocated size, a pointer to a block, to data, to
nothing readable, and as NULL. Three list items give lists below, at and beyond the limit, and a
cycle that misses the end marker. A ring of eight bytes is filled by three messages whose prefixes
start at every position, the straddling one included. A tick of five values wraps within two
periods, with timers on both lists; one of eight, for RT-Thread, keeps every distance a timer can
have, the late ones too, within half of the range, as `rt_timer_start` asserts. Two threads on two CPUs leave one CPU idle, between two
threads, or without its scheduler while the other runs. A store of three places is as long as the
traversal bound of its run, so its chains end exactly at the bound; a longer one is cut by the code and
excluded by `StoreAssumption`. Two parties copy a message each while a third place is queued. A map of twelve cells has fewer cells than
the heap has bytes. The counters a bound stops, and the properties that would need
more of them, are named in the modules.

`kernel_objects` and `rt_target` check invariants only, and the permuted values (tasks, threads,
timers, objects) appear in no order and no `CHOOSE`, so symmetry is sound there.

Deadlock is checked where the system never stops (`transport`, `gdr_runtime`, `freertos_heap`,
`list_walk`); the runs of the extension end with the last session, and the targets of
`kernel_objects` and `rt_target` may be out of objects to create, ticks to count, words to overwrite.

A module's type invariant is checked with one of its properties: `MapNotBehindSnapshot`,
`ProbeIsConfirmed`, `SoundIsWhole`, `StateIsTruth`, `TablesAgree`.

Four more runs show where a document or comment of the repository promises more than the code
keeps; `PROJECT.json` quotes each of them.

- `panel_off`: with `gdr.refreshOnStop` off no frame id is ever recorded, so neither the refresh
  after the initialization nor the button reads anything.
- `freertos_heap_skipped`: where `ucHeap` does not resolve, the linear walk is skipped, but the
  cross-check compares its missing byte count with the free list's: a healthy heap is a
  "mismatch" and its status "corrupt".
- `discovery_fresh`: the scan of the symbols is cached with the values of the handle variables,
  though discovery promises a fresh scan at every call.
- `rt_target_overrun`: a small_mem heap without a free block has used one header more than its
  total, and is reported as overrun.

### What else the code does, against its words

These were met while modelling; no run is about them.

- A set-up that raises after `register_printers` leaves its lookup (`printers.py:198`). No adapter
  is active, so `gdr reset` is refused, and the set-up of the other RTOS keeps the lookup it finds:
  objects fold through the layout of the RTOS that failed. `DroppedWhole` says that this is the one way
  to it.
- `capabilities` answers for whatever adapter is active (`session.ts:303`). An init refused
  because another adapter was there is recorded, and cached for the next session, as done. It takes a user:
  one who types `gdr init`, or who picks different versions in the questions of two overlapping runs.
  `RecordedIsActive` says that nothing else leads to it.
- An answer handled after the resumption marks a running target ok (`panel.ts:331`), until the
  next stop.
- A good re-read at the stop of a failed one is dropped by the freshness guard and the error
  stays (`snapshot.ts:521`).
- Between the wrap of the tick and the daemon's switch of the lists, the timer table resolves both
  lists to the other epoch, and its expiries are off by a turn of the counter (`timers.py:115`).
- `timers.py` and `diagnostics.py` explain a timer whose status and list disagree by a queued
  start or stop. Such a command changes neither; only the daemon's own steps make them disagree
  (`InStepUnlessInHand`).
- `rtthread/diagnostics.py:963` asks of an active timer on no list whether it was "detached without
  stopping". The kernel's detach clears the flag too; the timer it means is a periodic one whose
  callback is running, where every halt in that callback finds it so (`TimersAreTrue`).
- No word reaches the checks of an RT-Thread message queue: the scope `messagequeue` is accepted,
  but `resolve_object_type_code` knows the class as `msgqueue` and finds none, and `msgqueue` is
  not one of `CHECK_SCOPES`, against the usage line (`rtthread/checks.py:114`) and the help
  (`rtthread/help_docs.py:169`). `CheckScopes` and `Classes` have the words as they are.
- A task whose state and event items are both unlinked is shown as deleted, against the comment
  above that branch (`navigation.py:308`).
- `_iter_list` and `iter_waiters` end a list of exactly `max_count` items as if it went on; only
  `iter_list` looks one step further.
- One overwritten link of a memheap that leads back to a stale header, whose own link is still
  good, closes the walk: `HeapChain` is ok over blocks that overlap, and counters the image lacks
  are filled from that walk. `AgreementIsTrue` says what two "ok" verdicts are worth then.
- The map of a memheap ends at the address its walk stopped at (`rtthread/diagnostics.py:731,762`), which in a
  corrupt one is the value of the damaged link. If that leads back, blocks that were read before the damage
  are cut or missing, and if it leads before the first block nothing is drawn at all; a message says that
  "blocks past the damage are not drawn", and the docstring that the walk "still returns the blocks it read"
  (`rtthread/adapter.py:1398-1410`). `EveryByteIsDrawn` has this case as its exception, and shows it for memheap
  only: small_mem stops before such a link and ends its map at the heap's own end.

## Fairness

`Panel` (`FairSpec`): the event loop handles every event, timer and answer that is due, the
launch-time Python check has a deadline, and GDB answers every evaluate, if only with an error.
Nothing is assumed of the target or of the reader. `SessionInit` (`ClientSpec`): the host carries
every run on, except for the question, which a user may leave open for ever. `ListWalk` (`Spec`):
GDB runs a command to its end, so a loop goes on with its next turn while the target is halted;
nothing is assumed of the kernel. `WalkEnds` needs no more. `CatchesUp` and
`Converges` speak only of a target that stays at a stop. Every other property is a safety
property and needs no fairness.

## Proofs

The theorems hold for every value of the constants that satisfies the assumption of their module:
any number of fetches, keys and frames, any cache limit; any sessions, stops and answers under way;
any RTOSes, versions, images and stages that raise; any memory, any image and any traversal bound, FreeRTOS heaps of any regions, requests and overwritten words;
any list items, limit and number of overwritten words; any tasks, notification slots and width of
the tick; queues of any length and item size, any events and waiting tasks, software timers under a
counter of any width, stacks of any size; any objects, slots, declared variables and images for discovery;
any threads, objects and CPUs of RT-Thread, any timers and number of ticks, stores of any number of places, mails and parties.
The assumptions say what the constants are (finite sets of tasks, positive sizes, a bound that
covers what it bounds) and that `None` and the names a module itself uses are not among them.

| Module | Theorems about properties of the runs |
| --- | --- |
| `TransportProofs` | `OnlyDisturbedFail`, `StaleRefused`, `FetchAtomic` |
| `PanelProofs` | `MapFollowsSnapshot`, `EndedStaysQuiet` |
| `SessionProofs` | `UnnotedIsVerified`, `AdapterDropsWhole`, `GenerationMovesOn`, `ProbedIsConfirmed`, `RecordedStaysActive` |
| `FreeRtosHeapProofs` | `OkAgrees`, `KernelOkAgrees`, `HealthyHeapIsOk`, `OverwriteSeen` |
| `ListWalkProofs` | `SoundLists`, `CleanLists`, `ListChecksTell` |
| `KernelObjectsProofs` | `DumpsAreContent`, `HealthyQueuePasses`, `WaitersAreAsAsked`, `StackRowsAreTrue`, `TimersAreTrue`, `StatesAreTrue`, `TasksAreWalkedOnce`, `TaskChecksPass`, `TablesAndSummary`, `KeptIsFound`, `RegistryNames` |
| `RtTargetProofs` | `RowsSelectHolds`, `WaitsOnceHolds`, `CurrentIsOneHolds`, `StoresAreListed` |

*Transport.* `TypeOK` is proved with `Shape`: a fetch in the pull phase holds the envelope of its
meta frame. The frames it joins are accepted only when they equal the text of that envelope, and
parsing that text gives the envelope back (`ParsedText`), so an accepted answer is one computation
(`AcceptedIsUnspliced`, `NoStaleAcceptance`). Unless the fetch was disturbed, what it has joined is
a prefix of that text, so it is rejected only if disturbed. Two fetches may share a file name;
what matters is that a file holds an envelope of the verb in its name, computed after every fetch
now reading it began, since a dump holds GDB until it is written (`Timely`), and that some record
accounts for every file (`NoStrayFile`). `CacheBounded` rests on the cardinality theorems of the
library. `FetchIsAtomic` maps every step to a step of `AtomicFetch` or to a stutter. Two facts are
taken as the model states them and not derived: sha256 has no collisions, and the adapter delivers
an evaluate's result whole.

*GdrRuntime.* None of the properties is inductive. That the printer follows the adapter needs that a lookup without
an adapter was left by an interrupted set-up (`OwnPrinter`); that an adapter comes last needs
that it is never there without its tree (`Whole`); that a missing note means a verified image
needs the note tied to the image of the set-up, not to the present one (`Confirmed`); that caches
follow the image needs that nothing is cached before the hooks are connected (`Fresh`). `Inv` is
their conjunction. Lemmas state each part for a set-up and for a reset, so that `gdr init
--force` is their composition, and the theorem has one step per action. `DroppedWhole` and
`GenerationTells` are action properties from the same invariant.

*HeapWalk.* The memory is arbitrary; all that is assumed is that it does not change while GDB reads
a halted target. The invariant says of every block found that its size is the one in its header
(`ListShape`, `LinearShape`), that addresses on the free list do not repeat, and that the blocks of
the extent follow one another with positive sizes. `OkIsAgreement` needs more than what
`cross_validate` compares: before the allocated bit of heap_2 a free block of the extent is by
definition one of the free list, so the two sets are nested, and equal counts of distinct addresses
(`Counted`, `DistinctCount`) make them equal; one memory then gives equal sizes. `OkIsDisjoint`
carries the tiling of the extent over to the free list. `WalksTraced` adds what a finished walk has
followed: each block is where the link of the one before leads, the bytes are the sum of the sizes, the holes are
the free blocks where no two touch, and the walk stopped for one of the code's reasons.

*FreeRtosHeap.* The kernel's invariant (`KernelInv`) is about where blocks are and about what memory says
of them. The blocks of the free list, the allocated ones, those being freed and the one `pvPortMalloc`
holds fill the regions (`Laid`): a first one at the base, after each the next one or the end of a region,
no two overlapping. Each starts on a cell, so that splitting and merging leave headers that fit. The list
is in the order of addresses but for heap_2, heap_4 leaves no two free blocks that touch (`Merged`), and
the counter is the sum of the list, but for the block of a call under way (`Counts`). None of it is
inductive alone: a split is inside a region because the block was, a merge loses no byte because the
neighbours touch, a task's write misses every header because no header lies inside a block. A sum is said
to exist with its partial sums (`SumIs`), as a function, and the lemmas say what inserting, removing and
replacing a block make of it; two sequences of the same blocks have the same sum (`SumUnique`, by
induction on the length along the naturals). Links, sizes and counter in memory are those of the list
while nothing was overwritten; after one fault every size still is, or every link and all sizes but one
(`OneOff`). `KernelIsATarget`, a lemma, says that
memory changes only between snapshots and keeps its types, which gives every theorem about the walks for this
kernel, `KernelOkAgrees` among them. `HealthyHeapIsOk`
reads: a walk of true links is the list; in an extent that is filled, the linear walk steps from block to
block and tells free from allocated by the bit, or by the list, and no block is missed up to the end; so
the sums are equal, the holes are the free blocks and the rows are the blocks. `OverwriteSeen` has two
cases. Where the word is a link, the head or the counter, every size is true, and the walk of the extent,
which follows sizes only, still meets the heap's blocks; an "ok" makes those of the list the same. Where
it is a size, the list is still followed to its end, and a sum that equals the counter leaves no room for
one false size. `HeapAssumption` says of the regions what the kernel's own alignment and configuration
give: in order, with room for the end marker between them, below the allocated bit, one region except for
heap_5, bases on cells of the port's alignment and requests rounded up to them. The values of overwritten
words are arbitrary naturals.

*ListWalk.* No property of a walk is inductive without the kernel's side of it (`ListInv`): over a
list nobody broke, the pxNext words of the end marker and of the members form a chain through the
members in order (`Chains`), at every halt; an item being inserted already points to what will
follow it; the number of items lags by the operation under way; and one overwritten word leaves a
chain with a single bad link (`ChainsBut`). `InsertChains` and `RemoveChains` show that the one
store of a link or an unlink makes the chain of the members afterwards. A walk follows the words it
reads (`WalkInv`, which also keeps the items distinct for the readers with a set of nodes), so over a whole list it
has taken a beginning of the members (`PathInv`); since the set is whole only at the end marker,
`SoundLists` follows, and the search finds exactly a member. Over a list with one bad link the raw walk
has taken a beginning of the members that skips forward at most once (`SkipInv`): a link that leads
back is noticed as a cycle, and a count that agrees leaves nothing to skip. So `ListChecksTell` needs
no induction over the list: the walk is the induction.

*Panel.* The difficulty is that GDB takes calls in any order while answers are handled in the order
they come. `Ordered` says that the answers under way to a session are in the order of the stops
they are of, whoever asked, and `Ahead` that none of them is older than the snapshot shown. A map
that is delivered is then not older than the snapshot beside it, and one that a snapshot overtook
is there only while another is awaited (`MapCurrent`). For `EndedIsQuiet`, an action property, the
last event of a session that is gone is its end, and after it there is neither tab nor timer
(`EndComesLast`).

*SessionInit.* Between its probe and its `gdr init` a run of `onFirstStop` carries what it learnt
while other runs and the user change the session under it. It stays true because the image is that of the
session: `Carried` says so of every run between the probe and the init, and `Founded` says who set the adapter
up and what that tells of it. What a set-up makes of the session is taken from the
lemmas about `GdrRuntime`, which stand before it in the same module. For `RecordedIsActive` the runs of a
session must agree although each decides by the cache of its moment, which another has written meanwhile:
`Meant` is what settings, cache or probe say at present, without a choice it is one target (`MeantIsOne`),
and every open question, every init under way, the adapter and the record are that one (`OneAim`).

*FreeRtosTasks.* GDR derives a task's state from the lists its two items are on, so the invariant
says which lists those are for what the task does (`Shape`), which core a running task is on and
that pxCurrentTCB and xTaskRunState name the same tasks (`Placed`), that nothing is delayed before
the scheduler starts, that the cached deadline is not later than any wake time of the list in
use (`Deadlined`), and that the count is the number of tasks. A theorem about
every state of the lists needs one lemma per call of the kernel; where a call moves many tasks (a
tick, the resumption of the scheduler) the cached deadline is the least of a set of wake times, which
exists because the naturals are well-founded (`LeastIsLeast`).

*KernelObjects.* A behaviour of it is about one kind of object, so each of its theorems is an
invariant of that object's module. For the tasks it is the one above. For the queues (`QueueInv`) the two stores of a send or a
receive are apart, so it ties the pointers to the storage, the counts to the operation in hand (`RingSound`),
and the count of a mutex to its holder, but for the store in hand (`MutexSound`). The dump of a ring needs the content as well (`ContentInv`): the slot
behind read pointer plus i holds item i of the content (`RingHolds`), modulo the length, and `Shelved` says what the
pointers tell already while the count does not. The ring lemmas state the modular arithmetic once, by cases
below twice the length. For the event groups
(`GroupInv`) a waiting task's item holds the bits and options it asked for until the setter that
releases it rewrites it, and the setter's walk stands at a member. For the stacks (`StacksInv`) the first
byte in the direction of growth is written, a stack that was not prefilled counts as written
throughout, and the live and the saved pointer lie between the frame and the end.

*Timers.* GDR resolves an expiry against the list it is on; the model counts the ticks since the start. The
daemon reads the tick once and acts on that sample for a while, so `TimersInv` says how old its sample
and each waiting command are, and how far the tick can have gone on since. A linked timer is where
the daemon will look in time: its expiry, a turn later if it is on the overflow list and a turn
earlier while the tick has wrapped and the lists have not been switched, is the moment it is due.
An active timer on no list is in the daemon's hands, the timer of the command it obeys is on no list, and a
timer about to be reloaded has its next moment still to come. Two moments that differ by less than a turn have
distinct remainders, which settles each case of the placing (`Place`) and of the reading (`ExpiresIn`).

*Discovery.* The properties compare two folds over what six channels find. Both are recursive
functions; `TurnsExist` shows that a function defined turn by turn has its value at each turn, and
`UpTo` that what every turn keeps holds at the last (the naturals are well-founded, which needs no
induction theorem). Then the argument is turn by turn. `GroupsAre` says what the rows of `discover_all`
are after so many findings: one row for each address found, of the kind and channel of the first finding of that address,
under the name of the first finding of it that has one. `InStep` says that `discover` of one kind keeps
the same rows as the group of that kind, with the addresses of all other groups filtered; it holds
for any findings whatever, so `TablesAndSummary` asks nothing of the target. The other two theorems do: `HandlesSound`
says that registry slots, pool entries and timer lists hold live objects, and `Heard` that the channels which read them
come before those that guess from symbols and waiting tasks, so the first finding of a kept object is the kernel's.
`Without`, which skips empty slots, is a recursive function too. The assumption says what the code takes for
granted of numbers: no address is a handle's index, the mark of a slot, or none.

*RtTarget, threads.* `TargetInv` says that each live object is registered once, in the registry of
its class (`Registries`), that a thread on a wait list is suspended, in no call that moves it, and on
that list alone (`Waits`), and that what a CPU runs or is switching to was created (`RunsBorn`). The wait
lists are lists in an order, changed in the middle; `Linked` and `TakenOut` say once what inserting at a
place and taking an item out do to the members, and every action is proved from them. That an address selects
its own row needs that none of the names and identifiers reads as an address, which the assumption states: an
expression that names an object is one thing to the user, and the code tries name, symbol and
address in that order.

*RtTarget, timers.* The model counts for every linked timer the ticks it has left; the code has only the
timeout, which wraps. `TimerInv` ties the two: the timeout is so many ticks ahead, or behind while
the timer is late, less than half of the range either way (`Listed`), so the difference modulo the
range tells them apart (`Away`), and the place that `rt_timer_start` looks for in the list is
the right one across the wrap (`Between`, `FirstPlace`). A tick keeps this because no hard timer is due
when the interrupt ends, and the soft ones are as late as `MaxLag` at most. The flag is that of the
lists but for the timer of a call under way and a periodic one in its callback (`Held`, `Flagged`),
which is what `TimersAreTrue` claims of the check. `iter_timers` is a recursive function. A set of numbers that has 0
and the successor of each of its members has them all, because the naturals are well-founded
(`UpTo`), so such a function exists (`RecursionExists`) and what it returns follows from
one step of it (`ThenIs`).

*RtTarget, stores.* `StoreSound` is one invariant per kind of store. In a mailbox the slots from the reading
offset on hold the content, modulo the size, except for the one store a call is ahead by. In a queue and
a pool the kernel keeps chains of pointers, and the invariant says what they are as sequences: one link leads
from each node to the next and the last to none (`ChainOf`), no node is in two places (`EachOnce`), and
chains and hands together have every place, so their lengths add up to the number of places. Lemmas say what
a store at the head, at the tail or at a node in hand does to a chain. `_walk_list` stops at the end, at
a node seen before or at the bound; over a chain of distinct nodes no longer than the bound it returns
the chain, since the first stop there is the end. `ListedIsContent` then compares sequences, and a count that differs
is the number of hands, as `MismatchIsInFlight` says.

Some theorems state properties that no run repeats, because the theorem says more than the run
would: the type invariants, `AcceptedIsUnspliced`, `CacheBounded`, `NoStrayFile`, `FoldsItsOwn`,
`ActivatedLast`, `CachesAreOfTheImage`, `WatchesFit`, `WalksAreBounded`, `LinearTiles`,
`OkIsDisjoint`, and the inductive invariants.

Only model-checked, and why:

- `CatchesUp`, `Converges`, `WalkEnds`: liveness is out of the reach of the proof system.
- `BytesAreTrue`, `NextMessageIsNext` of the stream buffers: what a ring holds is a sum over its
  messages, and a prefix is a sum over its bytes; the sums are folds of the library, which take an operator
  as a parameter, and what a sum over a sequence is after a change in its midst is an induction over data.
- `HealthyIsRead`, `AgreementIsTrue`, `EveryByteIsDrawn`, `FoldsHideNoUsed` of the RT-Thread heaps and
  the heap map: sorted sequences, sums of sizes and folds of runs.

## Not modelled

- The wording of messages, tables, help, rendering, fonts.
- The launch: where the runtime is found, the loader script, the Python check (its result is an
  input of `Panel`).
- Field tables per kernel version and build option. The kinds of an adapter are constant in
  `GdrRuntime`; in the code build options narrow them.
- What a verb computes: a member of `Data` in `Transport`, a generation in `Panel`.
- In `GdrRuntime`: the singleton targets of a watch, and the port cache of the FreeRTOS adapter.
- In `Panel`: layout, column, memory and source messages of the webview. Two requested heap maps
  are not outstanding at once, although nothing prevents the reader from it.
- In `HeapWalk`: the look-up of macros, symbols and types, `xEnd.xBlockSize` read from the adjusted
  size instead, statistics that are only shown, heap_1's bump pointer (no walk runs).
- A target halted inside `pvPortMalloc` or `vPortFree` disagrees with itself and is reported corrupt.
  The code cannot tell; `HealthyIsOk` is stated for a heap no call is inside.
- `cacheKey`: the sessions of `SessionInit` are those of one launch configuration.
- Of the tables: labels, colours, source links, and cells that copy one field (priorities, flags,
  callbacks, the name of an owner). Waiting tasks of stream buffers and of FreeRTOS queues.
- Of FreeRTOS: list integrity words, `uxTopReadyPriority`, the MPU pool's own layout, run-time
  counters, the program counters of blocked tasks. Before the timer daemon has created its lists the
  timer table is a message; `Timers` begins after that.
- Of RT-Thread: interrupt nesting, timers that are linked but in no registry (a kernel without
  objects of their class), the symbol route to a timer, the checks of a thread that
  compare one field, the owner of a mutex.
- Of the heap map: the palette, the ranking and the legend's text (its height is a constant), the
  PNG and terminal encodings. A slab map has no blocks, as in the code.
- What the RT-Thread kernel makes of a heap it finds overwritten: it stops there in `RtHeap`.

## Plan

Everything the inventory plans is modelled and checked. Of the properties the runs check, those
listed above as only model-checked are not proved. What could follow:

1. The sums of `StreamBuffers` in the way of `SumIs` of `FreeRtosHeapProofs`, which needs no recursion: what a
   ring holds is the sum over its messages. The same for the RT-Thread heaps, whose walks are recursive functions.
2. The row matching of `diff.ts` and the canvas mapping of the webview against reference definitions, and the
   MPU pool's own layout.
