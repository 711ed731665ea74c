------------------------------ MODULE ListWalk ------------------------------
(***************************************************************************)
(* The walks of GDR over a linked list of a halted target: iter_list       *)
(* (gdr/layout.py), the four readers of a FreeRTOS List_t (_iter_list and  *)
(* _list_contains_item of freertos/navigation.py, iter_waiters of          *)
(* freertos/events.py, walk_list_raw of freertos/diagnostics.py), and the  *)
(* verdicts of list_checks and task_checks on what the last one found.     *)
(*                                                                         *)
(* One action is one turn of a loop.  The kernel whose list it is links    *)
(* and unlinks items one store at a time and may be halted between two of  *)
(* them; words of the list may be overwritten or become unreadable.        *)
(*                                                                         *)
(* GDB reads lazily: an unreadable item is noticed where one of its        *)
(* members is converted, not where it is dereferenced.  Items stand for    *)
(* their owners, the readers' casts and names are left out.                *)
(***************************************************************************)
EXTENDS Integers, Sequences

CONSTANTS Node,       \* list items
          MaxCount,   \* max_count, GDR_MAX_TRAVERSAL_COUNT by default
          Builds,     \* images: SMP or not, with a section map or without
          MaxFaults   \* words overwritten or lost in one behaviour

VARIABLES build,      \* the image
          next,       \* pxNext of every item and of the end marker
          dark,       \* items that cannot be read
          head,       \* uxNumberOfItems, pxIndex, and whether xListEnd holds portMAX_DELAY
          members,    \* the list as the kernel means it
          op,         \* the kernel's operation under way
          faults,     \* words overwritten so far
          walk        \* the walk under way, or the last one

listVars == <<build, next, dark, head, members, op, faults>>
vars == <<listVars, walk>>

End == "xListEnd"
Null == "NULL"
Wild == "wild"          \* an address outside every loadable section
NoRead == "unreadable"  \* a value that raises when it is converted

Place == Node \cup {End}
Word == Place \cup {Null, Wild}

ASSUME WalkAssumption ==
  /\ Node \cap {End, Null, Wild, NoRead} = {}
  /\ MaxCount \in Nat
  /\ Builds \subseteq [smp : BOOLEAN, ranges : BOOLEAN]
  /\ MaxFaults \in Nat

Walkers == {"iter_list", "_iter_list", "iter_waiters", "_list_contains_item", "walk_list_raw"}
Endings == {"", "end", "found", "null", "cycle", "bound", "wild", "unreadable"}

TypeOK ==
  /\ build \in Builds
  /\ next \in [Place -> Word]
  /\ dark \subseteq Node
  /\ head \in [count : Nat, index : Place, sentinel : BOOLEAN]
  /\ members \in Seq(Node)
  /\ op \in [kind : {"none", "insert", "count"}, item : Place, after : Place, by : {-1, 1}]
  /\ faults \in Nat
  /\ walk \in [by : Walkers, item : Place, node : Word \cup {NoRead}, path : Seq(Node \cup {Wild}),
               owners : Seq(Node), ending : Endings, live : BOOLEAN]

-----------------------------------------------------------------------------
\* The kernel.

Holds(s) == {s[i] : i \in DOMAIN s}

\* Where item n stands in a sequence.
Position(s, n) == CHOOSE j \in DOMAIN s : s[j] = n

\* What follows item `a' in the sequence of members, from and to the end marker.
Following(a) ==
  LET i == IF a = End THEN 0 ELSE Position(members, a)
  IN IF i = Len(members) THEN End ELSE members[i + 1]

InsertAfter(s, a, n) ==
  LET i == IF a = End THEN 0 ELSE Position(s, a)
  IN SubSeq(s, 1, i) \o <<n>> \o SubSeq(s, i + 1, Len(s))

Without(s, n) ==
  LET i == Position(s, n) IN SubSeq(s, 1, i - 1) \o SubSeq(s, i + 1, Len(s))

Before(n) ==
  LET i == Position(members, n) IN IF i = 1 THEN End ELSE members[i - 1]

Idle == [kind |-> "none", item |-> End, after |-> End, by |-> 1]
Running == ~walk.live
Whole == faults = 0     \* the kernel does not outlive a broken list

\* vListInitialise
Initialise ==
  /\ Running /\ Whole /\ ~head.sentinel
  /\ next' = [next EXCEPT ![End] = End]
  /\ head' = [count |-> 0, index |-> End, sentinel |-> TRUE]
  /\ UNCHANGED <<build, dark, members, op, faults, walk>>

\* vListInsert, vListInsertEnd: the new item first points into the list.
BeginInsert ==
  /\ Running /\ Whole /\ head.sentinel /\ op.kind = "none"
  /\ \E n \in Node \ Holds(members), a \in Holds(members) \cup {End} :
       /\ next' = [next EXCEPT ![n] = Following(a)]
       /\ op' = [kind |-> "insert", item |-> n, after |-> a, by |-> 1]
  /\ UNCHANGED <<build, dark, head, members, faults, walk>>

Link ==
  /\ Running /\ Whole /\ op.kind = "insert"
  /\ next' = [next EXCEPT ![op.after] = op.item]
  /\ members' = InsertAfter(members, op.after, op.item)
  /\ op' = [op EXCEPT !.kind = "count"]
  /\ UNCHANGED <<build, dark, head, faults, walk>>

\* uxListRemove: the item leaves the chain, the index steps back, and the
\* number of items follows.
Unlink ==
  /\ Running /\ Whole /\ op.kind = "none"
  /\ \E n \in Holds(members) :
       /\ next' = [next EXCEPT ![Before(n)] = next[n]]
       /\ members' = Without(members, n)
       /\ head' = [head EXCEPT !.index = IF @ = n THEN Before(n) ELSE @]
       /\ op' = [kind |-> "count", item |-> n, after |-> End, by |-> -1]
  /\ UNCHANGED <<build, dark, faults, walk>>

Count ==
  /\ Running /\ Whole /\ op.kind = "count"
  /\ head' = [head EXCEPT !.count = @ + op.by]
  /\ op' = Idle
  /\ UNCHANGED <<build, next, dark, members, faults, walk>>

\* listGET_OWNER_OF_NEXT_ENTRY; on SMP builds the index stays on the end marker.
Rotate ==
  /\ Running /\ Whole /\ ~build.smp /\ op.kind = "none" /\ members # << >>
  /\ head' = [head EXCEPT !.index = Following(@)]
  /\ UNCHANGED <<build, next, dark, members, op, faults, walk>>

\* A word of the list is overwritten, or an item can no longer be read.
Fault ==
  /\ Running /\ head.sentinel /\ faults < MaxFaults
  /\ faults' = faults + 1
  /\ \/ \E a \in Holds(members) \cup {End}, v \in Word :
          next' = [next EXCEPT ![a] = v] /\ UNCHANGED <<dark, head>>
     \/ \E v \in Place : head' = [head EXCEPT !.index = v] /\ UNCHANGED <<next, dark>>
     \/ head' = [head EXCEPT !.sentinel = FALSE] /\ UNCHANGED <<next, dark>>
     \/ \E n \in Node : dark' = dark \cup {n} /\ UNCHANGED <<next, head>>
  /\ UNCHANGED <<build, members, op, walk>>

-----------------------------------------------------------------------------
\* The walks.

Seen == Holds(walk.path)
Steps == Len(walk.path)

\* read_path(node, next_path), read_field(item, "next"), read_uint_at(...)
NextOf(a) == IF a \in dark \cup {Wild} THEN NoRead ELSE next[a]

OutOfRange(a) == build.ranges /\ a = Wild

\* Why a turn of iter_list is the last one; "" when it is not.
IterListEnds ==
  IF walk.node = NoRead THEN "unreadable"
  ELSE IF walk.node = End THEN "end"
  ELSE IF walk.node = Null THEN "null"
  ELSE IF walk.node \in Seen THEN "cycle"
  ELSE IF Steps >= MaxCount THEN "bound"
  ELSE ""

\* _iter_list and iter_waiters: `for _ in range(max_count)' looks at the limit
\* first, so a list of exactly max_count items ends there too.
BoundedListEnds ==
  IF Steps >= MaxCount THEN "bound"
  ELSE IF walk.node = NoRead THEN "unreadable"
  ELSE IF walk.node = Null THEN "null"
  ELSE IF walk.node = End THEN "end"
  ELSE IF OutOfRange(walk.node) THEN "wild"
  ELSE IF walk.node \in Seen THEN "cycle"
  ELSE ""

\* _list_contains_item keeps no set of nodes: a cycle takes it to the limit.
ContainsEnds ==
  IF Steps >= MaxCount THEN "bound"
  ELSE IF walk.node = NoRead THEN "unreadable"
  ELSE IF walk.node = Null THEN "null"
  ELSE IF walk.node = End THEN "end"
  ELSE IF walk.node = walk.item THEN "found"
  ELSE ""

\* Mutation: without the set of nodes.
MutRawEnds ==
  IF walk.node = NoRead THEN "unreadable"
  ELSE IF walk.node = End THEN "end"
  ELSE IF walk.node = Null THEN "end"
  ELSE IF Steps >= MaxCount THEN "bound"
  ELSE IF OutOfRange(walk.node) THEN "wild"
  ELSE IF walk.node \in Seen THEN "cycle"
  ELSE ""

\* walk_list_raw
RawEnds ==
  IF walk.node = NoRead THEN "unreadable"
  ELSE IF walk.node = End THEN "end"
  ELSE IF Steps >= MaxCount THEN "bound"
  ELSE IF walk.node = Null THEN "null"
  ELSE IF OutOfRange(walk.node) THEN "wild"
  ELSE IF walk.node \in Seen THEN "cycle"
  ELSE ""

Ends ==
  IF walk.by = "iter_list" THEN IterListEnds
  ELSE IF walk.by \in {"_iter_list", "iter_waiters"} THEN BoundedListEnds
  ELSE IF walk.by = "_list_contains_item" THEN ContainsEnds
  ELSE RawEnds

\* Mutation: from the rotation cursor instead of the end marker.
MutBegin(w, n) ==
  /\ Running
  /\ walk' = [by |-> w, item |-> n, node |-> NextOf(head.index), path |-> << >>, owners |-> << >>,
              ending |-> "", live |-> TRUE]
  /\ UNCHANGED listVars

\* The target halts and a reader begins at the end marker's pxNext.
Begin(w, n) ==
  /\ Running
  /\ walk' = [by |-> w, item |-> n, node |-> NextOf(End), path |-> << >>, owners |-> << >>,
              ending |-> "", live |-> TRUE]
  /\ UNCHANGED listVars

\* The owners a reader could convert so far: of the items it took, those that
\* can be read.
OwnersWith(s, n) == IF n \in dark \cup {Wild} THEN s ELSE Append(s, n)

\* Mutation: a turn counts only when its item is new.
MutTurn ==
  /\ walk.live /\ walk.ending = "" /\ Ends = ""
  /\ walk' = [walk EXCEPT !.path = IF walk.node \in Seen THEN @ ELSE Append(@, walk.node),
                          !.owners = IF walk.node \in Seen THEN @ ELSE OwnersWith(@, walk.node),
                          !.node = NextOf(walk.node)]
  /\ UNCHANGED listVars

\* A turn that takes the item and goes on to the next one.
Turn ==
  /\ walk.live /\ walk.ending = "" /\ Ends = ""
  /\ walk' = [walk EXCEPT !.path = Append(@, walk.node), !.owners = OwnersWith(@, walk.node),
                          !.node = NextOf(walk.node)]
  /\ UNCHANGED listVars

Stop ==
  /\ walk.live /\ walk.ending = "" /\ Ends # ""
  /\ walk' = [walk EXCEPT !.ending = Ends]
  /\ UNCHANGED listVars

\* The answer is out and the target runs again.
Continue ==
  /\ walk.live /\ walk.ending # ""
  /\ walk' = [walk EXCEPT !.live = FALSE, !.path = << >>, !.owners = << >>, !.ending = "",
                          !.node = NoRead, !.item = End]
  /\ UNCHANGED listVars

\* What a reader made of its walk: iter_list yields every item it took, the
\* readers that convert an owner only those that can be read.
Yielded == IF walk.by \in {"_iter_list", "iter_waiters"} THEN walk.owners ELSE walk.path

\* Which endings a reader announces with a warning.
Warns ==
  \/ walk.by = "iter_list" /\ walk.ending \in {"null", "cycle", "bound"}
  \/ walk.by = "_iter_list" /\ walk.ending \in {"wild", "cycle", "bound"}
  \/ walk.by = "iter_waiters" /\ walk.ending \in {"wild", "cycle"}

-----------------------------------------------------------------------------
\* list_checks, on the walk of walk_list_raw.

Corrupt == walk.ending \in {"null", "cycle", "wild", "unreadable"}
Truncated == walk.ending = "bound"

ListInit == IF head.sentinel THEN "ok" ELSE "fail"
ListIntegrity == IF Corrupt THEN "fail" ELSE IF Truncated THEN "skipped" ELSE "ok"
ListIndex ==
  IF ~build.smp THEN "skipped" ELSE IF Corrupt \/ head.index # End THEN "fail" ELSE "ok"

\* Mutation: a short walk passes.
MutListCount ==
  IF Corrupt THEN "fail"
  ELSE IF Truncated THEN "skipped"
  ELSE IF head.count < Len(walk.path) THEN "fail"
  ELSE "ok"

ListCount ==
  IF Corrupt THEN "fail"
  ELSE IF Truncated THEN "skipped"
  ELSE IF head.count # Len(walk.path) THEN "fail"
  ELSE "ok"

\* pxContainer: set once a new item is linked, cleared once it is unlinked, in
\* one step with the number of items here.
Contained ==
  IF op.kind # "count" THEN Holds(members)
  ELSE IF op.by = 1 THEN Holds(members) \ {op.item} ELSE Holds(members) \cup {op.item}

\* task_checks of a task by its item, where the list is what the item calls its
\* container.  Owners, which nothing overwrites here, are left out.
TaskChecks(n) ==
  LET linked == n \in Contained \ dark
      OfList(verdict) == IF linked THEN verdict ELSE "skipped"
  IN [ItemContainer |-> OfList(IF Corrupt THEN "fail" ELSE IF Truncated THEN "skipped"
                               ELSE IF n \in Seen THEN "ok" ELSE "fail"),
      ListInit |-> OfList(ListInit), ListCount |-> OfList(ListCount),
      ListIndex |-> OfList(ListIndex), ListIntegrity |-> OfList(ListIntegrity)]

-----------------------------------------------------------------------------
\* Before vListInitialise the list is zeroed memory.
Init ==
  /\ build \in Builds
  /\ next = [a \in Place |-> Null]
  /\ dark = {}
  /\ head = [count |-> 0, index |-> End, sentinel |-> FALSE]
  /\ members = << >>
  /\ op = Idle
  /\ faults = 0
  /\ walk = [by |-> "iter_list", item |-> End, node |-> NoRead, path |-> << >>, owners |-> << >>,
             ending |-> "", live |-> FALSE]

Kernel == Initialise \/ BeginInsert \/ Link \/ Unlink \/ Count \/ Rotate \/ Fault

Reader ==
  \/ \E w \in Walkers : Begin(w, End)
  \/ \E n \in Node : Begin("_list_contains_item", n)
  \/ Turn \/ Stop \/ Continue

Next == Kernel \/ Reader

\* GDB runs a command to its end; nothing is assumed of the target.
Spec == Init /\ [][Next]_vars /\ WF_vars(Turn \/ Stop)

-----------------------------------------------------------------------------
Done == walk.live /\ walk.ending # ""

\* A path follows the chain from the end marker, item by item.
Follows(path, last) ==
  IF path = << >> THEN last = NextOf(End)
  ELSE /\ path[1] = next[End]
       /\ \A i \in 1..(Len(path) - 1) : path[i + 1] = NextOf(path[i])
       /\ last = NextOf(path[Len(path)])

\* The chain closes: it leads from the end marker over distinct items back to it.
Closes(path) ==
  /\ Follows(path, End)
  /\ \A i, j \in DOMAIN path : path[i] = path[j] => i = j

\* A list nobody broke is read whole and in order by every reader, though the
\* kernel was halted between two stores of an insertion or a removal, unless
\* it is longer than the limit; and an item is found exactly when it is a member;
\* iter_list is silent about it.
SoundIsWhole ==
  /\ TypeOK
  /\ Done /\ Whole /\ head.sentinel /\ Len(members) <= MaxCount
     => IF walk.by = "_list_contains_item"
        THEN (walk.ending = "found") <=> (walk.item \in Holds(members))
        ELSE Yielded = members /\ (walk.by = "iter_list" => ~Warns)

\* What walk_list_raw and iter_list report as an ended list is a chain of the
\* memory that closes, whatever was written over it: never a list cut short.
\* And iter_list warns of its limit only when the list goes on beyond it, as its
\* documentation says.
CleanIsClosed ==
  /\ walk.ending = "end" /\ walk.by \in {"walk_list_raw", "iter_list"} => Closes(walk.path)
  /\ walk.ending = "bound" /\ walk.by = "iter_list" =>
       Steps = MaxCount /\ walk.node \in (Node \cup {Wild}) \ Seen

\* A list no operation is inside and nobody broke passes every check of
\* list_checks, on one core with its rotating index and on several; and so do
\* the checks of every task, whose item is found on the list if it is linked.
HealthyIsOk ==
  Done /\ walk.by = "walk_list_raw" /\ Whole /\ head.sentinel /\ op.kind = "none"
  /\ Len(members) <= MaxCount
    => /\ ListInit = "ok" /\ ListIntegrity = "ok" /\ ListCount = "ok"
       /\ ListIndex \in {"ok", "skipped"}
       /\ \A n \in Node : \A c \in DOMAIN TaskChecks(n) : TaskChecks(n)[c] \in {"ok", "skipped"}
       /\ \A n \in Holds(members) \ dark : TaskChecks(n).ItemContainer = "ok"

\* Once a list was idle, one overwritten word of its chain that no longer
\* leads through all members is not answered with a clean chain and a count
\* that agrees, unless the word leads to a stale item outside the list.
OverwriteIsSeen ==
  Done /\ walk.by = "walk_list_raw" /\ faults = 1 /\ op.kind = "none"
  /\ next[End] \in Holds(members) \cup {End, Null, Wild}
  /\ (\A n \in Holds(members) : next[n] \in Holds(members) \cup {End, Null, Wild})
  /\ ListIntegrity = "ok" /\ ListCount = "ok"
    => walk.path = members

\* The verdicts of list_checks tell the one from the other: a healthy list
\* passes, an overwritten one does not.
ChecksTell == HealthyIsOk /\ OverwriteIsSeen

\* Every walk ends, over whatever the target left behind: cycles, words that
\* lead nowhere, a list that was never initialised.
WalkEnds == walk.live /\ walk.ending = "" ~> walk.ending # ""
=============================================================================
