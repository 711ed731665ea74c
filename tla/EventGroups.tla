---------------------------- MODULE EventGroups ----------------------------
(***************************************************************************)
(* An event group of a FreeRTOS target and the tasks waiting for its bits, *)
(* as GDR decodes them (freertos/events.py): a waiter's request is packed  *)
(* into the value of its list item, the application bits below the control *)
(* bits, whose place depends on the width of the tick type.                *)
(*                                                                         *)
(* A word is the set of its bits.  The kernel sets bits first and unblocks *)
(* the satisfied waiters one by one, rewriting a waiter's item just before *)
(* it leaves the list; the target may be halted in between.                *)
(***************************************************************************)
EXTENDS Naturals, Sequences, FiniteSets

CONSTANTS TickBits,   \* width of EventBits_t
          AppBits,    \* application bits in use
          Task        \* tasks that wait

VARIABLES bits,       \* uxEventBits
          waiting,    \* xTasksWaitingForBits: the owner and the value of each item
          asked,      \* what each waiting task asked for
          walk        \* xEventGroupSetBits under way: the item it is at, what it clears

vars == <<bits, waiting, asked, walk>>

\* what the constants have to satisfy
EventAssumption ==
  TickBits \in {16, 32, 64} /\ AppBits \subseteq 0..(TickBits - 9)

-----------------------------------------------------------------------------
\* The kernel's own control bits (event_groups.h).

ClearOnExit == TickBits - 8
Unblocked == TickBits - 7
WaitForAll == TickBits - 6
InUse == TickBits - 1

Flag(on, bit) == IF on THEN {bit} ELSE {}
Matches(all, wants, set) == IF all THEN wants \subseteq set ELSE wants \cap set # {}

Requests == [wants : (SUBSET AppBits) \ {{}}, all : BOOLEAN, clear : BOOLEAN]
NoWalk == [at |-> 0, rewritten |-> FALSE, clears |-> {}]

Init == bits = {} /\ waiting = << >> /\ asked = << >> /\ walk = NoWalk

Idle == walk = NoWalk
IsWaiting(t) == \E i \in DOMAIN waiting : waiting[i].owner = t
Without(i) == SubSeq(waiting, 1, i - 1) \o SubSeq(waiting, i + 1, Len(waiting))
AskedWithout(i) == SubSeq(asked, 1, i - 1) \o SubSeq(asked, i + 1, Len(asked))

\* xEventGroupWaitBits: at once, or on the list.
WaitBits(t, r) ==
  /\ Idle /\ ~IsWaiting(t)
  /\ IF Matches(r.all, r.wants, bits)
     THEN /\ bits' = IF r.clear THEN bits \ r.wants ELSE bits
          /\ UNCHANGED <<waiting, asked>>
     ELSE /\ waiting' = Append(waiting, [owner |-> t,
                          value |-> r.wants \cup Flag(r.clear, ClearOnExit)
                                    \cup Flag(r.all, WaitForAll) \cup {InUse}])
          /\ asked' = Append(asked, r)
          /\ UNCHANGED bits
  /\ UNCHANGED walk

Timeout(t) ==
  /\ Idle
  /\ \E i \in DOMAIN waiting : /\ waiting[i].owner = t
                               /\ waiting' = Without(i) /\ asked' = AskedWithout(i)
  /\ UNCHANGED <<bits, walk>>

ClearBits(b) == Idle /\ bits' = bits \ b /\ UNCHANGED <<waiting, asked, walk>>

\* xEventGroupSetBits, one store at a time.
SetBits(b) ==
  /\ Idle
  /\ bits' = bits \cup b
  /\ walk' = [NoWalk EXCEPT !.at = 1]
  /\ UNCHANGED <<waiting, asked>>

Current == waiting[walk.at].value
Walking == walk.at \in DOMAIN waiting
Satisfied == Matches(WaitForAll \in Current, Current \cap AppBits, bits)

Skip ==
  /\ Walking /\ ~walk.rewritten /\ ~Satisfied
  /\ walk' = [walk EXCEPT !.at = @ + 1]
  /\ UNCHANGED <<bits, waiting, asked>>

Rewrite ==
  /\ Walking /\ ~walk.rewritten /\ Satisfied
  /\ waiting' = [waiting EXCEPT ![walk.at].value = bits \cup {Unblocked, InUse}]
  /\ walk' = [walk EXCEPT !.rewritten = TRUE,
                          !.clears = @ \cup (IF ClearOnExit \in Current THEN Current \cap AppBits ELSE {})]
  /\ UNCHANGED <<bits, asked>>

Unlink ==
  /\ walk.rewritten
  /\ waiting' = Without(walk.at) /\ asked' = AskedWithout(walk.at)
  /\ walk' = [walk EXCEPT !.rewritten = FALSE]
  /\ UNCHANGED bits

Finish ==
  /\ ~Idle /\ ~Walking
  /\ bits' = bits \ walk.clears
  /\ walk' = NoWalk
  /\ UNCHANGED <<waiting, asked>>

Next ==
  \/ \E t \in Task : Timeout(t) \/ \E r \in Requests : WaitBits(t, r)
  \/ \E b \in (SUBSET AppBits) \ {{}} : SetBits(b) \/ ClearBits(b)
  \/ Skip \/ Rewrite \/ Unlink \/ Finish

Spec == Init /\ [][Next]_vars

-----------------------------------------------------------------------------
\* events.py

\* event_bit_masks, of the tick width of the layout
Masks == [clear |-> TickBits - 8, all |-> TickBits - 6, control |-> (TickBits - 8)..(TickBits - 1)]

\* Mutation: ALL and ANY change places.
MutDecodeWaiter(item) ==
  LET wants == item.value \ Masks.control
      all == Masks.all \notin item.value
  IN [task |-> item.owner, wants |-> wants, all |-> all, clear |-> Masks.clear \in item.value,
      satisfied |-> IF all THEN bits \cap wants = wants ELSE bits \cap wants # {},
      missing |-> IF all THEN wants \ bits ELSE wants,
      in_use |-> (TickBits - 1) \in item.value]

\* decode_waiter, against the bits of the group
DecodeWaiter(item) ==
  LET wants == item.value \ Masks.control
      all == Masks.all \in item.value
  IN [task |-> item.owner, wants |-> wants, all |-> all, clear |-> Masks.clear \in item.value,
      satisfied |-> IF all THEN bits \cap wants = wants ELSE bits \cap wants # {},
      missing |-> IF all THEN wants \ bits ELSE wants,
      in_use |-> (TickBits - 1) \in item.value]

\* iter_waiters, value_to_event_group_object
Waiters == [i \in DOMAIN waiting |-> DecodeWaiter(waiting[i])]
Shown == [bits |-> bits, waiters |-> Waiters]

\* event_group_table
TableRow == [bits |-> Shown.bits, waiters |-> Len(Shown.waiters)]

\* event_checks: EventWaiterSatisfied
EventCheck == IF \E i \in DOMAIN Waiters : Waiters[i].satisfied THEN "fail" ELSE "ok"

-----------------------------------------------------------------------------
\* Every waiter is shown with the bits, the mode and the exit its task asked
\* for, in the order they wait, and with what still keeps it waiting; only the
\* one whose item the kernel has just rewritten, to unlink it next, is not.  A
\* waiter is shown satisfied, and the check fails, only while a set under way
\* has not come to it yet.
WaitersAsAsked ==
  /\ TableRow = [bits |-> bits, waiters |-> Len(asked)]
  /\ \A i \in DOMAIN asked :
       LET w == Shown.waiters[i]
       IN /\ ~(walk.rewritten /\ i = walk.at) =>
               /\ [wants |-> w.wants, all |-> w.all, clear |-> w.clear] = asked[i] /\ w.in_use
               /\ (w.satisfied <=> Matches(asked[i].all, asked[i].wants, bits))
               /\ w.missing = {b \in asked[i].wants : asked[i].all => b \notin bits}
          /\ w.satisfied => ~Idle /\ i >= walk.at /\ EventCheck = "fail"
=============================================================================
