------------------------------- MODULE Timers -------------------------------
(***************************************************************************)
(* The software timers of a FreeRTOS target, their daemon, and what GDR    *)
(* shows of each timer (freertos/timers.py, freertos/adapter.py,           *)
(* gdr/derive.py, freertos/diagnostics.py timer_checks): the epoch of the  *)
(* list it is on, the ticks until it expires, its state and its check.     *)
(*                                                                         *)
(* A timer is linked to one of two lists by the tick at which it expires;  *)
(* the lists change roles when the daemon sees that the tick counter has   *)
(* wrapped.  The daemon unlinks a timer in one step and settles it in a    *)
(* later one, and commands wait for it in a queue; the target may be       *)
(* halted between any two steps.                                           *)
(***************************************************************************)
EXTENDS Integers, Sequences

CONSTANTS Timer,
          Ticks,        \* one more than the largest TickType_t
          Periods,      \* timer periods
          MaxCommands,  \* length of the command queue
          MaxLag        \* ticks the daemon, or a command, may be late

VARIABLES tick,         \* xTickCount
          timer,        \* the Timer_t of each timer
          current,      \* the list pxCurrentTimerList points at
          lastTime,     \* the daemon's last sample of the tick
          lag,          \* ticks since that sample
          commands,     \* xTimerQueue, oldest first
          hand,         \* the command the daemon is carrying out: none or one
          expiring,     \* the expired timer the daemon is settling: none or one
          left          \* ticks until each linked timer is due, negative once it is late

vars == <<tick, timer, current, lastTime, lag, commands, hand, expiring, left>>

Tick0 == 0..(Ticks - 1)

\* what the constants have to satisfy
TimerAssumption ==
  /\ Ticks \in Nat \ {0, 1} /\ Periods \subseteq 1..(Ticks - 1)
  /\ MaxCommands \in Nat /\ MaxLag \in 1..(Ticks - 2)

Unlinked == "none"
Lists == {"xActiveTimerList1", "xActiveTimerList2"}
Other(l) == CHOOSE m \in Lists : m # l

-----------------------------------------------------------------------------
\* timers.py

\* Mutation: the first list is taken for the current one.
MutTimerEpoch(container) ==
  IF container = Unlinked THEN Unlinked
  ELSE IF container = "xActiveTimerList1" THEN "current" ELSE "overflow"

\* timer_epoch: by the two pointers, which the kernel swaps
TimerEpoch(container) ==
  IF container = Unlinked THEN Unlinked
  ELSE IF container = current THEN "current" ELSE "overflow"

\* timer_list_label
TimerListLabel(container) ==
  IF TimerEpoch(container) = Unlinked THEN << >>
  ELSE <<TimerEpoch(container), IF TimerEpoch(container) = "current" THEN current ELSE Other(current)>>

Overdue == -1
\* derive.py timer_expires_in
ExpiresIn(expiry, inOverflow) ==
  IF inOverflow THEN (Ticks - tick) + expiry
  ELSE IF expiry < tick THEN Overdue
  ELSE (expiry - tick) % Ticks

\* state_cell
StateCell(t) ==
  LET listed == timer[t].list # Unlinked
  IN IF listed /\ timer[t].active THEN "active"
     ELSE IF ~listed /\ ~timer[t].active THEN "dormant"
     ELSE IF listed THEN "active?" ELSE "dormant?"

\* The row of the timer table; ExpiresIn stands for N/A in the row of a dormant
\* timer, by the empty set.
Row(t) ==
  [state |-> StateCell(t), auto |-> timer[t].auto, period |-> timer[t].period,
   expires |-> IF timer[t].list = Unlinked THEN {}
               ELSE {ExpiresIn(timer[t].expiry, TimerEpoch(timer[t].list) = "overflow")},
   list |-> TimerListLabel(timer[t].list)]

\* _timer_table: the rows of listed timers before those of dormant ones, and a
\* message when a state is doubtful; the order within either part is discovery's
TimerTable ==
  LET listed == {t \in Timer : timer[t].list # Unlinked}
  IN [first |-> {[addr |-> t, row |-> Row(t)] : t \in listed},
      then |-> {[addr |-> t, row |-> Row(t)] : t \in Timer \ listed},
      transition |-> \E t \in Timer : Row(t).state \in {"active?", "dormant?"}]

\* timer_checks
TimerChecks(t) ==
  [StatusListSync |-> IF (timer[t].list # Unlinked) = timer[t].active THEN "ok" ELSE "fail",
   Period |-> IF timer[t].period # 0 THEN "ok" ELSE "fail"]

-----------------------------------------------------------------------------
\* The kernel (timers.c).

Init ==
  /\ tick = 0
  /\ timer \in [Timer -> [period : Periods, auto : BOOLEAN, active : {FALSE}, list : {Unlinked}, expiry : {0}]]
  /\ current = "xActiveTimerList1"
  /\ lastTime = 0 /\ lag = 0
  /\ commands = << >> /\ hand = << >> /\ expiring = << >>
  /\ left = [t \in Timer |-> 0]

Linked(l) == {t \in Timer : timer[t].list = l}
Wrapped == tick < lastTime
Earliest(t) == \A u \in Linked(timer[t].list) : timer[t].expiry <= timer[u].expiry
Unlink(t) == [timer EXCEPT ![t].list = Unlinked]

Counting(t) == timer[t].list # Unlinked \/ \E i \in DOMAIN expiring : expiring[i].timer = t

\* The tick interrupt.
Tick ==
  /\ lag < MaxLag
  /\ \A i \in DOMAIN commands : commands[i].age < MaxLag
  /\ \A i \in DOMAIN hand : hand[i].age < MaxLag
  /\ tick' = (tick + 1) % Ticks
  /\ lag' = lag + 1
  /\ left' = [t \in Timer |-> IF Counting(t) THEN left[t] - 1 ELSE left[t]]
  /\ commands' = [i \in DOMAIN commands |-> [commands[i] EXCEPT !.age = @ + 1]]
  /\ hand' = [i \in DOMAIN hand |-> [hand[i] EXCEPT !.age = @ + 1]]
  /\ UNCHANGED <<timer, current, lastTime, expiring>>

\* xTimerStart, xTimerStop, xTimerChangePeriod only send a command.
Call(t, id, period) ==
  /\ Len(commands) < MaxCommands
  /\ commands' = Append(commands, [timer |-> t, id |-> id, at |-> tick, age |-> 0, period |-> period])
  /\ UNCHANGED <<tick, timer, current, lastTime, lag, hand, expiring, left>>

\* prvInsertTimerInActiveList: the list, or none when it is due already.
Place(period, next, now, from) ==
  IF next <= now
  THEN IF (now - from) % Ticks >= period THEN Unlinked ELSE Other(current)
  ELSE IF now < from /\ next >= from THEN Unlinked ELSE current

\* prvReloadTimer: periods missed are skipped over.
Reloads(period, expired, now) ==
  LET at(k) == (expired + k * period) % Ticks
      fits(k) == Place(period, at(k), now, at(k - 1)) # Unlinked
      k == CHOOSE n \in 1..Ticks : fits(n) /\ \A m \in 1..(n - 1) : ~fits(m)
  IN [list |-> Place(period, at(k), now, at(k - 1)), expiry |-> at(k), periods |-> k]

\* timer t, due at expired, is reloaded or ends; it was due in `due` ticks
Settled(t, old, expired, now, due) ==
  LET r == Reloads(old.period, expired, now)
  IN IF old.auto
     THEN /\ timer' = [timer EXCEPT ![t] = [old EXCEPT !.active = TRUE, !.list = r.list, !.expiry = r.expiry]]
          /\ left' = [left EXCEPT ![t] = due + r.periods * old.period]
     ELSE /\ timer' = [timer EXCEPT ![t] = [old EXCEPT !.active = FALSE, !.list = Unlinked]]
          /\ left' = [left EXCEPT ![t] = 0]

Free == expiring = << >>

\* prvSwitchTimerLists: all that is left on the current list has expired.
FlushUnlinks ==
  /\ Wrapped /\ Free
  /\ \E t \in Linked(current) :
       /\ Earliest(t)
       /\ timer' = Unlink(t)
       /\ expiring' = <<[timer |-> t, now |-> Ticks - 1]>>
  /\ UNCHANGED <<tick, current, lastTime, lag, commands, hand, left>>

Switch ==
  /\ Wrapped /\ Free /\ Linked(current) = {}
  /\ current' = Other(current)
  /\ lastTime' = tick /\ lag' = 0
  /\ UNCHANGED <<tick, timer, commands, hand, expiring, left>>

\* prvProcessExpiredTimer
ExpireUnlinks ==
  /\ ~Wrapped /\ Free /\ hand = << >>
  /\ \E t \in Linked(current) :
       /\ Earliest(t) /\ timer[t].expiry <= tick
       /\ timer' = Unlink(t)
       /\ expiring' = <<[timer |-> t, now |-> tick]>>
  /\ lastTime' = tick /\ lag' = 0
  /\ UNCHANGED <<tick, current, commands, hand, left>>

Settle ==
  /\ ~Free
  /\ LET t == expiring[1].timer IN Settled(t, timer[t], timer[t].expiry, expiring[1].now, left[t])
  /\ expiring' = << >>
  /\ UNCHANGED <<tick, current, lastTime, lag, commands, hand>>

\* prvProcessReceivedCommands: the timer leaves its list whatever the command.
Receive ==
  /\ Free /\ hand = << >> /\ commands # << >>
  /\ hand' = <<Head(commands)>> /\ commands' = Tail(commands)
  /\ timer' = Unlink(Head(commands).timer)
  /\ left' = [left EXCEPT ![Head(commands).timer] = 0]
  /\ UNCHANGED <<tick, current, lastTime, lag, expiring>>

Start(c) ==
  LET old == timer[c.timer]
      next == (c.at + old.period) % Ticks
      list == Place(old.period, next, tick, c.at)
  IN IF list = Unlinked THEN Settled(c.timer, old, next, tick, old.period - c.age)
     ELSE /\ timer' = [timer EXCEPT ![c.timer] = [old EXCEPT !.active = TRUE, !.list = list, !.expiry = next]]
          /\ left' = [left EXCEPT ![c.timer] = old.period - c.age]

ChangePeriod(c) ==
  LET next == (tick + c.period) % Ticks
  IN /\ timer' = [timer EXCEPT ![c.timer] = [@ EXCEPT !.active = TRUE, !.period = c.period, !.expiry = next,
                                                      !.list = Place(c.period, next, tick, tick)]]
     /\ left' = [left EXCEPT ![c.timer] = c.period]

Obey ==
  /\ Free /\ hand # << >> /\ ~Wrapped
  /\ \/ hand[1].id = "start" /\ Start(hand[1])
     \/ hand[1].id = "change-period" /\ ChangePeriod(hand[1])
     \/ hand[1].id = "stop" /\ timer' = [timer EXCEPT ![hand[1].timer].active = FALSE] /\ UNCHANGED left
  /\ hand' = << >>
  /\ lastTime' = tick /\ lag' = 0
  /\ UNCHANGED <<tick, current, commands, expiring>>

\* The daemon finds nothing to do and blocks.
Sample ==
  /\ Free /\ ~Wrapped /\ hand = << >> /\ commands = << >>
  /\ \A t \in Linked(current) : timer[t].expiry > tick
  /\ lastTime' = tick /\ lag' = 0
  /\ UNCHANGED <<tick, timer, current, commands, hand, expiring, left>>

Next ==
  \/ Tick
  \/ \E t \in Timer : \/ Call(t, "start", timer[t].period) \/ Call(t, "stop", timer[t].period)
                      \/ \E p \in Periods : Call(t, "change-period", p)
  \/ FlushUnlinks \/ Switch \/ ExpireUnlinks \/ Settle \/ Receive \/ Obey \/ Sample

Spec == Init /\ [][Next]_vars

-----------------------------------------------------------------------------
\* The ticks until a linked timer expires are the true ones, on either list and
\* across the wrap of the counter, and a late one is overdue; only between the
\* wrap and the daemon's switch of the lists are the rows of another epoch.
ExpiryIsTrue ==
  ~Wrapped => \A t \in Timer : timer[t].list # Unlinked =>
    /\ Row(t).expires = {IF left[t] < 0 THEN Overdue ELSE left[t]}
    /\ Row(t).list[2] = timer[t].list

\* The status of a timer disagrees with its list only while the daemon is at
\* that very timer, and then for want of a link: a command that waits disturbs
\* neither, a listed timer is never doubtful, and a timer on no list has no
\* expiry in the table.
InStepUnlessInHand ==
  LET inHand == {t \in Timer : \/ hand # << >> /\ hand[1].timer = t
                               \/ expiring # << >> /\ expiring[1].timer = t}
  IN /\ \A t \in Timer : TimerChecks(t).StatusListSync = "fail" => t \in inHand
     /\ TimerTable.transition <=> \E t \in Timer : TimerChecks(t).StatusListSync = "fail"
     /\ \A r \in TimerTable.then : r.row.expires = {} /\ (r.row.state = "dormant?" => r.addr \in inHand)
     /\ \A r \in TimerTable.first : r.row.state = "active"
=============================================================================
