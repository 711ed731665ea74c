------------------------------ MODULE RtTimers ------------------------------
(***************************************************************************)
(* The timers of an RT-Thread target and what GDR shows of each            *)
(* (rtthread/navigation.py, rtthread/adapter.py, rtthread/diagnostics.py,  *)
(* gdr/derive.py): the union of the two active lists and the registry, the *)
(* ticks until a timer expires, the sources that prove it, and its check.  *)
(*                                                                         *)
(* The kernel unlinks a timer, changes its flag and links it again in      *)
(* separate stores with interrupts off; a callback runs with its timer on  *)
(* a list of the kernel's own that GDR does not know, and may start, stop  *)
(* or detach any timer.  The target may be halted between any two stores.  *)
(***************************************************************************)
EXTENDS Integers, Sequences, FiniteSets

CONSTANTS Timer,
          Name,      \* the name that all the timers are created with
          Ticks,     \* one more than the largest tick
          Shapes,    \* flags and init_tick that timers are created with
          MaxLag     \* ticks the thread of the soft timers may be late

VARIABLES tick,      \* rt_tick
          timer,     \* the rt_timer at each address
          registry,  \* the registered timers, newest first
          lists,     \* the active lists, in order
          firing,    \* per list the timer held for its callback; none, one, or taken away
          op,        \* the call under way with interrupts off
          left       \* ticks until each linked timer is due, negative once it is late

vars == <<tick, timer, registry, lists, firing, op, left>>

\* what the constants have to satisfy: rt_timer_init and rt_timer_start require
\* less than half of the range, the bound on the lag keeps within it
RtTimerAssumption ==
  /\ Timer \cap {Name, "none", "taken"} = {}
  /\ Ticks \in Nat \ {0} /\ Ticks % 2 = 0 /\ MaxLag \in Nat
  /\ \A s \in Shapes : /\ s.periodic \in BOOLEAN /\ s.soft \in BOOLEAN
                       /\ s.init \in Nat \ {0} /\ s.init + MaxLag < Ticks \div 2

Hooks == {"timer_list", "soft_timer_list"}
NoOp == [call |-> "none", at |-> "none", timer |-> {}]
Idle == op = NoOp
Members(s) == {s[i] : i \in DOMAIN s}
Position(s, x) == CHOOSE i \in DOMAIN s : s[i] = x
Without(s, x) ==
  IF x \notin Members(s) THEN s
  ELSE SubSeq(s, 1, Position(s, x) - 1) \o SubSeq(s, Position(s, x) + 1, Len(s))
Minus(a, b) == (a - b) % Ticks

-----------------------------------------------------------------------------
\* navigation.py

\* _iter_active_timers: the hard timers, then the soft ones
ActiveTimers == lists["timer_list"] \o lists["soft_timer_list"]

\* Mutation: the registry alone is asked.
MutIterTimers == registry

\* a sequence, then the items of another that it does not have
Then(seen, more) ==
  LET upTo[i \in 0..Len(more)] ==
        IF i = 0 THEN seen
        ELSE IF more[i] \in Members(seen) THEN upTo[i - 1] ELSE Append(upTo[i - 1], more[i])
  IN upTo[Len(more)]

\* iter_timers: the active timers, then those only registered
IterTimers == Then(ActiveTimers, registry)

\* find_timer_by_target: the first of the name, then an address
FindTimer(target) ==
  IF target = Name /\ IterTimers # << >> THEN {Head(IterTimers)} ELSE {t \in Members(IterTimers) : t = target}

-----------------------------------------------------------------------------
\* adapter.py, derive.py

\* Mutation: what is past is shown as no ticks left.
MutExpiresIn(t) == IF timer[t].timeout < tick THEN 0 ELSE timer[t].timeout - tick

\* _timer_expires_in: no "overdue", the subtraction wraps
ExpiresIn(t) == Minus(timer[t].timeout, tick)

\* value_to_timer and the row of the table; an N/A is the empty set
TimerRow(t) ==
  [addr |-> t, active |-> timer[t].active, periodic |-> timer[t].periodic, soft |-> timer[t].soft,
   expires |-> IF timer[t].active THEN {ExpiresIn(t)} ELSE {},
   src |-> {s \in {"registry", "active-list"} :
              t \in Members(IF s = "registry" THEN registry ELSE ActiveTimers)}]

TimerTable == [i \in DOMAIN IterTimers |-> TimerRow(IterTimers[i])]

\* timer_checks
ListMembership(t) ==
  LET linked == t \in Members(ActiveTimers)
  IN IF timer[t].active THEN IF linked THEN "ok" ELSE "absent" ELSE IF linked THEN "still linked" ELSE "ok"

-----------------------------------------------------------------------------
\* The kernel (timer.c).

Unborn == [active |-> FALSE, periodic |-> FALSE, soft |-> FALSE, init |-> 0, timeout |-> 0]

Init ==
  /\ tick = 0
  /\ timer = [t \in Timer |-> Unborn]
  /\ registry = << >>
  /\ lists = [h \in Hooks |-> << >>]
  /\ firing = [h \in Hooks |-> "none"]
  /\ op = NoOp
  /\ left = [t \in Timer |-> 0]

HookOf(t) == IF timer[t].soft THEN "soft_timer_list" ELSE "timer_list"
Due(h) == lists[h] # << >> /\ Minus(tick, timer[Head(lists[h])].timeout) < Ticks \div 2

\* The tick interrupt; the hard timers that are due fire before the next one.
Tick ==
  /\ Idle /\ firing["timer_list"] = "none" /\ ~Due("timer_list")
  /\ \A t \in Members(lists["soft_timer_list"]) : left[t] > -MaxLag
  /\ tick' = (tick + 1) % Ticks
  /\ left' = [t \in Timer |-> IF t \in Members(ActiveTimers) THEN left[t] - 1 ELSE 0]
  /\ UNCHANGED <<timer, registry, lists, firing, op>>

\* rt_timer_init
InitTimer(t, s) ==
  /\ Idle /\ t \notin Members(registry)
  /\ registry' = <<t>> \o registry
  /\ timer' = [timer EXCEPT ![t] = [Unborn EXCEPT !.periodic = s.periodic, !.soft = s.soft, !.init = s.init]]
  /\ UNCHANGED <<tick, lists, firing, op, left>>

\* _rt_timer_remove, from an active list or from that of a callback
Removed(t) ==
  /\ lists' = [h \in Hooks |-> Without(lists[h], t)]
  /\ firing' = [h \in Hooks |-> IF firing[h] = t THEN "taken" ELSE firing[h]]
  /\ left' = [left EXCEPT ![t] = 0]

\* rt_timer_start, rt_timer_stop, rt_timer_detach begin alike.
Call(t, call) ==
  /\ Idle /\ t \in Members(registry)
  /\ call = "stop" => timer[t].active
  /\ Removed(t)
  /\ op' = [call |-> call, at |-> "clear", timer |-> {t}]
  /\ UNCHANGED <<tick, timer, registry>>

Clear ==
  \E t \in op.timer :
    /\ op.at = "clear"
    /\ timer' = [timer EXCEPT ![t].active = FALSE]
    /\ op' = IF op.call = "stop" THEN NoOp ELSE [op EXCEPT !.at = "place"]
    /\ UNCHANGED <<tick, registry, lists, firing, left>>

\* behind the timers that expire no later
Link ==
  \E t \in op.timer :
    /\ op.at = "place" /\ op.call = "start"
    /\ LET due == (tick + timer[t].init) % Ticks
           h == HookOf(t)
           before == {i \in DOMAIN lists[h] : Minus(timer[lists[h][i]].timeout, due) \in 1..(Ticks \div 2 - 1)}
           at == CHOOSE i \in 1..(Len(lists[h]) + 1) :
                   (i \in before \/ i = Len(lists[h]) + 1) /\ \A j \in before : i <= j
       IN /\ timer' = [timer EXCEPT ![t].timeout = due]
          /\ lists' = [lists EXCEPT ![h] = SubSeq(@, 1, at - 1) \o <<t>> \o SubSeq(@, at, Len(@))]
    /\ left' = [left EXCEPT ![t] = timer[t].init]
    /\ op' = [op EXCEPT !.at = "activate"]
    /\ UNCHANGED <<tick, registry, firing>>

Activate ==
  \E t \in op.timer :
    /\ op.at = "activate"
    /\ timer' = [timer EXCEPT ![t].active = TRUE]
    /\ op' = NoOp
    /\ UNCHANGED <<tick, registry, lists, firing, left>>

\* rt_object_detach
Unregister ==
  \E t \in op.timer :
    /\ op.at = "place" /\ op.call = "detach"
    /\ registry' = Without(registry, t)
    /\ timer' = [timer EXCEPT ![t] = Unborn]
    /\ op' = NoOp
    /\ UNCHANGED <<tick, lists, firing, left>>

\* rt_timer_check, rt_soft_timer_check: unlinked; inactive if it fires once, and
\* held for the callback, which may make any call; then started again if it is
\* still held, active and periodic.
Expire(h) ==
  /\ Idle /\ firing[h] = "none" /\ Due(h)
  /\ lists' = [lists EXCEPT ![h] = Tail(@)]
  /\ left' = [left EXCEPT ![Head(lists[h])] = 0]
  /\ op' = [call |-> h, at |-> "fire", timer |-> {Head(lists[h])}]
  /\ UNCHANGED <<tick, timer, registry, firing>>

Fire ==
  \E t \in op.timer :
    /\ op.at = "fire"
    /\ timer' = [timer EXCEPT ![t].active = @ /\ timer[t].periodic]
    /\ firing' = [firing EXCEPT ![op.call] = t]
    /\ op' = NoOp
    /\ UNCHANGED <<tick, registry, lists, left>>

Return(h) ==
  /\ Idle /\ firing[h] # "none"
  /\ op' = IF firing[h] # "taken" /\ timer[firing[h]].active /\ timer[firing[h]].periodic
           THEN [call |-> "start", at |-> "clear", timer |-> {firing[h]}] ELSE NoOp
  /\ firing' = [firing EXCEPT ![h] = "none"]
  /\ UNCHANGED <<tick, timer, registry, lists, left>>

Next ==
  \/ Tick
  \/ \E t \in Timer : \/ \E call \in {"start", "stop", "detach"} : Call(t, call)
                      \/ \E s \in Shapes : InitTimer(t, s)
  \/ Clear \/ Link \/ Activate \/ Unregister \/ Fire
  \/ \E h \in Hooks : Expire(h) \/ Return(h)

Spec == Init /\ [][Next]_vars

-----------------------------------------------------------------------------
\* Of an active timer on a list, a number below half of the range is the ticks
\* it has left, and a larger one, short of the range, is how late it is.  The
\* rows of one list come in the order in which the timers expire, also across
\* the wrap of the tick.
ExpiryIsTrue ==
  LET rows == TimerTable
      linked == {i \in DOMAIN rows : "active-list" \in rows[i].src}
  IN /\ \A i \in linked : \A n \in rows[i].expires :
          left[rows[i].addr] = IF n < Ticks \div 2 THEN n ELSE n - Ticks
     /\ \A i, j \in linked : i < j /\ rows[i].soft = rows[j].soft => left[rows[i].addr] <= left[rows[j].addr]

\* Every registered timer is one row, and no row is of another; its address
\* selects it, and the name of several selects one that is on a list if one is.
\* The flag disagrees with the lists only of the timer of a call under way and
\* of a periodic one during its callback.
TimersAreTrue ==
  LET rows == TimerTable
      inHand == op.timer \cup {firing[h] : h \in {g \in Hooks : firing[g] \in Timer /\ timer[firing[g]].periodic}}
  IN /\ \A t \in Timer :
          Cardinality({i \in DOMAIN rows : rows[i].addr = t}) = IF t \in Members(registry) THEN 1 ELSE 0
     /\ \A i \in DOMAIN rows : FindTimer(rows[i].addr) = {rows[i].addr}
     /\ ActiveTimers # << >> => FindTimer(Name) \subseteq Members(ActiveTimers)
     /\ \A t \in Members(registry) : ListMembership(t) # "ok" => t \in inHand
     /\ \A h \in Hooks : firing[h] \in Timer \ op.timer /\ timer[firing[h]].active => ListMembership(firing[h]) = "absent"
=============================================================================
