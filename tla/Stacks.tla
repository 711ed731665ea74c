------------------------------- MODULE Stacks -------------------------------
(***************************************************************************)
(* Task stacks of a FreeRTOS or an RT-Thread target and what GDR makes of  *)
(* them: the bytes used by the saved stack pointer, the high-water mark by *)
(* the fill that is left (gdr/derive.py fill_watermark, value_to_task and  *)
(* value_to_thread of the two adapters), the direction an RT-Thread stack  *)
(* is inferred to grow, and the fill check (freertos/diagnostics.py).      *)
(*                                                                         *)
(* A task reserves stack without writing all of it, and its control block  *)
(* holds the stack pointer of its last switch only.  A write of the fill   *)
(* byte itself is left out: the mark is documented not to tell it apart.   *)
(***************************************************************************)
EXTENDS Integers, FiniteSets

CONSTANTS Task,
          Words,      \* words of a stack
          WordBytes,  \* bytes of a StackType_t
          Frame,      \* words of the context a port lays down or saves
          EdgeBytes   \* bytes compared at each end

VARIABLES kernel,     \* the RTOS, its direction, what it records and fills
          stacks      \* per task: the bytes not fill, the live and the saved depth in words

vars == <<kernel, stacks>>

StackBytes == Words * WordBytes
Bytes == 0..(StackBytes - 1)

\* what the constants have to satisfy
StackAssumption ==
  /\ Words \in Nat \ {0} /\ WordBytes \in Nat \ {0} /\ Frame \in 1..Words
  /\ EdgeBytes \in 1..(Frame * WordBytes)

-----------------------------------------------------------------------------
\* The kernel.

\* the byte at a depth, counted from the end the stack starts at
At(depth) == IF kernel.up THEN depth ELSE StackBytes - 1 - depth
Region(from, to) == {At(d) : d \in (from * WordBytes)..(to * WordBytes - 1)}
FirstBytes(from, to) == {At(w * WordBytes) : w \in from..(to - 1)}

Init ==
  /\ kernel \in [freertos : BOOLEAN, up : BOOLEAN, recorded : BOOLEAN, prefilled : BOOLEAN, declared : BOOLEAN]
  /\ kernel.freertos => ~kernel.up /\ ~kernel.declared
  /\ ~kernel.freertos => kernel.prefilled /\ kernel.recorded
  /\ stacks = [t \in Task |-> [touched |-> IF kernel.prefilled THEN FirstBytes(0, Frame) ELSE Bytes,
                               live |-> Frame, saved |-> Frame]]

\* A call reserves n words and writes all, a part or none of them.
Push(t, n) ==
  /\ stacks[t].live + n <= Words
  /\ LET to == stacks[t].live + n
     IN \E written \in {{}, FirstBytes(stacks[t].live, to), Region(stacks[t].live, to)} :
          stacks' = [stacks EXCEPT ![t].live = to, ![t].touched = @ \cup written]
  /\ UNCHANGED kernel

Pop(t, n) ==
  /\ stacks[t].live - n >= Frame
  /\ stacks' = [stacks EXCEPT ![t].live = @ - n]
  /\ UNCHANGED kernel

\* The task is switched out: its pointer is saved.
Switch(t) ==
  /\ stacks' = [stacks EXCEPT ![t].saved = stacks[t].live]
  /\ UNCHANGED kernel

Next == \E t \in Task : Switch(t) \/ \E n \in 1..Words : Push(t, n) \/ Pop(t, n)

Spec == Init /\ [][Next]_vars

-----------------------------------------------------------------------------
Fill(t) == Bytes \ stacks[t].touched
NoMark == -1
Larger(a, b) == IF a > b THEN a ELSE b

\* derive.py fill_watermark: the run of fill bytes at an end, in words
FillWatermark(t, fromLow, wordBytes) ==
  LET run == {n \in 0..StackBytes : IF fromLow THEN 0..(n - 1) \subseteq Fill(t)
                              ELSE (StackBytes - n)..(StackBytes - 1) \subseteq Fill(t)}
      longest == CHOOSE n \in run : \A m \in run : m <= n
  IN IF longest = 0 THEN NoMark ELSE longest \div wordBytes

\* Mutation: the mark is not raised to the saved pointer.
MutValueToTask(t) ==
  LET free == FillWatermark(t, TRUE, WordBytes)
  IN IF ~kernel.recorded THEN [size |-> NoMark, used |-> NoMark, high |-> NoMark]
     ELSE [size |-> StackBytes, used |-> stacks[t].saved * WordBytes,
           high |-> IF free = NoMark THEN NoMark ELSE StackBytes - (free * WordBytes)]

\* freertos/adapter.py value_to_task
ValueToTask(t) ==
  LET used == stacks[t].saved * WordBytes
      free == FillWatermark(t, TRUE, WordBytes)
  IN IF ~kernel.recorded THEN [size |-> NoMark, used |-> NoMark, high |-> NoMark]
     ELSE [size |-> StackBytes, used |-> used,
           high |-> IF free = NoMark THEN NoMark ELSE Larger(used, StackBytes - (free * WordBytes))]

\* freertos/diagnostics.py _build_prefills_stacks, _stack_fill_present
BuildPrefills == \E t \in Task : 0 \in Fill(t)
StackFillPresent(t) ==
  IF 0 \in Fill(t) THEN "ok" ELSE IF BuildPrefills THEN "fail" ELSE "skipped"

\* rtthread/adapter.py _infer_stack_grows_up: the ends are compared
InferStackGrowsUp(t) ==
  LET low == 0..(EdgeBytes - 1) \subseteq Fill(t)
      high == (StackBytes - EdgeBytes)..(StackBytes - 1) \subseteq Fill(t)
  IN IF low = high THEN {} ELSE {high}

\* rtthread/adapter.py value_to_thread, Thread.stack_used, _max_stack_used
ValueToThread(t) ==
  LET up == IF kernel.declared THEN {kernel.up} ELSE InferStackGrowsUp(t)
      sp == IF kernel.up THEN stacks[t].saved * WordBytes ELSE StackBytes - (stacks[t].saved * WordBytes)
      fill == FillWatermark(t, ~(TRUE \in up), 1)
  IN IF up = {} THEN [used |-> NoMark, high |-> NoMark]
     ELSE [used |-> IF TRUE \in up THEN sp ELSE StackBytes - sp,
           high |-> IF fill = NoMark THEN StackBytes ELSE StackBytes - fill]

-----------------------------------------------------------------------------
\* How deep the task ever wrote.
Deepest(t) ==
  LET depths == {d \in 1..StackBytes : At(d - 1) \in stacks[t].touched}
  IN IF depths = {} THEN 0 ELSE CHOOSE d \in depths : \A e \in depths : e <= d

\* A FreeRTOS row that has a high-water mark is ordered, Used <= HighWater <=
\* Stack, and the mark is the deepest write, to the word, or the saved pointer
\* where that is deeper: nothing written lies beyond it and none is invented
\* (docs/architecture.md "High-water mark semantics").  A stack fails the fill
\* check only when it is exhausted.
HighWaterIsTrue ==
  kernel.freertos => \A t \in Task :
    /\ ValueToTask(t).high # NoMark =>
         /\ ValueToTask(t).used <= ValueToTask(t).high /\ ValueToTask(t).high <= ValueToTask(t).size
         /\ Deepest(t) <= ValueToTask(t).high
         /\ ValueToTask(t).high < Larger(ValueToTask(t).used, Deepest(t) + WordBytes)
              \/ ValueToTask(t).high = ValueToTask(t).used
    /\ StackFillPresent(t) = "fail" => kernel.prefilled /\ Deepest(t) = StackBytes
    /\ ~kernel.prefilled => ValueToTask(t).high = NoMark /\ StackFillPresent(t) = "skipped"

\* An RT-Thread stack is never taken for one that grows the other way, so its
\* used bytes are those of the saved pointer and its mark is the deepest write.
DirectionIsTrue ==
  ~kernel.freertos => \A t \in Task :
    ValueToThread(t).high # NoMark =>
      ValueToThread(t) = [used |-> stacks[t].saved * WordBytes, high |-> Deepest(t)]
=============================================================================
