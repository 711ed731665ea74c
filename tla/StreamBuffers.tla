--------------------------- MODULE StreamBuffers ---------------------------
(***************************************************************************)
(* A stream, message or batching buffer of a FreeRTOS target and the row   *)
(* GDR shows of it (freertos/streams.py): bytes used and free of its ring, *)
(* the trigger, the length of the next message, which may straddle the end *)
(* of the ring, and the bounds check.                                      *)
(*                                                                         *)
(* A sender copies first and moves xHead last, a receiver moves xTail; the *)
(* target may be halted in between.  The waiters are left out.             *)
(***************************************************************************)
EXTENDS Integers, Sequences

CONSTANTS RingLength,  \* xLength, one more than the capacity
          PrefixBytes, \* sbBYTES_TO_STORE_MESSAGE_LENGTH
          ByteBase,    \* values of a byte
          Triggers     \* trigger levels

VARIABLES buffer,      \* the StreamBuffer_t
          ring,        \* its storage
          pending,     \* the message being copied, << >> when none is
          held         \* what was sent and not received: messages, or bytes one by one

vars == <<buffer, ring, pending, held>>

Ring == 0..(RingLength - 1)

\* what the constants have to satisfy
StreamAssumption ==
  /\ RingLength \in Nat \ {0, 1} /\ PrefixBytes \in 1..(RingLength - 2)
  /\ ByteBase \in Nat \ {0, 1} /\ Triggers \subseteq Nat

BufferKinds == {"stream", "message", "batching"}
Null == 0
Data == 0              \* every payload byte

\* One send: its prefix, little or big endian, and its payload of n bytes.
Digit(n, k) == (n \div (ByteBase ^ k)) % ByteBase
Encoded(n) ==
  IF buffer.kind # "message" THEN [i \in 1..n |-> Data]
  ELSE [i \in 1..(PrefixBytes + n) |->
          IF i > PrefixBytes THEN Data
          ELSE Digit(n, IF buffer.big THEN PrefixBytes - i ELSE i - 1)]

-----------------------------------------------------------------------------
\* streams.py

\* Mutation: the full turn is taken off only beyond the length.
MutBytesInBuffer(head, tail) ==
  LET count == buffer.length + head - tail
  IN IF count > buffer.length THEN count - buffer.length ELSE count

\* bytes_in_buffer
BytesInBuffer(head, tail) ==
  LET count == buffer.length + head - tail
  IN IF count >= buffer.length THEN count - buffer.length ELSE count

\* spaces_available
SpacesAvailable(head, tail) ==
  LET space == buffer.length + tail - head - 1
  IN IF space >= buffer.length THEN space - buffer.length ELSE space

\* trigger_met
TriggerMet(used) == IF buffer.kind = "batching" THEN used > buffer.trigger ELSE used >= buffer.trigger

Decoded(raw) ==
  LET upto[i \in 0..PrefixBytes] ==
        IF i = 0 THEN 0
        ELSE IF buffer.big THEN (upto[i - 1] * ByteBase) + raw[i]
        ELSE upto[i - 1] + (raw[i] * (ByteBase ^ (i - 1)))
  IN upto[PrefixBytes]

\* Mutation: the prefix is read in one piece.
MutReadPrefix(tail) ==
  IF tail >= buffer.length \/ PrefixBytes > buffer.length THEN {}
  ELSE {Decoded([i \in 1..PrefixBytes |-> IF tail + i - 1 \in Ring THEN ring[tail + i - 1] ELSE Data])}

\* _read_prefix: in two pieces when it straddles the end of the ring
ReadPrefix(tail) ==
  IF tail >= buffer.length \/ PrefixBytes > buffer.length THEN {}
  ELSE {Decoded([i \in 1..PrefixBytes |-> ring[(tail + i - 1) % buffer.length]])}

Deleted == buffer.length = 0 /\ buffer.address = Null

\* value_to_stream_buffer_object
Shown ==
  IF Deleted THEN [deleted |-> TRUE]
  ELSE LET used == BytesInBuffer(buffer.head, buffer.tail)
       IN [deleted |-> FALSE, capacity |-> buffer.length - 1, used |-> used,
           space |-> SpacesAvailable(buffer.head, buffer.tail),
           met |-> TriggerMet(used),
           next |-> IF buffer.kind = "message" /\ used > PrefixBytes THEN ReadPrefix(buffer.tail) ELSE {}]

\* stream_buffer_table: what was not decoded is "-", here the empty set; a
\* deleted buffer is shown as a stream, whatever it was
TableRow ==
  IF Shown.deleted THEN [type |-> "stream", bytes |-> {}, space |-> {}, next |-> "N/A"]
  ELSE [type |-> buffer.kind, bytes |-> {Shown.used}, space |-> {Shown.space},
        next |-> IF buffer.kind = "message" THEN Shown.next ELSE "N/A"]

\* bounds_check
BoundsCheck ==
  IF Deleted THEN "skipped"
  ELSE IF buffer.address = Null \/ buffer.head >= buffer.length \/ buffer.tail >= buffer.length
  THEN "fail" ELSE "ok"

-----------------------------------------------------------------------------
\* The kernel.

Init ==
  /\ buffer \in [kind : BufferKinds, big : BOOLEAN, length : {RingLength}, address : {1}, head : {0}, tail : {0},
                 trigger : Triggers]
  /\ ring = [i \in Ring |-> Data]
  /\ pending = << >>
  /\ held = << >>

Live == ~Deleted
KernelSpace == (RingLength + buffer.tail - buffer.head - 1) % RingLength
KernelUsed == (buffer.head - buffer.tail) % RingLength

\* xStreamBufferSend, xMessageBufferSend: a message fits whole or is not sent.
SendCopies(n) ==
  /\ Live /\ pending = << >> /\ Len(Encoded(n)) <= KernelSpace
  /\ ring' = [i \in Ring |-> LET k == ((i - buffer.head) % RingLength) + 1
                             IN IF k <= Len(Encoded(n)) THEN Encoded(n)[k] ELSE ring[i]]
  /\ pending' = <<n>>
  /\ UNCHANGED <<buffer, held>>

SendCommits ==
  /\ pending # << >>
  /\ buffer' = [buffer EXCEPT !.head = (@ + Len(Encoded(pending[1]))) % RingLength]
  /\ held' = IF buffer.kind = "message" THEN held \o pending ELSE held \o [i \in 1..pending[1] |-> 1]
  /\ pending' = << >>
  /\ UNCHANGED ring

\* xStreamBufferReceive takes any number of bytes, xMessageBufferReceive the
\* next message.
Receive(n) ==
  /\ Live /\ held # << >>
  /\ IF buffer.kind = "message" THEN n = PrefixBytes + held[1] ELSE n \in 1..Len(held)
  /\ buffer' = [buffer EXCEPT !.tail = (@ + n) % RingLength]
  /\ held' = IF buffer.kind = "message" THEN Tail(held) ELSE SubSeq(held, n + 1, Len(held))
  /\ UNCHANGED <<ring, pending>>

\* xStreamBufferReset; vStreamBufferDelete of a static buffer clears it.
Reset ==
  /\ Live /\ pending = << >>
  /\ buffer' = [buffer EXCEPT !.head = 0, !.tail = 0]
  /\ held' = << >>
  /\ UNCHANGED <<ring, pending>>

Delete ==
  /\ Live /\ pending = << >>
  /\ buffer' = [buffer EXCEPT !.length = 0, !.address = Null, !.head = 0, !.tail = 0, !.trigger = 0]
  /\ held' = << >>
  /\ UNCHANGED <<ring, pending>>

Next ==
  \/ \E n \in 1..(RingLength - 1) : SendCopies(n) \/ Receive(n)
  \/ SendCommits \/ Reset \/ Delete

Spec == Init /\ [][Next]_vars

-----------------------------------------------------------------------------
Sum(s) == LET upto[i \in 0..Len(s)] == IF i = 0 THEN 0 ELSE upto[i - 1] + s[i] IN upto[Len(s)]

Stored == IF buffer.kind = "message" THEN Sum(held) + PrefixBytes * Len(held) ELSE Len(held)

\* The bytes used and free are those of what was sent and not received, full
\* and empty are told apart, together they are the capacity, also while a sender
\* is between its copy and its commit, and no ring fails the bounds check.
BytesAreTrue ==
  IF Deleted THEN BoundsCheck = "skipped" /\ TableRow.bytes = {}
  ELSE /\ TableRow.bytes = {Stored} /\ TableRow.space = {Shown.capacity - Stored}
       /\ Shown.met <=> (Stored > buffer.trigger \/ (Stored = buffer.trigger /\ buffer.kind # "batching"))
       /\ BoundsCheck = "ok"

\* The next message shown is the oldest one not received, with the length it
\* was sent with, wherever in the ring its prefix lies; an empty buffer has none.
NextMessageIsNext ==
  Live /\ buffer.kind = "message" => TableRow.next = IF held = << >> THEN {} ELSE {held[1]}
=============================================================================
