------------------------------ MODULE RtStores ------------------------------
(***************************************************************************)
(* The mailbox, the message queue and the memory pool of an RT-Thread      *)
(* target, as the kernel keeps them and as the detail of the object walks  *)
(* them (rtthread/diagnostics.py): the slots of a ring in the order they   *)
(* will be received, the active and the free chain of message nodes, the   *)
(* free blocks of a pool, and the verdict on each against its counter.     *)
(*                                                                         *)
(* A mailbox and a pool change in a few stores of one critical section; a  *)
(* message is copied between two critical sections, by several senders and *)
(* receivers at a time.  The target may be halted between any two stores.  *)
(***************************************************************************)
EXTENDS Integers, Sequences, FiniteSets

CONSTANTS Size,     \* slots, nodes, blocks
          Mail,     \* what is sent
          Party,    \* threads and interrupts that send and receive messages
          MaxWalk   \* GDR_MAX_TRAVERSAL_COUNT

VARIABLES store,    \* the rt_mailbox, rt_messagequeue or rt_mempool
          cell,     \* slot, payload and first pointer of each place of the pool
          op,       \* the operation in a critical section
          inHand,   \* the node each party copies to or from, Null when none
          content   \* what was sent and not received, oldest first; the blocks taken

vars == <<store, cell, op, inHand, content>>

Null == 0
Nodes == 1..Size
Blank == "blank"

\* what the constants have to satisfy
StoreAssumption ==
  /\ Size \in Nat \ {0} /\ MaxWalk \in Nat /\ MaxWalk >= Size
  /\ Blank \notin Mail /\ IsFiniteSet(Party)

NoOp == [kind |-> "none", at |-> Null, with |-> Blank]

-----------------------------------------------------------------------------
\* diagnostics.py

\* _walk_list: a chain of first pointers, to its end, to a node seen before or
\* to the bound
WalkList(head, max) ==
  LET node[n \in 1..(Size + 2)] == IF n = 1 THEN head ELSE IF node[n - 1] = Null THEN Null ELSE cell[node[n - 1]].next
      stop == CHOOSE n \in 1..(Size + 2) :
                /\ node[n] = Null \/ n > max \/ \E m \in 1..(n - 1) : node[m] = node[n]
                /\ \A m \in 1..(n - 1) : ~(node[m] = Null \/ m > max \/ \E k \in 1..(m - 1) : node[k] = node[m])
  IN [n \in 1..(stop - 1) |-> node[n]]

\* Mutation: the slots are listed from the one written last.
MutMailboxSlots ==
  [i \in 1..store.entry |->
     LET slot == (store.in_offset + i - 1) % store.size IN [slot |-> slot, mail |-> cell[slot + 1].mail]]

\* _mailbox_slot_pairs
MailboxSlots ==
  [i \in 1..store.entry |->
     LET slot == (store.out_offset + i - 1) % store.size IN [slot |-> slot, mail |-> cell[slot + 1].mail]]

MailboxOffsetCheck ==
  store.size > 0 /\ store.in_offset < store.size /\ store.out_offset < store.size /\ store.entry <= store.size

\* object_table: the counts and what is left of each
Least0(n) == IF n > 0 THEN n ELSE 0
Row ==
  IF store.kind = "mempool" THEN [total |-> store.size, free |-> store.entry, used |-> Least0(store.size - store.entry)]
  ELSE [entries |-> store.entry, size |-> store.size, free |-> Least0(store.size - store.entry)]

\* _messagequeue_node_pairs
ActiveNodes == WalkList(store.head, MaxWalk)
FreeNodes == WalkList(store.free, MaxWalk)
Messages == [i \in DOMAIN ActiveNodes |-> cell[ActiveNodes[i]].mail]

\* _messagequeue_consistency
MessagequeueConsistency ==
  store.entry = Len(ActiveNodes) /\ Len(FreeNodes) + Len(ActiveNodes) = store.size

\* _memorypool_block_pairs: FreeCountCheck
FreeBlocks == WalkList(store.free, store.size)
FreeCountCheck == Len(FreeBlocks) = store.entry

-----------------------------------------------------------------------------
\* The kernel (ipc.c, mempool.c).

Mailbox == [kind |-> "mailbox", size |-> Size, entry |-> 0, in_offset |-> 0, out_offset |-> 0]
Queue == [kind |-> "msgqueue", size |-> Size, entry |-> 0, head |-> Null, tail |-> Null, free |-> 1]
Pool == [kind |-> "mempool", size |-> Size, entry |-> Size, free |-> 1]

Init ==
  /\ store \in {Mailbox, Queue, Pool}
  /\ cell = [n \in Nodes |-> [mail |-> Blank, next |-> IF n = Size THEN Null ELSE n + 1]]
  /\ op = NoOp
  /\ inHand = [p \in Party |-> Null]
  /\ content = << >>

Is(kind) == store.kind = kind
Idle == op = NoOp

\* rt_mb_send: the slot, the offset, its wrap, the counter.
MailStores(v) ==
  /\ Is("mailbox") /\ Idle /\ store.entry < Size
  /\ cell' = [cell EXCEPT ![store.in_offset + 1].mail = v]
  /\ op' = [kind |-> "advance in", at |-> Null, with |-> v]
  /\ UNCHANGED <<store, inHand, content>>

MailAdvances ==
  /\ op.kind = "advance in"
  /\ store' = [store EXCEPT !.in_offset = @ + 1]
  /\ op' = [op EXCEPT !.kind = "wrap in"]
  /\ UNCHANGED <<cell, inHand, content>>

MailSent ==
  /\ op.kind = "wrap in"
  /\ store' = [store EXCEPT !.in_offset = @ % Size, !.entry = @ + 1]
  /\ content' = Append(content, op.with)
  /\ op' = NoOp
  /\ UNCHANGED <<cell, inHand>>

\* rt_mb_urgent
MailUrgent(v) ==
  /\ Is("mailbox") /\ Idle /\ store.entry < Size
  /\ LET out == IF store.out_offset > 0 THEN store.out_offset - 1 ELSE Size - 1
     IN /\ store' = [store EXCEPT !.out_offset = out, !.entry = @ + 1]
        /\ cell' = [cell EXCEPT ![out + 1].mail = v]
  /\ content' = <<v>> \o content
  /\ UNCHANGED <<op, inHand>>

\* rt_mb_recv
MailTaken ==
  /\ Is("mailbox") /\ Idle /\ store.entry > 0
  /\ store' = [store EXCEPT !.out_offset = @ + 1]
  /\ op' = [NoOp EXCEPT !.kind = "wrap out"]
  /\ UNCHANGED <<cell, inHand, content>>

MailReceived ==
  /\ op.kind = "wrap out"
  /\ store' = [store EXCEPT !.out_offset = @ % Size, !.entry = @ - 1]
  /\ content' = Tail(content)
  /\ op' = NoOp
  /\ UNCHANGED <<cell, inHand>>

\* rt_mq_send: a free node, the copy, then its place at the end of the chain, or
\* at its front (rt_mq_urgent).
MessageTakesNode(p, v) ==
  /\ Is("msgqueue") /\ Idle /\ inHand[p] = Null /\ store.free # Null
  /\ store' = [store EXCEPT !.free = cell[@].next]
  /\ cell' = [cell EXCEPT ![store.free] = [mail |-> v, next |-> Null]]
  /\ inHand' = [inHand EXCEPT ![p] = store.free]
  /\ UNCHANGED <<op, content>>

Sending(p) == inHand[p] # Null /\ cell[inHand[p]].mail # Blank

MessageLinks(p) ==
  /\ Is("msgqueue") /\ Idle /\ Sending(p)
  /\ cell' = [n \in Nodes |-> IF n = store.tail THEN [cell[n] EXCEPT !.next = inHand[p]] ELSE cell[n]]
  /\ store' = [store EXCEPT !.tail = inHand[p], !.head = IF @ = Null THEN inHand[p] ELSE @]
  /\ op' = [kind |-> "count message", at |-> inHand[p], with |-> cell[inHand[p]].mail]
  /\ inHand' = [inHand EXCEPT ![p] = Null]
  /\ UNCHANGED content

MessageUrgent(p) ==
  /\ Is("msgqueue") /\ Idle /\ Sending(p)
  /\ cell' = [cell EXCEPT ![inHand[p]].next = store.head]
  /\ store' = [store EXCEPT !.head = inHand[p], !.tail = IF @ = Null THEN inHand[p] ELSE @,
                            !.entry = @ + 1]
  /\ content' = <<cell[inHand[p]].mail>> \o content
  /\ inHand' = [inHand EXCEPT ![p] = Null]
  /\ UNCHANGED op

MessageCounts ==
  /\ op.kind = "count message"
  /\ store' = [store EXCEPT !.entry = @ + 1]
  /\ content' = Append(content, op.with)
  /\ op' = NoOp
  /\ UNCHANGED <<cell, inHand>>

\* rt_mq_recv: the node leaves the chain, is copied, then goes to the free chain.
MessageUnlinks(p) ==
  /\ Is("msgqueue") /\ Idle /\ inHand[p] = Null /\ store.entry > 0
  /\ store' = [store EXCEPT !.head = cell[@].next, !.tail = IF store.head = @ THEN Null ELSE @,
                            !.entry = @ - 1]
  /\ inHand' = [inHand EXCEPT ![p] = store.head]
  /\ cell' = [cell EXCEPT ![store.head].mail = Blank]
  /\ content' = Tail(content)
  /\ UNCHANGED op

MessageFrees(p) ==
  /\ Is("msgqueue") /\ Idle /\ inHand[p] # Null /\ ~Sending(p)
  /\ cell' = [cell EXCEPT ![inHand[p]].next = store.free]
  /\ store' = [store EXCEPT !.free = inHand[p]]
  /\ inHand' = [inHand EXCEPT ![p] = Null]
  /\ UNCHANGED <<op, content>>

\* rt_mp_alloc, rt_mp_free: the counter, then the chain.
PoolCounts ==
  /\ Is("mempool") /\ Idle /\ store.free # Null
  /\ store' = [store EXCEPT !.entry = @ - 1]
  /\ op' = [NoOp EXCEPT !.kind = "take block"]
  /\ UNCHANGED <<cell, inHand, content>>

PoolTakes ==
  /\ op.kind = "take block"
  /\ store' = [store EXCEPT !.free = cell[@].next]
  /\ content' = Append(content, store.free)
  /\ op' = NoOp
  /\ UNCHANGED <<cell, inHand>>

PoolReturns(i) ==
  /\ Is("mempool") /\ Idle /\ i \in DOMAIN content
  /\ store' = [store EXCEPT !.entry = @ + 1]
  /\ op' = [NoOp EXCEPT !.kind = "link block", !.at = content[i]]
  /\ content' = SubSeq(content, 1, i - 1) \o SubSeq(content, i + 1, Len(content))
  /\ UNCHANGED <<cell, inHand>>

PoolLinks ==
  /\ op.kind = "link block"
  /\ cell' = [cell EXCEPT ![op.at].next = store.free]
  /\ store' = [store EXCEPT !.free = op.at]
  /\ op' = NoOp
  /\ UNCHANGED <<inHand, content>>

Next ==
  \/ \E v \in Mail : MailStores(v) \/ MailUrgent(v) \/ \E p \in Party : MessageTakesNode(p, v)
  \/ MailAdvances \/ MailSent \/ MailTaken \/ MailReceived
  \/ \E p \in Party : MessageLinks(p) \/ MessageUrgent(p) \/ MessageUnlinks(p) \/ MessageFrees(p)
  \/ MessageCounts
  \/ PoolCounts \/ PoolTakes \/ PoolLinks
  \/ \E i \in Nodes : PoolReturns(i)

Spec == Init /\ [][Next]_vars

-----------------------------------------------------------------------------
\* Outside a critical section the slots of a mailbox and the messages of a queue
\* are listed in the order they will be received, urgent ones first, and the
\* free blocks of a pool are those nobody has taken.
ListedIsContent ==
  Idle =>
    /\ Is("mailbox") => /\ MailboxOffsetCheck /\ Row.entries = Len(content)
                        /\ [i \in DOMAIN MailboxSlots |-> MailboxSlots[i].mail] = content
    /\ Is("msgqueue") => Messages = content /\ Row.entries = Len(content)
    /\ Is("mempool") =>
         /\ Row.used = Len(content)
         /\ \A n \in Nodes : (\E i \in DOMAIN FreeBlocks : FreeBlocks[i] = n) <=> ~\E i \in DOMAIN content : content[i] = n

\* A message queue is inconsistent exactly while a message is being copied or
\* counted, by as many nodes as are in hand, which its row counts as free, and a
\* pool miscounts only between the two stores of one call: neither is a sign of
\* corruption.
MismatchIsInFlight ==
  /\ Is("msgqueue") =>
       /\ MessagequeueConsistency <=> Idle /\ \A p \in Party : inHand[p] = Null
       /\ Size - Len(FreeNodes) - Len(ActiveNodes) = Cardinality({p \in Party : inHand[p] # Null})
       /\ Idle => Row.free = Len(FreeNodes) + Cardinality({p \in Party : inHand[p] # Null})
  /\ Is("mempool") => (FreeCountCheck <=> Idle)
=============================================================================
