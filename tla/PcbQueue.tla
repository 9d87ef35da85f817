------------------------------ MODULE PcbQueue ------------------------------
(***************************************************************************)
(* The ring buffer of src/src/scheduler.c: struct PCBQueue with its two    *)
(* procedures.  head and tail are indices modulo PROCESS_QUEUE_SIZE, tail  *)
(* the slot of the newest item and head the slot before the oldest one, so *)
(* one slot of items is always unused.                                     *)
(***************************************************************************)
EXTENDS Integers, Sequences

CONSTANTS
  PCBs,               \* the process control blocks that may be queued
  PROCESS_QUEUE_SIZE  \* slots of the ring (PROCESS_COUNT_MAX * 2 = 32)

ASSUME PcbQueueAssumption == PROCESS_QUEUE_SIZE \in Nat /\ PROCESS_QUEUE_SIZE > 1

VARIABLES
  items, head, tail,  \* struct PCBQueue
  pcbi,               \* what the latest pcb_dequeue stored through its pointer
  accepted            \* what the latest call returned

vars == <<items, head, tail, pcbi, accepted>>

Indices == 0 .. PROCESS_QUEUE_SIZE - 1

\* The ring is static data: all its slots hold a null pointer, here the
\* empty tuple, and a slot that was written holds a one-element tuple.
Init ==
  /\ items = [i \in Indices |-> <<>>]
  /\ head = 0
  /\ tail = 0
  /\ pcbi = <<>>
  /\ accepted = TRUE

\* mutant: an index runs past the end of the array
SuccessorUnwrapped(i) == i + 1

Successor(i) == (i + 1) % PROCESS_QUEUE_SIZE

\* mutant: one slot too many is kept free
FullOneSlotEarly == Successor(Successor(tail)) = head

Full == Successor(tail) = head

Empty == head = tail

pcb_enqueue(x) ==
  IF Full
    THEN accepted' = FALSE /\ UNCHANGED <<items, head, tail, pcbi>>
    ELSE /\ tail' = Successor(tail)
         /\ items' = [items EXCEPT ![Successor(tail)] = <<x>>]
         /\ accepted' = TRUE
         /\ UNCHANGED <<head, pcbi>>

\* mutant: the item is read before head is advanced
DequeueReadsOldHead ==
  IF Empty
    THEN accepted' = FALSE /\ UNCHANGED <<items, head, tail, pcbi>>
    ELSE /\ head' = Successor(head)
         /\ pcbi' = items[head]
         /\ accepted' = TRUE
         /\ UNCHANGED <<items, tail>>

pcb_dequeue ==
  IF Empty
    THEN accepted' = FALSE /\ UNCHANGED <<items, head, tail, pcbi>>
    ELSE /\ head' = Successor(head)
         /\ pcbi' = items[head']
         /\ accepted' = TRUE
         /\ UNCHANGED <<items, tail>>

Next == (\E x \in PCBs : pcb_enqueue(x)) \/ pcb_dequeue

Spec == Init /\ [][Next]_vars

-----------------------------------------------------------------------------

QueueLength == (tail - head) % PROCESS_QUEUE_SIZE

\* The queue as the sequence of the queued items, oldest first.
Contents ==
  [k \in 1 .. QueueLength |-> items[(head + k) % PROCESS_QUEUE_SIZE][1]]

\* The indices stay inside the array and every slot between them was written
\* (scheduler.c:8 and 16 write the array at head and tail).
TypeOK ==
  /\ items \in [Indices -> {<<>>} \cup {<<x>> : x \in PCBs}]
  /\ head \in Indices
  /\ tail \in Indices
  /\ pcbi \in {<<>>} \cup {<<x>> : x \in PCBs}
  /\ accepted \in BOOLEAN
  /\ \A k \in 1 .. QueueLength : items[(head + k) % PROCESS_QUEUE_SIZE] # <<>>

\* The ring delivers every accepted item once and in order, and holds one item
\* fewer than it has slots (scheduler.c: pcb_enqueue and pcb_dequeue).
Fifo == INSTANCE BoundedFifo WITH
  Items <- PCBs, Capacity <- PROCESS_QUEUE_SIZE - 1,
  contents <- Contents, last <- pcbi

ImplementsFifo == Fifo!Spec

\* A call is refused only when it must be: the full test of pcb_enqueue holds
\* exactly when all slots but one are taken, wherever head stands.
FullAtCapacity == Full <=> Len(Contents) = PROCESS_QUEUE_SIZE - 1
=============================================================================
