--------------------------- MODULE PcbQueueProofs ---------------------------
(***************************************************************************)
(* For a ring of any size: PcbQueue keeps its type, is full exactly at its *)
(* capacity, and implements BoundedFifo.  All arithmetic modulo the size   *)
(* is done in three lemmas; behind them an index is a case distinction.    *)
(***************************************************************************)
EXTENDS PcbQueue, SequenceTheorems, TLAPS

\* One step back or forward around an array of n slots.
LEMMA WrapBack ==
  ASSUME NEW n \in Nat \ {0}, NEW a \in (-n) .. (n - 1)
  PROVE  a % n = IF a < 0 THEN a + n ELSE a
<1>1. CASE a < 0
  BY <1>1
<1>2. CASE a \in 0 .. n - 1
  BY <1>2
<1>. QED  BY <1>1, <1>2

LEMMA WrapForward ==
  ASSUME NEW n \in Nat \ {0}, NEW h \in 0 .. n - 1, NEW k \in 0 .. n
  PROVE  (h + k) % n = IF h + k < n THEN h + k ELSE h + k - n
<1>1. CASE h + k \in 0 .. n - 1
  BY <1>1
<1>2. CASE h + k \in n .. 2 * n - 1
  BY <1>2
<1>. QED  BY <1>1, <1>2

LEMMA SuccessorIs ==
  ASSUME NEW i \in Indices
  PROVE  /\ Successor(i) = IF i + 1 = PROCESS_QUEUE_SIZE THEN 0 ELSE i + 1
         /\ Successor(i) \in Indices
<1>1. /\ PROCESS_QUEUE_SIZE \in Nat \ {0} /\ i \in 0 .. PROCESS_QUEUE_SIZE - 1
      /\ 1 \in 0 .. PROCESS_QUEUE_SIZE
  BY PcbQueueAssumption DEF Indices
<1>2. (i + 1) % PROCESS_QUEUE_SIZE =
        IF i + 1 < PROCESS_QUEUE_SIZE THEN i + 1 ELSE i + 1 - PROCESS_QUEUE_SIZE
  BY ONLY <1>1, WrapForward
<1>. QED  BY <1>1, <1>2 DEF Successor, Indices

\* How many items lie behind h, up to t.
LEMMA DistanceIs ==
  ASSUME NEW h \in Indices, NEW t \in Indices
  PROVE  /\ (t - h) % PROCESS_QUEUE_SIZE =
              IF t < h THEN t - h + PROCESS_QUEUE_SIZE ELSE t - h
         /\ (t - h) % PROCESS_QUEUE_SIZE \in Indices
<1>1. /\ PROCESS_QUEUE_SIZE \in Nat \ {0}
      /\ t - h \in (-PROCESS_QUEUE_SIZE) .. (PROCESS_QUEUE_SIZE - 1)
  BY PcbQueueAssumption DEF Indices
<1>2. (t - h) % PROCESS_QUEUE_SIZE =
        IF t - h < 0 THEN t - h + PROCESS_QUEUE_SIZE ELSE t - h
  BY <1>1, WrapBack
<1>. QED  BY <1>2, PcbQueueAssumption DEF Indices

\* The slot of the k-th item.
LEMMA SlotIs ==
  ASSUME NEW h \in Indices, NEW k \in 1 .. PROCESS_QUEUE_SIZE
  PROVE  /\ (h + k) % PROCESS_QUEUE_SIZE =
              IF h + k < PROCESS_QUEUE_SIZE THEN h + k ELSE h + k - PROCESS_QUEUE_SIZE
         /\ (h + k) % PROCESS_QUEUE_SIZE \in Indices
<1>1. /\ PROCESS_QUEUE_SIZE \in Nat \ {0} /\ h \in 0 .. PROCESS_QUEUE_SIZE - 1
      /\ k \in 0 .. PROCESS_QUEUE_SIZE
  BY PcbQueueAssumption DEF Indices
<1>2. (h + k) % PROCESS_QUEUE_SIZE =
        IF h + k < PROCESS_QUEUE_SIZE THEN h + k ELSE h + k - PROCESS_QUEUE_SIZE
  BY ONLY <1>1, WrapForward
<1>. QED  BY <1>1, <1>2 DEF Indices

-----------------------------------------------------------------------------
\* A slot of the ring: empty, or one item.
Slots == {<<>>} \cup {<<x>> : x \in PCBs}

LEMMA SlotItem ==
  ASSUME NEW s \in Slots, s # <<>>
  PROVE  s[1] \in PCBs /\ s = <<s[1]>>
BY DEF Slots

\* The queue is a sequence of as many items as QueueLength says.
Queued ==
  /\ Contents \in Seq(PCBs)
  /\ Len(Contents) = QueueLength
  /\ \A k \in 1 .. QueueLength :
       items[(head + k) % PROCESS_QUEUE_SIZE] = <<Contents[k]>>

LEMMA ContentsQueued == TypeOK => Queued
<1>. SUFFICES ASSUME TypeOK
              PROVE  Queued
  OBVIOUS
<1>1. QueueLength \in Nat /\ QueueLength < PROCESS_QUEUE_SIZE
  BY DistanceIs, PcbQueueAssumption DEF TypeOK, QueueLength, Indices
<1>2. ASSUME NEW k \in 1 .. QueueLength
      PROVE  /\ items[(head + k) % PROCESS_QUEUE_SIZE][1] \in PCBs
             /\ items[(head + k) % PROCESS_QUEUE_SIZE] = <<items[(head + k) % PROCESS_QUEUE_SIZE][1]>>
  <2>1. (head + k) % PROCESS_QUEUE_SIZE \in Indices
    BY <1>1, SlotIs, PcbQueueAssumption DEF TypeOK
  <2>2. items[(head + k) % PROCESS_QUEUE_SIZE] \in Slots
    BY <2>1 DEF TypeOK, Slots
  <2>3. items[(head + k) % PROCESS_QUEUE_SIZE] # <<>>
    BY DEF TypeOK
  <2>. QED  BY <2>2, <2>3, SlotItem
<1>. QED  BY <1>1, <1>2 DEF Contents, Queued

\* The test of pcb_enqueue says what it means (FullAtCapacity).
LEMMA FullMeansFull ==
  ASSUME TypeOK
  PROVE  /\ Full <=> QueueLength = PROCESS_QUEUE_SIZE - 1
         /\ Empty <=> QueueLength = 0
<1>1. head \in Indices /\ tail \in Indices
  BY DEF TypeOK
<1>2. Successor(tail) = IF tail + 1 = PROCESS_QUEUE_SIZE THEN 0 ELSE tail + 1
  BY <1>1, SuccessorIs
<1>3. QueueLength = IF tail < head THEN tail - head + PROCESS_QUEUE_SIZE ELSE tail - head
  BY <1>1, DistanceIs DEF QueueLength
<1>. QED  BY <1>1, <1>2, <1>3, PcbQueueAssumption DEF Full, Empty, Indices

-----------------------------------------------------------------------------
LEMMA InitEstablishesTypeOK == Init => TypeOK
<1>1. 0 \in Indices
  BY PcbQueueAssumption DEF Indices
<1>2. (0 - 0) % PROCESS_QUEUE_SIZE = 0
  BY <1>1, DistanceIs, PcbQueueAssumption DEF Indices
<1>. QED  BY <1>1, <1>2 DEF Init, TypeOK, QueueLength

\* What an accepted item changes: the slot behind the last item, which is none
\* of the slots of the items before it.
LEMMA EnqueueEffect ==
  ASSUME TypeOK, NEW x \in PCBs, pcb_enqueue(x), ~Full
  PROVE  /\ QueueLength' = QueueLength + 1
         /\ QueueLength + 1 < PROCESS_QUEUE_SIZE
         /\ items' \in [Indices -> Slots]
         /\ items'[(head' + QueueLength') % PROCESS_QUEUE_SIZE] = <<x>>
         /\ \A k \in 1 .. QueueLength :
              items'[(head' + k) % PROCESS_QUEUE_SIZE] = items[(head + k) % PROCESS_QUEUE_SIZE]
<1>1. /\ head \in Indices /\ tail \in Indices /\ items \in [Indices -> Slots]
      /\ head' = head /\ tail' = Successor(tail)
      /\ items' = [items EXCEPT ![Successor(tail)] = <<x>>]
  BY DEF TypeOK, pcb_enqueue, Slots
<1>2. /\ Successor(tail) = IF tail + 1 = PROCESS_QUEUE_SIZE THEN 0 ELSE tail + 1
      /\ Successor(tail) \in Indices
  BY <1>1, SuccessorIs
<1>3. QueueLength = IF tail < head THEN tail - head + PROCESS_QUEUE_SIZE ELSE tail - head
  BY <1>1, DistanceIs DEF QueueLength
<1>4. QueueLength' = IF tail' < head' THEN tail' - head' + PROCESS_QUEUE_SIZE ELSE tail' - head'
  BY <1>1, <1>2, DistanceIs DEF QueueLength
<1>5. QueueLength' = QueueLength + 1 /\ QueueLength + 1 < PROCESS_QUEUE_SIZE /\ QueueLength \in Nat
  BY <1>1, <1>2, <1>3, <1>4, PcbQueueAssumption DEF Full, Indices
<1>6. ASSUME NEW k \in 1 .. QueueLength + 1
      PROVE  /\ (head + k) % PROCESS_QUEUE_SIZE \in Indices
             /\ (head + k) % PROCESS_QUEUE_SIZE = Successor(tail) <=> k = QueueLength + 1
  <2>1. /\ k \in 1 .. PROCESS_QUEUE_SIZE
        /\ (head + k) % PROCESS_QUEUE_SIZE =
             IF head + k < PROCESS_QUEUE_SIZE THEN head + k ELSE head + k - PROCESS_QUEUE_SIZE
        /\ (head + k) % PROCESS_QUEUE_SIZE \in Indices
    BY <1>1, <1>5, SlotIs, PcbQueueAssumption
  <2>. QED  BY <2>1, <1>1, <1>2, <1>3, <1>5, PcbQueueAssumption DEF Indices
<1>7. <<x>> \in Slots
  BY DEF Slots
<1>8. QueueLength + 1 \in 1 .. QueueLength + 1 /\ \A k \in 1 .. QueueLength : k \in 1 .. QueueLength + 1 /\ k # QueueLength + 1
  BY <1>5
<1>. QED  BY <1>1, <1>2, <1>5, <1>6, <1>7, <1>8

\* What an item that is taken leaves behind: the items after it, each one
\* place nearer to the head.
LEMMA DequeueEffect ==
  ASSUME TypeOK, pcb_dequeue, ~Empty
  PROVE  /\ QueueLength' = QueueLength - 1
         /\ QueueLength \in 1 .. PROCESS_QUEUE_SIZE - 1
         /\ pcbi' = items[(head + 1) % PROCESS_QUEUE_SIZE]
         /\ \A k \in 1 .. QueueLength - 1 :
              items'[(head' + k) % PROCESS_QUEUE_SIZE] = items[(head + (k + 1)) % PROCESS_QUEUE_SIZE]
<1>1. /\ head \in Indices /\ tail \in Indices
      /\ head' = Successor(head) /\ tail' = tail /\ items' = items
      /\ pcbi' = items[Successor(head)]
  BY DEF TypeOK, pcb_dequeue
<1>2. /\ Successor(head) = IF head + 1 = PROCESS_QUEUE_SIZE THEN 0 ELSE head + 1
      /\ Successor(head) \in Indices
  BY <1>1, SuccessorIs
<1>3. QueueLength = IF tail < head THEN tail - head + PROCESS_QUEUE_SIZE ELSE tail - head
  BY <1>1, DistanceIs DEF QueueLength
<1>4. QueueLength' = IF tail' < head' THEN tail' - head' + PROCESS_QUEUE_SIZE ELSE tail' - head'
  BY <1>1, <1>2, DistanceIs DEF QueueLength
<1>5. QueueLength' = QueueLength - 1 /\ QueueLength \in 1 .. PROCESS_QUEUE_SIZE - 1
  BY <1>1, <1>2, <1>3, <1>4, PcbQueueAssumption DEF Empty, Indices
<1>6. ASSUME NEW k \in 1 .. QueueLength - 1
      PROVE  (head' + k) % PROCESS_QUEUE_SIZE = (head + (k + 1)) % PROCESS_QUEUE_SIZE
  <2>1. k \in 1 .. PROCESS_QUEUE_SIZE /\ k + 1 \in 1 .. PROCESS_QUEUE_SIZE
    BY <1>5, PcbQueueAssumption
  <2>2. (head' + k) % PROCESS_QUEUE_SIZE =
          IF head' + k < PROCESS_QUEUE_SIZE THEN head' + k ELSE head' + k - PROCESS_QUEUE_SIZE
    BY <2>1, <1>1, <1>2, SlotIs
  <2>3. (head + (k + 1)) % PROCESS_QUEUE_SIZE =
          IF head + (k + 1) < PROCESS_QUEUE_SIZE THEN head + (k + 1)
          ELSE head + (k + 1) - PROCESS_QUEUE_SIZE
    BY <2>1, <1>1, SlotIs
  <2>. QED  BY <2>1, <2>2, <2>3, <1>1, <1>2, PcbQueueAssumption DEF Indices
<1>. QED  BY <1>1, <1>5, <1>6 DEF Successor

LEMMA NextPreservesTypeOK == TypeOK /\ [Next]_vars => TypeOK'
<1>. SUFFICES ASSUME TypeOK, [Next]_vars
              PROVE  TypeOK'
  OBVIOUS
<1>0. QueueLength \in Indices
  BY DistanceIs DEF TypeOK, QueueLength
<1>1. ASSUME NEW x \in PCBs, pcb_enqueue(x), ~Full
      PROVE  TypeOK'
  <2>1. ASSUME NEW k \in 1 .. QueueLength'
        PROVE  items'[(head' + k) % PROCESS_QUEUE_SIZE] # <<>>
    <3>1. CASE k = QueueLength'
      <4>1. items'[(head' + k) % PROCESS_QUEUE_SIZE] = <<x>>
        BY <1>1, <3>1, EnqueueEffect
      <4>. QED  BY <4>1
    <3>2. CASE k \in 1 .. QueueLength
      BY <1>1, <3>2, EnqueueEffect DEF TypeOK
    <3>. QED  BY <1>0, <1>1, <3>1, <3>2, EnqueueEffect, PcbQueueAssumption DEF Indices
  <2>2. /\ items' \in [Indices -> {<<>>} \cup {<<y>> : y \in PCBs}]
        /\ head' \in Indices /\ tail' \in Indices
    BY <1>1, EnqueueEffect, SuccessorIs DEF TypeOK, pcb_enqueue, Slots
  <2>. QED  BY <1>1, <2>1, <2>2 DEF TypeOK, pcb_enqueue
<1>2. ASSUME pcb_dequeue, ~Empty
      PROVE  TypeOK'
  <2>1. ASSUME NEW k \in 1 .. QueueLength'
        PROVE  items'[(head' + k) % PROCESS_QUEUE_SIZE] # <<>>
    <3>1. k \in 1 .. QueueLength - 1 /\ k + 1 \in 1 .. QueueLength
      BY <1>0, <1>2, DequeueEffect DEF Indices
    <3>. QED  BY <1>2, <3>1, DequeueEffect DEF TypeOK
  <2>2. head' \in Indices /\ Successor(head) \in Indices
    BY <1>2, SuccessorIs DEF TypeOK, pcb_dequeue
  <2>. QED  BY <1>2, <2>1, <2>2 DEF TypeOK, pcb_dequeue
<1>3. CASE UNCHANGED <<items, head, tail, pcbi>> /\ accepted' \in BOOLEAN
  BY <1>3 DEF TypeOK, QueueLength
<1>. QED  BY <1>1, <1>2, <1>3 DEF Next, vars, pcb_enqueue, pcb_dequeue, TypeOK

\* The ring is well typed for any size and any PCBs: head and tail index the
\* array, and the slots between them were all written.
THEOREM TypeCorrectness == Spec => []TypeOK
BY InitEstablishesTypeOK, NextPreservesTypeOK, PTL DEF Spec

\* pcb_enqueue refuses exactly when all slots but one are taken.
THEOREM FullCorrect == Spec => []FullAtCapacity
<1>1. TypeOK => FullAtCapacity
  BY ContentsQueued, FullMeansFull DEF FullAtCapacity, Queued
<1>. QED  BY <1>1, TypeCorrectness, PTL

-----------------------------------------------------------------------------
LEMMA ContentsQueuedNext == TypeOK' => Queued'
BY ContentsQueued, PTL

\* An accepted item is the last of the queue, behind those that were there.
LEMMA EnqueueAppends ==
  ASSUME TypeOK, TypeOK', NEW x \in PCBs, pcb_enqueue(x), ~Full
  PROVE  Contents' = Append(Contents, x)
<1>1. QueueLength' = QueueLength + 1 /\ QueueLength \in Nat
  <2>1. QueueLength \in Nat
    BY DistanceIs DEF TypeOK, QueueLength, Indices
  <2>. QED  BY <2>1, EnqueueEffect
<1>2. Contents \in Seq(PCBs) /\ Len(Contents) = QueueLength
  BY ContentsQueued DEF Queued
<1>3. Contents' \in Seq(PCBs) /\ Len(Contents') = QueueLength + 1
  BY <1>1, ContentsQueuedNext DEF Queued
<1>4. /\ Append(Contents, x) \in Seq(PCBs) /\ Len(Append(Contents, x)) = QueueLength + 1
      /\ \A k \in 1 .. QueueLength : Append(Contents, x)[k] = Contents[k]
      /\ Append(Contents, x)[QueueLength + 1] = x
  BY <1>2, AppendProperties
<1>5. \A k \in 1 .. QueueLength : Contents'[k] = Contents[k]
  BY <1>1, EnqueueEffect DEF Contents
<1>6. Contents'[QueueLength + 1] = x
  BY <1>1, EnqueueEffect DEF Contents
<1>7. \A k \in 1 .. QueueLength + 1 : Contents'[k] = Append(Contents, x)[k]
  BY <1>1, <1>4, <1>5, <1>6
<1>. QED  BY <1>3, <1>4, <1>7, SeqEqual

\* The item that is taken is the first, and those behind it stay as they are.
LEMMA DequeueTakesHead ==
  ASSUME TypeOK, TypeOK', pcb_dequeue, ~Empty
  PROVE  /\ Contents # <<>>
         /\ Contents' = Tail(Contents)
         /\ pcbi' = <<Head(Contents)>>
<1>1. QueueLength' = QueueLength - 1 /\ QueueLength \in Nat /\ QueueLength > 0
  BY DequeueEffect, PcbQueueAssumption
<1>2. Contents \in Seq(PCBs) /\ Len(Contents) = QueueLength
  BY ContentsQueued DEF Queued
<1>3. Contents # <<>>
  BY <1>1, <1>2
<1>4. pcbi' = <<Head(Contents)>>
  <2>1. 1 \in 1 .. QueueLength
    BY <1>1
  <2>2. pcbi' = <<Contents[1]>>
    BY <2>1, ContentsQueued, DequeueEffect DEF Queued
  <2>. QED  BY <1>2, <1>3, <2>2
<1>5. Contents' \in Seq(PCBs) /\ Len(Contents') = QueueLength - 1
  BY <1>1, ContentsQueuedNext DEF Queued
<1>6. /\ Tail(Contents) \in Seq(PCBs) /\ Len(Tail(Contents)) = QueueLength - 1
      /\ \A k \in 1 .. QueueLength - 1 : Tail(Contents)[k] = Contents[k + 1]
  BY <1>2, <1>3, HeadTailProperties
<1>7. ASSUME NEW k \in 1 .. QueueLength - 1
      PROVE  Contents'[k] = Contents[k + 1]
  <2>1. k + 1 \in 1 .. QueueLength
    BY <1>1
  <2>. QED  BY <1>1, <2>1, DequeueEffect DEF Contents
<1>. QED  BY <1>3, <1>4, <1>5, <1>6, <1>7, SeqEqual

\* A call that is refused changes nothing a caller can see.
LEMMA NextImplementsFifo ==
  TypeOK /\ TypeOK' /\ [Next]_vars => [Fifo!Next]_(Fifo!fifoVars)
<1>. SUFFICES ASSUME TypeOK, TypeOK', [Next]_vars
              PROVE  [Fifo!Next]_(Fifo!fifoVars)
  OBVIOUS
<1>1. ASSUME NEW x \in PCBs, pcb_enqueue(x), ~Full
      PROVE  Fifo!Enqueue(x)
  <2>1. QueueLength \in Int /\ Len(Contents) = QueueLength
    BY ContentsQueued, DistanceIs DEF Queued, TypeOK, QueueLength, Indices
  <2>2. Len(Contents) < PROCESS_QUEUE_SIZE - 1
    BY <1>1, <2>1, EnqueueEffect, PcbQueueAssumption
  <2>. QED  BY <1>1, <2>2, EnqueueAppends DEF Fifo!Enqueue, pcb_enqueue
<1>2. ASSUME pcb_dequeue, ~Empty
      PROVE  Fifo!Dequeue
  BY <1>2, DequeueTakesHead DEF Fifo!Dequeue
<1>3. CASE UNCHANGED <<items, head, tail, pcbi>>
  BY <1>3 DEF Fifo!fifoVars, Contents, QueueLength
<1>. QED  BY <1>1, <1>2, <1>3 DEF Next, vars, pcb_enqueue, pcb_dequeue, Fifo!Next

\* The ring of scheduler.c, of any size, is a first in, first out queue that
\* holds one item fewer than it has slots.
THEOREM Refinement == Spec => ImplementsFifo
<1>1. Init => Fifo!Init
  <2>. SUFFICES ASSUME Init
                PROVE  Fifo!Init
    OBVIOUS
  <2>1. TypeOK
    BY InitEstablishesTypeOK
  <2>2. QueueLength = 0
    BY <2>1, FullMeansFull DEF Init, Empty
  <2>3. Contents = <<>>
    BY <2>1, <2>2, ContentsQueued, EmptySeq DEF Queued
  <2>. QED  BY <2>3 DEF Init, Fifo!Init
<1>. QED  BY <1>1, TypeCorrectness, NextImplementsFifo, PTL DEF Spec, ImplementsFifo, Fifo!Spec
=============================================================================
