------------------------ MODULE KernelSessionProofs ------------------------
(***************************************************************************)
(* Theorems about careful sessions of Kernel (CarefulSpec): successful     *)
(* execs and timer ticks only, for any number of slots, frames and         *)
(* directories.                                                            *)
(*                                                                         *)
(* The search for the running PCB also accepts NEW slots, so that it finds *)
(* the right one depends on two orders: new processes have higher slots    *)
(* than all others, and in the queue a new process has only lower slots    *)
(* before it.  SessionInv says so, together with who is queued how often.  *)
(*                                                                         *)
(* Two slots at least: with one, the ring of two takes one item only, and  *)
(* the first tick loses the second entry of the shell.                     *)
(***************************************************************************)
EXTENDS KernelProofs, SequenceTheorems, FunctionTheorems

\* TimesQueued of any queue.
Occurrences(q, i) == Cardinality({k \in 1 .. Len(q) : q[k] = i})

\* How often a process is queued while it does not run.
Turns(i) == IF i = 0 THEN 2 ELSE 1

StateOf(i) == process_list[i].process_state
RegistersOf(i) == process_list[i].registers

\* Processes have the first slots of the table, and the others are cleared.
SlotsInOrder ==
  /\ \A i \in Slots : process_used[i] <=> i < active_process_count
  /\ \A i \in Slots : ~process_used[i] => process_list[i] = ZeroPcb

\* A queue of live processes, in which a new one comes after lower slots only.
QueueInOrder(q, used, list) ==
  /\ \A k \in 1 .. Len(q) : q[k] \in Slots /\ used[q[k]]
  /\ \A j, k \in 1 .. Len(q) :
       j < k /\ list[q[k]].process_state = "NEW" => q[j] < q[k]

\* The shell could not be created.
NoProcess ==
  /\ cr3 = KernelDirectory
  /\ active_process_count = 0
  /\ scheduling_queue = <<NULL>>

\* The shell waits for the first tick.
BeforeFirstTick ==
  /\ cr3 = KernelDirectory
  /\ active_process_count = 1
  /\ scheduling_queue = <<0>>
  /\ StateOf(0) = "NEW"
  /\ RegistersOf(0) = DirectoryOf(0)

\* The process at c runs, the others wait.
Runs(c) ==
  /\ c \in Slots /\ process_used[c]
  /\ cr3 = DirectoryOf(c)
  /\ cpu = DirectoryOf(c)
  /\ StateOf(c) = "RUNNING"
  /\ \A i \in Slots : process_used[i] /\ i # c =>
       /\ \/ StateOf(i) = "READY"
          \/ StateOf(i) = "NEW" /\ c < i
       /\ RegistersOf(i) = DirectoryOf(i)
  /\ QueueInOrder(scheduling_queue, process_used, process_list)
  /\ Len(scheduling_queue) = active_process_count
  /\ \A i \in Slots : process_used[i] =>
       Occurrences(scheduling_queue, i) = Turns(i) - (IF i = c THEN 1 ELSE 0)

SessionInv ==
  mode = "running" =>
    /\ SlotsInOrder
    /\ NoProcess \/ BeforeFirstTick \/ \E c \in Slots : Runs(c)

-----------------------------------------------------------------------------
(* Occurrences in a queue *)

LEMMA OccurrencesType ==
  ASSUME NEW S, NEW q \in Seq(S), NEW i
  PROVE  /\ Occurrences(q, i) \in Nat
         /\ IsFiniteSet({k \in 1 .. Len(q) : q[k] = i})
         /\ Occurrences(q, i) # 0 => \E k \in 1 .. Len(q) : q[k] = i
<1> DEFINE K == {k \in 1 .. Len(q) : q[k] = i}
<1>1. IsFiniteSet(1 .. Len(q))
  BY FS_Interval, LenProperties
<1>2. IsFiniteSet(K) /\ Cardinality(K) \in Nat
  BY <1>1, FS_Subset, FS_CardinalityType
<1>3. Cardinality(K) # 0 => K # {}
  BY FS_EmptySet
<1> QED
  BY <1>2, <1>3 DEF Occurrences

\* An item at the end counts once more.
LEMMA OccurrencesAppend ==
  ASSUME NEW S, NEW q \in Seq(S), NEW x \in S, NEW i
  PROVE  Occurrences(q \o <<x>>, i) = Occurrences(q, i) + (IF x = i THEN 1 ELSE 0)
<1> DEFINE n == Len(q)
           r == q \o <<x>>
           K == {k \in 1 .. n : q[k] = i}
           L == {k \in 1 .. Len(r) : r[k] = i}
<1>1. n \in Nat /\ Len(r) = n + 1
  OBVIOUS
<1>2. r[n + 1] = x /\ \A k \in 1 .. n : r[k] = q[k]
  OBVIOUS
<1>3. IsFiniteSet(K) /\ Cardinality(K) \in Nat
  BY OccurrencesType DEF Occurrences
<1>4. n + 1 \notin K
  BY <1>1
<1>7. Occurrences(q, i) = Cardinality(K) /\ Occurrences(r, i) = Cardinality(L)
  BY DEF Occurrences
<1> HIDE DEF r, K, L
<1>5. CASE x = i
  <2>1. L = K \cup {n + 1}
    BY <1>1, <1>2, <1>5 DEF K, L
  <2>2. Cardinality(L) = Cardinality(K) + 1
    BY <1>3, <1>4, <2>1, FS_AddElement
  <2> QED
    BY <1>3, <1>5, <1>7, <2>2 DEF r
<1>6. CASE x # i
  <2>1. L = K
    BY <1>1, <1>2, <1>6 DEF K, L
  <2> QED
    BY <1>3, <1>6, <1>7, <2>1 DEF r
<1> QED
  BY <1>5, <1>6

\* An item taken from the front counts once less.
LEMMA OccurrencesTail ==
  ASSUME NEW S, NEW q \in Seq(S), q # <<>>, NEW i
  PROVE  Occurrences(Tail(q), i) = Occurrences(q, i) - (IF Head(q) = i THEN 1 ELSE 0)
<1> DEFINE n == Len(q)
           t == Tail(q)
           K == {k \in 1 .. n : q[k] = i}
           L == {k \in 1 .. Len(t) : t[k] = i}
           f == [k \in L |-> k + 1]
<1>1. n \in Nat /\ n >= 1 /\ Len(t) = n - 1 /\ t \in Seq(S)
  OBVIOUS
<1>2. Head(q) = q[1] /\ \A k \in 1 .. n - 1 : t[k] = q[k + 1]
  OBVIOUS
<1>3. IsFiniteSet(K) /\ IsFiniteSet(L) /\ Cardinality(K) \in Nat
  BY <1>1, OccurrencesType DEF Occurrences
<1> HIDE DEF t
<1>4. f \in Bijection(L, K \ {1})
  <2>1. ASSUME NEW k \in L PROVE k + 1 \in K \ {1}
    BY <1>1, <1>2
  <2>2. ASSUME NEW k \in K \ {1} PROVE k - 1 \in L /\ f[k - 1] = k
    <3>1. k - 1 \in 1 .. n - 1
      BY <1>1
    <3>2. t[k - 1] = q[k]
      BY <1>2, <3>1
    <3> QED
      BY <1>1, <3>1, <3>2
  <2>3. \A a, b \in L : f[a] = f[b] => a = b
    BY <1>1
  <2>4. f \in [L -> K \ {1}]
    BY <2>1
  <2> HIDE DEF f, L, K
  <2> QED
    BY <2>2, <2>3, <2>4, Fun_IsBij
<1>5. Cardinality(K \ {1}) = Cardinality(L)
  BY <1>3, <1>4, FS_Bijection DEF ExistsBijection
<1>6. Cardinality(K \ {1}) = IF 1 \in K THEN Cardinality(K) - 1 ELSE Cardinality(K)
  BY <1>3, FS_RemoveElement
<1>7. 1 \in K <=> Head(q) = i
  BY <1>1, <1>2
<1>8. Occurrences(q, i) = Cardinality(K) /\ Occurrences(t, i) = Cardinality(L)
  BY DEF Occurrences
<1> HIDE DEF K, L
<1> QED
  BY <1>3, <1>5, <1>6, <1>7, <1>8 DEF t

\* What fits in the ring is queued.
LEMMA EnqueuedFits ==
  ASSUME NEW S, NEW q \in Seq(S), NEW s \in Seq(S),
         Len(q) + Len(s) <= PROCESS_QUEUE_SIZE - 1
  PROVE  Enqueued(q, s) = q \o s
<1> DEFINE m == {PROCESS_QUEUE_SIZE - 1, Len(q) + Len(s)}
<1>1. PROCESS_QUEUE_SIZE - 1 \in Nat /\ Len(q) + Len(s) \in Nat
  BY KernelAssumption DEF PROCESS_QUEUE_SIZE
<1>2. Min(m) \in m /\ \A y \in m : Min(m) <= y
  BY <1>1, MinNat
<1>3. Min(m) = Len(q) + Len(s)
  BY <1>1, <1>2
<1>4. q \o s \in Seq(S) /\ Len(q \o s) = Len(q) + Len(s)
  OBVIOUS
<1>5. SubSeq(q \o s, 1, Len(q \o s)) = q \o s
  BY <1>4, SubSeqFull
<1> QED
  BY <1>3, <1>4, <1>5 DEF Enqueued
-----------------------------------------------------------------------------
(* Slots *)

\* A process gets the slot behind those of the others.
LEMMA NewSlotIsNext ==
  ASSUME active_process_count \in Nat,
         \A i \in Slots : process_used[i] <=> i < active_process_count,
         \E i \in Slots : ~process_used[i]
  PROVE  NewSlot = active_process_count /\ NewSlot \in Slots /\ ~process_used[NewSlot]
<1> DEFINE S == {i \in Slots : ~process_used[i]}
<1>1. S \subseteq Nat /\ S # {}
  BY Pointers
<1>2. NewSlot \in S /\ \A y \in S : NewSlot <= y
  BY <1>1, MinNat DEF NewSlot
<1>3. active_process_count <= NewSlot
  BY <1>1, <1>2
<1>4. active_process_count \in Slots
  BY <1>1, <1>2, <1>3, KernelAssumption DEF Slots
<1>5. active_process_count \in S
  BY <1>4
<1> QED
  BY <1>1, <1>2, <1>3, <1>5

\* The search for the running PCB returns the first in state RUNNING or NEW.
LEMMA CurrentIs ==
  ASSUME NEW c \in Slots, process_used[c], StateOf(c) \in {"RUNNING", "NEW"},
         \A i \in Slots : process_used[i] /\ StateOf(i) \in {"RUNNING", "NEW"} => c <= i
  PROVE  Current = c
<1> DEFINE S == {i \in Slots : /\ process_used[i]
                               /\ process_list[i].process_state \in {"RUNNING", "NEW"}}
<1>1. c \in S /\ S \subseteq Nat
  BY Pointers DEF StateOf
<1>2. Min(S) \in S /\ Min(S) <= c
  BY <1>1, MinNat
<1>3. c <= Min(S)
  BY <1>2 DEF StateOf
<1>4. Min(S) = c
  BY <1>1, <1>2, <1>3
<1>5. Current = IF S = {} THEN NULL ELSE Min(S)
  BY DEF Current, process_get_current_running_pcb_pointer
<1> QED
  BY <1>1, <1>4, <1>5

\* The process that runs is the first in state RUNNING or NEW.
LEMMA RunningIsCurrent ==
  ASSUME NEW c \in Slots, Runs(c)
  PROVE  Current = c
<1>1. process_used[c] /\ StateOf(c) = "RUNNING"
  BY DEF Runs
<1>2. ASSUME NEW i \in Slots, process_used[i], StateOf(i) \in {"RUNNING", "NEW"}
      PROVE  c <= i
  <2>1. c \in Nat /\ i \in Nat
    BY Pointers
  <2> QED
    BY <1>2, <2>1 DEF Runs
<1> QED
  BY <1>1, <1>2, CurrentIs

\* How many processes there are.
LEMMA ActiveCount ==
  ASSUME IInv
  PROVE  active_process_count \in Nat /\ active_process_count <= PROCESS_COUNT_MAX
BY UsedSlotsFinite DEF IInv, TableConsistent

-----------------------------------------------------------------------------
(* The timer *)

\* The processes after the timer handler has saved the one that ran.
Saved ==
  /\ SavedQueue \in Seq(Slots \cup {NULL})
  /\ Len(SavedQueue) = active_process_count + 1
  /\ QueueInOrder(SavedQueue, process_used, SavedContext)
  /\ \A i \in Slots : process_used[i] =>
       /\ Occurrences(SavedQueue, i) = Turns(i)
       /\ SavedContext[i].process_state \in {"READY", "NEW"}
       /\ SavedContext[i].registers = DirectoryOf(i)
  /\ \A i \in Slots : ~process_used[i] => SavedContext[i] = ZeroPcb

\* The registers go to the PCB of the process that ran, and it queues up.
LEMMA SaveRunning ==
  ASSUME IInv, PROCESS_COUNT_MAX >= 2, SlotsInOrder, NEW c \in Slots, Runs(c)
  PROVE  Saved
<1> DEFINE q == scheduling_queue
           r == SavedQueue
           l == SavedContext
<1>1. Current = c /\ c # NULL /\ process_used[c]
  BY RunningIsCurrent, Pointers DEF Runs
<1>2. q \in Seq(Slots \cup {NULL}) /\ Len(q) = active_process_count
  BY DEF IInv, TypeOK, Runs
<1>3. active_process_count \in Nat /\ active_process_count <= PROCESS_COUNT_MAX
  BY ActiveCount
<1>4. r = q \o <<c>>
  <2>1. <<c>> \in Seq(Slots \cup {NULL}) /\ Len(<<c>>) = 1
    OBVIOUS
  <2>2. Len(q) + 1 <= PROCESS_QUEUE_SIZE - 1
    BY <1>2, <1>3, KernelAssumption DEF PROCESS_QUEUE_SIZE
  <2> HIDE DEF q
  <2>3. Enqueued(q, <<c>>) = q \o <<c>>
    BY <1>2, <2>1, <2>2, EnqueuedFits
  <2> QED
    BY <1>1, <2>3 DEF SavedQueue, q
<1>5. /\ r \in Seq(Slots \cup {NULL})
      /\ Len(r) = active_process_count + 1
      /\ r[Len(r)] = c
      /\ \A k \in 1 .. Len(q) : r[k] = q[k]
  BY <1>2, <1>4
<1>6. /\ l[c].process_state = "READY"
      /\ l[c].registers = DirectoryOf(c)
      /\ \A i \in Slots \ {c} : l[i] = process_list[i]
  <2>1. l = [process_list EXCEPT ![c] = SavedPcb(c)]
    BY <1>1 DEF SavedContext
  <2>2. process_list \in [Slots -> Pcb] /\ process_list[c] \in Pcb
    BY DEF IInv, TypeOK
  <2>3. cpu = DirectoryOf(c) /\ process_list[c].process_state = "RUNNING"
    BY DEF Runs, StateOf
  <2>4. SavedPcb(c).process_state = "READY" /\ SavedPcb(c).registers = DirectoryOf(c)
    BY <2>2, <2>3 DEF SavedPcb, Pcb
  <2> QED
    BY <2>1, <2>2, <2>4
<1> HIDE DEF q, r, l
<1>7. QueueInOrder(r, process_used, l)
  <2>1. QueueInOrder(q, process_used, process_list)
    BY DEF Runs, q
  <2>2. ASSUME NEW k \in 1 .. Len(r), k # Len(r)
        PROVE  k \in 1 .. Len(q) /\ r[k] = q[k]
    BY <1>2, <1>3, <1>5, <2>2
  <2>3. ASSUME NEW k \in 1 .. Len(r)
        PROVE  r[k] \in Slots /\ process_used[r[k]]
    BY <1>1, <1>5, <2>1, <2>2 DEF QueueInOrder
  <2>4. ASSUME NEW j \in 1 .. Len(r), NEW k \in 1 .. Len(r), j < k,
               l[r[k]].process_state = "NEW"
        PROVE  r[j] < r[k]
    <3>1. r[k] # c
      BY <1>6, <2>4
    <3>2. k # Len(r) /\ j # Len(r)
      BY <1>5, <1>3, <2>4, <3>1
    <3>3. j \in 1 .. Len(q) /\ k \in 1 .. Len(q) /\ r[j] = q[j] /\ r[k] = q[k]
      BY <2>2, <3>2
    <3>4. l[r[k]] = process_list[q[k]]
      BY <1>6, <2>3, <3>1, <3>3
    <3> QED
      BY <2>1, <2>4, <3>3, <3>4 DEF QueueInOrder
  <2> QED
    BY <2>3, <2>4 DEF QueueInOrder
<1>8. ASSUME NEW i \in Slots, process_used[i]
      PROVE  /\ Occurrences(r, i) = Turns(i)
             /\ l[i].process_state \in {"READY", "NEW"}
             /\ l[i].registers = DirectoryOf(i)
  <2>1. Occurrences(q, i) = Turns(i) - (IF i = c THEN 1 ELSE 0)
    BY <1>8 DEF Runs, q
  <2>2. Occurrences(r, i) = Occurrences(q, i) + (IF c = i THEN 1 ELSE 0)
    BY <1>2, <1>4, OccurrencesAppend
  <2>3. Turns(i) \in Int
    BY DEF Turns
  <2>4. Occurrences(r, i) = Turns(i)
    BY <2>1, <2>2, <2>3
  <2>5. CASE i = c
    BY <1>6, <2>4, <2>5
  <2>6. CASE i # c
    <3>1. l[i] = process_list[i]
      BY <1>6, <2>6
    <3>2. /\ process_list[i].process_state \in {"READY", "NEW"}
          /\ process_list[i].registers = DirectoryOf(i)
      BY <1>8, <2>6 DEF Runs, StateOf, RegistersOf
    <3> QED
      BY <2>4, <3>1, <3>2
  <2> QED
    BY <2>5, <2>6
<1>9. \A i \in Slots : ~process_used[i] => l[i] = ZeroPcb
  BY <1>1, <1>6 DEF SlotsInOrder
<1> QED
  BY <1>5, <1>7, <1>8, <1>9 DEF Saved, l, r
\* At the first tick the shell is NEW: its context is kept, and it is queued
\* although it already is in the queue.
LEMMA SaveFirst ==
  ASSUME IInv, PROCESS_COUNT_MAX >= 2, SlotsInOrder, BeforeFirstTick
  PROVE  Saved
<1> DEFINE l == SavedContext
<1>0. 0 \in Slots /\ 0 # NULL
  BY KernelAssumption DEF Slots, NULL
<1>1. process_used[0] /\ StateOf(0) = "NEW"
  BY <1>0 DEF SlotsInOrder, BeforeFirstTick
<1>2. Current = 0
  BY <1>0, <1>1, CurrentIs, Pointers DEF Slots
<1>3. SavedQueue = <<0>> \o <<0>>
  <2> DEFINE q == <<0>>
  <2>1. q \in Seq(Slots) /\ Len(q) = 1
    BY <1>0
  <2>2. SavedQueue = Enqueued(q, q)
    BY <1>0, <1>2 DEF SavedQueue, BeforeFirstTick
  <2> HIDE DEF q
  <2>3. Len(q) + Len(q) <= PROCESS_QUEUE_SIZE - 1
    BY <2>1, KernelAssumption DEF PROCESS_QUEUE_SIZE
  <2>4. Enqueued(q, q) = q \o q
    BY <2>1, <2>3, EnqueuedFits
  <2> QED
    BY <2>2, <2>4 DEF q
<1>11. /\ SavedQueue \in Seq(Slots \cup {NULL})
       /\ Len(SavedQueue) = 2 /\ SavedQueue[1] = 0 /\ SavedQueue[2] = 0
  BY <1>0, <1>3
<1>4. /\ l[0].process_state = "READY"
      /\ l[0].registers = DirectoryOf(0)
      /\ \A i \in Slots \ {0} : l[i] = process_list[i]
  <2>1. l = [process_list EXCEPT ![0] = SavedPcb(0)]
    BY <1>0, <1>2 DEF SavedContext
  <2>2. process_list \in [Slots -> Pcb] /\ process_list[0] \in Pcb
    BY <1>0 DEF IInv, TypeOK
  <2>3. process_list[0].registers = DirectoryOf(0) /\ process_list[0].process_state = "NEW"
    BY DEF BeforeFirstTick, StateOf, RegistersOf
  <2>4. SavedPcb(0).process_state = "READY" /\ SavedPcb(0).registers = DirectoryOf(0)
    BY <2>2, <2>3 DEF SavedPcb, Pcb
  <2> QED
    BY <1>0, <2>1, <2>2, <2>4
<1> HIDE DEF l
<1>5. \A i \in Slots : process_used[i] => i = 0
  BY Pointers DEF SlotsInOrder, BeforeFirstTick, Slots
<1>6. Occurrences(SavedQueue, 0) = 2
  <2> DEFINE q == <<0>>
  <2>1. q \in Seq(Slots) /\ Len(q) = 1 /\ q[1] = 0
    BY <1>0
  <2> HIDE DEF q
  <2>2. {k \in 1 .. Len(q) : q[k] = 0} = {1}
    BY <2>1
  <2>3. Occurrences(q, 0) = 1
    BY <2>2, FS_Singleton DEF Occurrences
  <2>4. Occurrences(q \o <<0>>, 0) = Occurrences(q, 0) + (IF 0 = 0 THEN 1 ELSE 0)
    BY <1>0, <2>1, OccurrencesAppend
  <2> QED
    BY <1>3, <2>3, <2>4 DEF q
<1>7. QueueInOrder(SavedQueue, process_used, l)
  BY <1>0, <1>1, <1>4, <1>11 DEF QueueInOrder
<1>8. SavedQueue \in Seq(Slots \cup {NULL}) /\ Len(SavedQueue) = active_process_count + 1
  BY <1>11 DEF BeforeFirstTick
<1>9. \A i \in Slots : process_used[i] =>
        /\ Occurrences(SavedQueue, i) = Turns(i)
        /\ l[i].process_state \in {"READY", "NEW"}
        /\ l[i].registers = DirectoryOf(i)
  BY <1>4, <1>5, <1>6 DEF Turns
<1>10. \A i \in Slots : ~process_used[i] => l[i] = ZeroPcb
  BY <1>1, <1>4 DEF SlotsInOrder
<1> QED
  BY <1>7, <1>8, <1>9, <1>10 DEF Saved, l

\* Where the processor goes after a tick.
SwitchedTo(c) ==
  /\ mode' = "running"
  /\ cr3' = DirectoryOf(c)
  /\ UNCHANGED <<process_used, active_process_count>>
  /\ \A i \in Slots : process_list'[i].page_directory = DirectoryOf(i)

\* The process at the head of the queue runs next.
LEMMA Dispatch ==
  ASSUME IInv, SlotsInOrder, Saved, Timer
  PROVE  SlotsInOrder' /\ \E c \in Slots : process_used[c] /\ SwitchedTo(c) /\ Runs(c)'
<1> DEFINE r == SavedQueue
           l == SavedContext
           q == scheduling_queue'
<1>1. active_process_count \in Nat
  BY ActiveCount
<1>2. r \in Seq(Slots \cup {NULL}) /\ Len(r) = active_process_count + 1 /\ r # <<>>
  BY <1>1 DEF Saved
<1>3. Head(r) = r[1] /\ 1 \in 1 .. Len(r)
  BY <1>1, <1>2
<1>4. PICK c \in Slots : c = r[1] /\ process_used[c]
  BY <1>3 DEF Saved, QueueInOrder
<1>5. NextPcb = c /\ QueueAfterDispatch = Tail(r) /\ c # NULL
  BY <1>2, <1>3, <1>4, Pointers DEF NextPcb, QueueAfterDispatch
<1>6. /\ l \in [Slots -> Pcb]
      /\ \A i \in Slots : l[i].page_directory = DirectoryOf(i)
  BY SavedContextType DEF IInv
<1>7. DirectoryOf(c) \in Directories /\ DirectoryOf(c) # NULL
  BY <1>4, Pointers DEF IInv, ProcessesIsolated, UsedSlots
<1> HIDE DEF l, r
<1>8. /\ mode' = "running"
      /\ process_list' = [l EXCEPT ![c].process_state = "RUNNING"]
      /\ q = Tail(r)
      /\ cr3' = DirectoryOf(c)
      /\ cpu' = l[c].registers
      /\ UNCHANGED <<process_used, active_process_count>>
  <2>1. TimerSwitch
    BY <1>4, <1>5, <1>6, <1>7 DEF Timer, TimerCrash, TimerWild, l
  <2> QED
    BY <2>1, <1>4, <1>5, <1>6 DEF TimerSwitch, l
<1>9. /\ process_list'[c].process_state = "RUNNING"
      /\ process_list'[c].page_directory = DirectoryOf(c)
      /\ \A i \in Slots \ {c} : process_list'[i] = l[i]
  BY <1>4, <1>6, <1>8 DEF Pcb
<1>10. \A i \in Slots : process_list'[i].page_directory = DirectoryOf(i)
  BY <1>6, <1>9
<1>11. SlotsInOrder'
  <2>1. \A i \in Slots : ~process_used[i] => process_list'[i] = ZeroPcb
    BY <1>4, <1>9 DEF Saved, l
  <2> QED
    BY <1>8, <2>1 DEF SlotsInOrder
<1>12. /\ Len(q) = active_process_count
       /\ \A k \in 1 .. Len(q) : k + 1 \in 1 .. Len(r) /\ q[k] = r[k + 1]
  BY <1>1, <1>2, <1>8
<1>13. ASSUME NEW i \in Slots, process_used[i], i # c, l[i].process_state = "NEW"
       PROVE  c < i
  <2>1. Occurrences(r, i) # 0
    BY <1>13 DEF Saved, Turns, r
  <2>2. PICK k \in 1 .. Len(r) : r[k] = i
    BY <1>2, <2>1, OccurrencesType
  <2>3. 1 < k
    BY <1>2, <1>3, <1>4, <1>13, <2>2
  <2> QED
    BY <1>3, <1>4, <1>13, <2>2, <2>3 DEF Saved, QueueInOrder, r, l
<1>14. \A i \in Slots : process_used[i] /\ i # c =>
         /\ \/ process_list'[i].process_state = "READY"
            \/ process_list'[i].process_state = "NEW" /\ c < i
         /\ process_list'[i].registers = process_list'[i].page_directory
  BY <1>9, <1>10, <1>13 DEF Saved, l
<1>15. QueueInOrder(q, process_used, process_list')
  <2>1. QueueInOrder(r, process_used, l)
    BY DEF Saved, r, l
  <2>2. ASSUME NEW k \in 1 .. Len(q)
        PROVE  q[k] \in Slots /\ process_used[q[k]]
    BY <1>12, <2>1 DEF QueueInOrder
  <2>3. ASSUME NEW j \in 1 .. Len(q), NEW k \in 1 .. Len(q), j < k,
               process_list'[q[k]].process_state = "NEW"
        PROVE  q[j] < q[k]
    <3>1. q[k] # c
      BY <1>9, <2>3
    <3>2. process_list'[q[k]] = l[q[k]]
      BY <1>9, <2>2, <3>1
    <3>3. j + 1 \in 1 .. Len(r) /\ k + 1 \in 1 .. Len(r) /\ j + 1 < k + 1
      BY <1>12, <2>3
    <3> QED
      BY <1>12, <2>1, <2>3, <3>2, <3>3 DEF QueueInOrder
  <2> QED
    BY <2>2, <2>3 DEF QueueInOrder
<1>16. \A i \in Slots : process_used[i] =>
         Occurrences(q, i) = Turns(i) - (IF i = c THEN 1 ELSE 0)
  <2>1. ASSUME NEW i \in Slots, process_used[i]
        PROVE  Occurrences(q, i) = Turns(i) - (IF i = c THEN 1 ELSE 0)
    <3>1. Occurrences(r, i) = Turns(i)
      BY <2>1 DEF Saved, r
    <3>2. Occurrences(q, i) = Occurrences(r, i) - (IF c = i THEN 1 ELSE 0)
      BY <1>2, <1>3, <1>4, <1>8, OccurrencesTail
    <3> QED
      BY <3>1, <3>2
  <2> QED
    BY <2>1
<1>17. cpu' = process_list'[c].page_directory /\ cr3' = process_list'[c].page_directory
  BY <1>4, <1>8, <1>9 DEF Saved, l
<1>18. Runs(c)'
  BY <1>4, <1>8, <1>9, <1>12, <1>14, <1>15, <1>16, <1>17
     DEF Runs, DirectoryOf, StateOf, RegistersOf, Occurrences
<1>19. SwitchedTo(c)
  BY <1>8, <1>10 DEF SwitchedTo
<1> QED
  BY <1>4, <1>11, <1>18, <1>19
-----------------------------------------------------------------------------
(* Start-up and system call 18 *)

\* What a successful creation does to the table, when processes have the first
\* slots: it takes the next one.
LEMMA LoadedTakesNext ==
  ASSUME IInv, SlotsInOrder, NEW p, NEW program, CreateLoaded(p, program),
         \E i \in Slots : ~process_used[i]
  PROVE  LET new == active_process_count IN
         /\ new \in Slots /\ ~process_used[new]
         /\ active_process_count' = new + 1 /\ latest_pid' = new
         /\ process_used' = [process_used EXCEPT ![new] = TRUE]
         /\ process_list'[new].process_state = "NEW"
         /\ process_list'[new].pid = new
         /\ process_list'[new].registers = process_list'[new].page_directory
         /\ \A i \in Slots \ {new} : process_list'[i] = process_list[i]
         /\ SlotsInOrder'
<1> DEFINE n == active_process_count
<1>1. n \in Nat
  BY ActiveCount
<1>2. NewSlot = n /\ n \in Slots /\ ~process_used[n]
  BY <1>1, NewSlotIsNext DEF SlotsInOrder
<1> DEFINE d == NewPageDirectory(p)
           pcb == [pid |-> n, process_state |-> "NEW", page_directory |-> d, registers |-> d]
<1>3. /\ process_list' = [process_list EXCEPT ![n] = pcb]
      /\ process_used' = [process_used EXCEPT ![n] = TRUE]
      /\ active_process_count' = n + 1
      /\ latest_pid' = n
  BY <1>2 DEF CreateLoaded
<1>4. /\ process_list \in [Slots -> Pcb]
      /\ process_used \in [Slots -> BOOLEAN]
  BY DEF IInv, TypeOK
<1>5. pcb.process_state = "NEW" /\ pcb.pid = n /\ pcb.registers = pcb.page_directory
  OBVIOUS
<1> HIDE DEF pcb, n
<1>6. process_list'[n] = pcb /\ \A i \in Slots \ {n} : process_list'[i] = process_list[i]
  BY <1>2, <1>3, <1>4
<1>7. \A i \in Slots : process_used'[i] <=> i < n + 1
  <2>1. \A i \in Slots : process_used'[i] <=> (i = n \/ process_used[i])
    BY <1>2, <1>3, <1>4
  <2>2. \A i \in Slots : process_used[i] <=> i < n
    BY DEF SlotsInOrder, n
  <2>3. ASSUME NEW i \in Slots PROVE i < n + 1 <=> (i = n \/ i < n)
    <3>1. i \in Nat /\ n \in Nat
      BY <1>1, Pointers DEF n
    <3> QED
      BY <3>1
  <2> QED
    BY <2>1, <2>2, <2>3
<1>8. \A i \in Slots : ~process_used'[i] => process_list'[i] = ZeroPcb
  <2>1. \A i \in Slots : ~process_used'[i] => i # n /\ ~process_used[i]
    BY <1>2, <1>3, <1>4
  <2> QED
    BY <1>6, <2>1 DEF SlotsInOrder
<1>9. SlotsInOrder'
  BY <1>3, <1>7, <1>8 DEF SlotsInOrder
<1> QED
  BY <1>2, <1>3, <1>5, <1>6, <1>9 DEF n

\* One more process, which nobody runs yet.
ProcessAdded(new) ==
  /\ ~process_used[new]
  /\ process_used' = [process_used EXCEPT ![new] = TRUE]
  /\ \A i \in Slots \ {new} : process_list'[i] = process_list[i]
  /\ UNCHANGED cr3

\* kernel_setup leaves a shell that waits for the timer, or no process at all.
LEMMA SetupStarts ==
  ASSUME IInv, KernelSetup("shell")
  PROVE  /\ SlotsInOrder'
         /\ \/ NoProcess' /\ UNCHANGED <<cr3, process_used>>
            \/ BeforeFirstTick' /\ ProcessAdded(0)
         /\ \A i \in Slots : ~process_used[i]
<1> DEFINE p == paging_allocate_user_page_frame(paging, KernelDirectory, CodePage)
           new == {i \in Slots : process_list'[i].process_state = "NEW"}
<1>1. /\ process_create_user_process(p, "shell")
      /\ scheduling_queue' =
           Enqueued(scheduling_queue, <<IF new = {} THEN NULL ELSE Min(new)>>)
      /\ cr3' = cr3
      /\ mode = "boot"
  BY DEF KernelSetup
<1>2. /\ process_list = [i \in Slots |-> ZeroPcb]
      /\ process_used = [i \in Slots |-> FALSE]
      /\ active_process_count = 0
      /\ scheduling_queue = <<>>
      /\ cr3 = KernelDirectory
  BY <1>1 DEF IInv, BootState
<1> HIDE DEF p
<1>3. 0 \in Slots /\ ~process_used[0]
  BY <1>2, KernelAssumption DEF Slots
<1>4. SlotsInOrder
  BY <1>2, Pointers DEF SlotsInOrder
<1>5. ZeroPcb.process_state # "NEW"
  BY DEF ZeroPcb
<1>6. ASSUME NEW x PROVE Enqueued(<<>>, <<x>>) = <<x>>
  <2> DEFINE q == <<>>
             s == <<x>>
  <2>1. q \in Seq({x}) /\ s \in Seq({x}) /\ Len(q) = 0 /\ Len(s) = 1 /\ q \o s = s
    OBVIOUS
  <2> HIDE DEF q, s
  <2>2. Len(q) + Len(s) <= PROCESS_QUEUE_SIZE - 1
    BY <2>1, KernelAssumption DEF PROCESS_QUEUE_SIZE
  <2>3. Enqueued(q, s) = q \o s
    BY <2>1, <2>2, EnqueuedFits
  <2> QED
    BY <2>1, <2>3 DEF q, s
<1>7. CASE CreateLoaded(p, "shell")
  <2>1. /\ SlotsInOrder'
        /\ active_process_count' = 1
        /\ process_list'[0].process_state = "NEW"
        /\ process_list'[0].registers = process_list'[0].page_directory
        /\ process_used' = [process_used EXCEPT ![0] = TRUE]
        /\ \A i \in Slots \ {0} : process_list'[i] = process_list[i]
    BY <1>2, <1>3, <1>4, <1>7, LoadedTakesNext
  <2>2. new = {0}
    BY <1>2, <1>3, <1>5, <2>1
  <2> HIDE DEF new
  <2>3. Min(new) = 0 /\ new # {}
    BY <2>2, MinNat
  <2>4. scheduling_queue' = <<0>>
    BY <1>1, <1>2, <1>6, <2>3
  <2>5. BeforeFirstTick'
    BY <1>1, <1>2, <2>1, <2>4 DEF BeforeFirstTick, StateOf, RegistersOf, DirectoryOf
  <2>6. ProcessAdded(0)
    BY <1>1, <1>3, <2>1 DEF ProcessAdded
  <2> QED
    BY <1>2, <2>1, <2>5, <2>6
<1>8. CASE ~CreateLoaded(p, "shell")
  <2>1. AbandonNewPcb
    BY <1>1, <1>8 DEF process_create_user_process, CreateWithoutDirectory,
                      CreateWithoutFrames
  <2>2. /\ process_list' = [process_list EXCEPT ![NewSlot] = ZeroPcb]
        /\ UNCHANGED <<process_used, active_process_count>>
    BY <2>1 DEF AbandonNewPcb
  <2>3. \A i \in Slots : process_list'[i] = ZeroPcb
    BY <1>2, <2>2
  <2>4. SlotsInOrder'
    BY <1>4, <2>2, <2>3 DEF SlotsInOrder
  <2>5. new = {}
    BY <1>5, <2>3
  <2> HIDE DEF new
  <2>6. scheduling_queue' = <<NULL>>
    BY <1>1, <1>2, <1>6, <2>5
  <2>7. NoProcess'
    BY <1>1, <1>2, <2>2, <2>6 DEF NoProcess
  <2> QED
    BY <1>1, <1>2, <2>2, <2>4, <2>7
<1> QED
  BY <1>7, <1>8

\* The only ascending order of one slot.
LEMMA AscendingSingleton ==
  ASSUME NEW x, NEW s \in AscendingOrders({x})
  PROVE  s = <<x>>
<1> DEFINE n == Cardinality({x})
<1>1. n = 1
  BY FS_Singleton
<1>2. s \in [1 .. n -> {x}]
  BY DEF AscendingOrders
<1>3. n \in Nat
  BY <1>1
<1> HIDE DEF n
<1>4. s \in Seq({x}) /\ Len(s) = n
  BY <1>2, <1>3
<1>5. s[1] = x
  BY <1>1, <1>2
<1> QED
  BY <1>1, <1>4, <1>5

\* System call 18 queues the new process behind all others.
LEMMA ExecAdds ==
  ASSUME IInv, PROCESS_COUNT_MAX >= 2, SlotsInOrder, NEW c \in Slots, Runs(c),
         NEW program \in Programs, program # "missing", SuccessfulExec(program)
  PROVE  SlotsInOrder' /\ Runs(c)' /\ \E new \in Slots : ProcessAdded(new)
<1> DEFINE new == active_process_count
           q == scheduling_queue
           S == {i \in Slots : process_list'[i].pid = latest_pid'}
<1>1. new \in Nat /\ new <= PROCESS_COUNT_MAX
  BY ActiveCount
<1>2. ~CleanupUninitialised(paging)
  <2>1. active_process_count' = active_process_count + 1
    BY DEF SuccessfulExec
  <2>2. active_process_count' # active_process_count
    BY <1>1, <2>1
  <2> QED
    BY <2>2 DEF SuccessfulExec, SyscallExec, processVars
<1>3. /\ UNCHANGED <<cpu, cr3, mode>>
      /\ process_create_user_process(paging, program)
      /\ \E s \in AscendingOrders(S) : scheduling_queue' = Enqueued(scheduling_queue, s)
      /\ active_process_count' = active_process_count + 1
  BY <1>2 DEF SuccessfulExec, SyscallExec
<1>4. CreateLoaded(paging, program)
  <2>1. active_process_count' # active_process_count
    BY <1>1, <1>3
  <2> QED
    BY <1>3, <2>1 DEF process_create_user_process, CreateWithoutDirectory,
                      CreateWithoutFrames, AbandonNewPcb
<1>5. \E i \in Slots : ~process_used[i]
  BY <1>2 DEF CleanupUninitialised
<1>6. /\ new \in Slots /\ ~process_used[new]
      /\ active_process_count' = new + 1 /\ latest_pid' = new
      /\ process_used' = [process_used EXCEPT ![new] = TRUE]
      /\ process_list'[new].process_state = "NEW"
      /\ process_list'[new].pid = new
      /\ process_list'[new].registers = process_list'[new].page_directory
      /\ \A i \in Slots \ {new} : process_list'[i] = process_list[i]
      /\ SlotsInOrder'
  BY <1>4, <1>5, LoadedTakesNext
<1>7. process_used[c] /\ c < new /\ c # new /\ new # 0
  BY <1>1, <1>6, Pointers DEF Runs, SlotsInOrder
<1>8. S = {new}
  <2>1. ASSUME NEW i \in Slots, i # new
        PROVE  process_list'[i].pid # new
    <3>1. process_list'[i] = process_list[i]
      BY <1>6, <2>1
    <3>2. CASE process_used[i]
      BY <2>1, <3>1, <3>2 DEF IInv, TableConsistent, UsedSlots
    <3>3. CASE ~process_used[i]
      <4>1. process_list[i] = ZeroPcb
        BY <3>3 DEF SlotsInOrder
      <4> QED
        BY <1>7, <3>1, <4>1 DEF ZeroPcb
    <3> QED
      BY <3>2, <3>3
  <2> QED
    BY <1>6, <2>1
<1>9. scheduling_queue' = q \o <<new>>
  <2>1. scheduling_queue' = Enqueued(q, <<new>>)
    BY <1>3, <1>8, AscendingSingleton
  <2>2. q \in Seq(Slots \cup {NULL}) /\ Len(q) = new
    BY DEF IInv, TypeOK, Runs
  <2>3. <<new>> \in Seq(Slots \cup {NULL}) /\ Len(<<new>>) = 1
    BY <1>6
  <2>4. Len(q) + 1 <= PROCESS_QUEUE_SIZE - 1
    BY <1>1, <2>2, KernelAssumption DEF PROCESS_QUEUE_SIZE
  <2> HIDE DEF q, new
  <2>5. Enqueued(q, <<new>>) = q \o <<new>>
    BY <2>2, <2>3, <2>4, EnqueuedFits
  <2> QED
    BY <2>1, <2>5
<1> DEFINE r == scheduling_queue'
<1>10. /\ q \in Seq(Slots \cup {NULL}) /\ Len(q) = new
       /\ QueueInOrder(q, process_used, process_list)
  BY DEF IInv, TypeOK, Runs
<1>11. /\ Len(r) = new + 1 /\ r[Len(r)] = new
       /\ \A k \in 1 .. Len(q) : r[k] = q[k]
  BY <1>9, <1>10
<1>12. \A i \in Slots : process_used[i] => i < new /\ process_used'[i]
                                           /\ process_list'[i] = process_list[i]
  <2>1. process_used \in [Slots -> BOOLEAN]
    BY DEF IInv, TypeOK
  <2> QED
    BY <1>6, <2>1 DEF SlotsInOrder
<1>13. \A i \in Slots : process_used'[i] => i = new \/ process_used[i]
  BY <1>6 DEF IInv, TypeOK
<1> HIDE DEF q, r, new
<1>14. QueueInOrder(r, process_used', process_list')
  <2>1. ASSUME NEW k \in 1 .. Len(r), k # Len(r)
        PROVE  /\ k \in 1 .. Len(q) /\ r[k] = q[k]
               /\ r[k] \in Slots /\ process_used[r[k]]
    <3>1. k \in 1 .. Len(q) /\ r[k] = q[k]
      BY <1>1, <1>10, <1>11, <2>1
    <3> QED
      BY <1>10, <3>1 DEF QueueInOrder
  <2>2. ASSUME NEW k \in 1 .. Len(r)
        PROVE  r[k] \in Slots /\ process_used'[r[k]]
    <3>1. process_used'[new]
      BY <1>6 DEF IInv, TypeOK, new
    <3> QED
      BY <1>6, <1>11, <1>12, <2>1, <3>1
  <2>3. ASSUME NEW j \in 1 .. Len(r), NEW k \in 1 .. Len(r), j < k,
               process_list'[r[k]].process_state = "NEW"
        PROVE  r[j] < r[k]
    <3>1. j # Len(r)
      BY <1>1, <1>11, <2>3
    <3>2. CASE k = Len(r)
      BY <1>11, <1>12, <2>1, <3>1, <3>2
    <3>3. CASE k # Len(r)
      BY <1>10, <1>12, <2>1, <2>3, <3>1, <3>3 DEF QueueInOrder
    <3> QED
      BY <3>2, <3>3
  <2> QED
    BY <2>2, <2>3 DEF QueueInOrder
<1>15. ASSUME NEW i \in Slots, process_used'[i]
       PROVE  Occurrences(r, i) = Turns(i) - (IF i = c THEN 1 ELSE 0)
  <2>1. Occurrences(r, i) = Occurrences(q, i) + (IF new = i THEN 1 ELSE 0)
    BY <1>6, <1>9, <1>10, OccurrencesAppend DEF r
  <2>2. CASE i # new
    <3>1. Occurrences(q, i) = Turns(i) - (IF i = c THEN 1 ELSE 0)
      BY <1>13, <1>15, <2>2 DEF Runs, q
    <3> QED
      BY <2>1, <2>2, <3>1 DEF Turns
  <2>3. CASE i = new
    <3>1. \A k \in 1 .. Len(q) : q[k] # new
      BY <1>6, <1>10 DEF QueueInOrder
    <3>2. Occurrences(q, new) = 0
      BY <1>10, <3>1, OccurrencesType
    <3> QED
      BY <1>7, <2>1, <2>3, <3>2 DEF Turns
  <2> QED
    BY <2>2, <2>3
<1>16. ASSUME NEW i \in Slots, process_used'[i], i # c
       PROVE  /\ \/ process_list'[i].process_state = "READY"
                 \/ process_list'[i].process_state = "NEW" /\ c < i
              /\ process_list'[i].registers = process_list'[i].page_directory
  <2>1. CASE i = new
    BY <1>6, <1>7, <2>1
  <2>2. CASE i # new
    BY <1>12, <1>13, <1>16, <2>2 DEF Runs, StateOf, RegistersOf, DirectoryOf
  <2> QED
    BY <2>1, <2>2
<1>17. /\ process_used'[c] /\ process_list'[c].process_state = "RUNNING"
       /\ cr3' = process_list'[c].page_directory
       /\ cpu' = process_list'[c].page_directory
  BY <1>3, <1>7, <1>12 DEF Runs, StateOf, DirectoryOf
<1>18. Len(r) = active_process_count'
  BY <1>6, <1>11
<1>19. Runs(c)'
  BY <1>14, <1>15, <1>16, <1>17, <1>18
     DEF Runs, StateOf, RegistersOf, DirectoryOf, Occurrences, r
<1>20. ProcessAdded(new)
  BY <1>3, <1>6 DEF ProcessAdded
<1> QED
  BY <1>6, <1>19, <1>20
-----------------------------------------------------------------------------
(* The invariant *)

\* Nothing happens to the processes.
Waits ==
  /\ UNCHANGED <<cr3, process_used>>
  /\ \A i \in Slots : process_used[i] => process_list'[i].page_directory = DirectoryOf(i)

\* A tick without a process follows the pointer that was never assigned.
LEMMA NobodyToRun ==
  ASSUME IInv, SlotsInOrder, NoProcess, Timer
  PROVE  mode' = "wild" /\ Waits
<1>1. \A i \in Slots : ~process_used[i]
  BY Pointers DEF SlotsInOrder, NoProcess
<1>2. Current = NULL
  BY <1>1 DEF Current, process_get_current_running_pcb_pointer
<1>3. SavedQueue = <<NULL>> /\ SavedContext = process_list
  BY <1>2 DEF SavedQueue, SavedContext, NoProcess
<1>4. NextPcb = NULL
  BY <1>3 DEF NextPcb
<1>5. TimerWild
  BY <1>4 DEF Timer, TimerSwitch, TimerCrash
<1> QED
  BY <1>1, <1>3, <1>5 DEF TimerWild, Waits

\* A tick runs a live process, if there is one.
LEMMA TickSwitches ==
  ASSUME IInv, PROCESS_COUNT_MAX >= 2, SessionInv, Timer
  PROVE  /\ SessionInv'
         /\ Waits \/ \E c \in Slots : process_used[c] /\ SwitchedTo(c)
<1>1. mode = "running"
  BY DEF Timer, TimerSwitch, TimerCrash, TimerWild
<1>2. SlotsInOrder
  BY <1>1 DEF SessionInv
<1>3. CASE NoProcess
  BY <1>2, <1>3, NobodyToRun DEF SessionInv
<1>4. CASE Saved
  BY <1>2, <1>4, Dispatch DEF SessionInv
<1> QED
  BY <1>1, <1>2, <1>3, <1>4, SaveFirst, SaveRunning DEF SessionInv

\* Every step of a careful session preserves SessionInv and adds a process,
\* passes the processor to one, or does neither.
LEMMA CarefulStep ==
  ASSUME IInv, PROCESS_COUNT_MAX >= 2, SessionInv, CarefulNext
  PROVE  /\ SessionInv'
         /\ \/ Waits
            \/ \E new \in Slots : ProcessAdded(new)
            \/ \E c \in Slots : process_used[c] /\ SwitchedTo(c)
<1>1. CASE KernelSetup("shell")
  <2>1. 0 \in Slots
    BY KernelAssumption DEF Slots
  <2> QED
    BY <1>1, <2>1, SetupStarts DEF SessionInv, Waits
<1>2. ASSUME NEW program \in Programs \ {"sound", "missing"}, SuccessfulExec(program)
      PROVE  SessionInv' /\ \E new \in Slots : ProcessAdded(new)
  <2>1. mode = "running" /\ cr3 \in Directories
    BY <1>2 DEF SuccessfulExec, SyscallExec, Executing
  <2>2. SlotsInOrder /\ \E c \in Slots : Runs(c)
    BY <2>1, Pointers DEF SessionInv, NoProcess, BeforeFirstTick
  <2> QED
    BY <1>2, <2>2, ExecAdds DEF SessionInv
<1>3. CASE Timer
  BY <1>3, TickSwitches
<1> QED
  BY <1>1, <1>2, <1>3 DEF CarefulNext

\* SessionInv speaks of these variables only.
LEMMA SessionStutters ==
  ASSUME SessionInv, UNCHANGED vars
  PROVE  SessionInv'
<1>1. ASSUME NEW c \in Slots, Runs(c) PROVE Runs(c)'
  BY <1>1 DEF Runs, vars, machineVars, processVars, DirectoryOf, StateOf, RegistersOf,
              Occurrences, QueueInOrder
<1> QED
  BY <1>1 DEF SessionInv, SlotsInOrder, NoProcess, BeforeFirstTick, vars, machineVars,
              processVars, DirectoryOf, StateOf, RegistersOf

\* A careful session is a session.
LEMMA CarefulIsNext == CarefulNext => Next
<1>1. ASSUME NEW program \in Programs, SuccessfulExec(program)
      PROVE  SyscallExec(program)
  BY <1>1 DEF SuccessfulExec
<1> QED
  BY <1>1 DEF CarefulNext, Next

\* The order of the slots, of the queue and of who is queued how often lasts
\* through any session of successful execs (process.c, scheduler.c).
THEOREM SessionInvariance ==
  ASSUME PROCESS_COUNT_MAX >= 2
  PROVE  CarefulSpec => [](IInv /\ SessionInv)
<1>1. Init => IInv /\ SessionInv
  BY InitEstablishesIInv DEF Init, SessionInv
<1>2. IInv /\ SessionInv /\ [CarefulNext]_vars => IInv' /\ SessionInv'
  <2> SUFFICES ASSUME IInv, SessionInv, [CarefulNext]_vars
               PROVE  IInv' /\ SessionInv'
    OBVIOUS
  <2>1. IInv'
    BY CarefulIsNext, NextPreservesIInv
  <2>2. SessionInv'
    BY CarefulStep, SessionStutters
  <2> QED
    BY <2>1, <2>2
<1> QED
  BY <1>1, <1>2, PTL DEF CarefulSpec
-----------------------------------------------------------------------------
(* What it implies *)

\* A directory tells which process runs.
LEMMA WhoRuns ==
  ASSUME IInv, SessionInv, mode = "running"
  PROVE  /\ cr3 = KernelDirectory => NoProcess \/ BeforeFirstTick
         /\ \A c \in Slots : Runs(c) =>
              /\ c \in UsedSlots /\ cr3 = DirectoryOf(c) /\ cr3 # KernelDirectory
              /\ \A i \in UsedSlots : DirectoryOf(i) = cr3 <=> i = c
<1>1. ASSUME NEW c \in Slots, Runs(c)
      PROVE  /\ c \in UsedSlots /\ cr3 = DirectoryOf(c) /\ cr3 # KernelDirectory
             /\ \A i \in UsedSlots : DirectoryOf(i) = cr3 <=> i = c
  <2>1. c \in UsedSlots /\ cr3 = DirectoryOf(c)
    BY <1>1 DEF Runs, UsedSlots
  <2> QED
    BY <2>1, Pointers DEF IInv, ProcessesIsolated
<1> QED
  BY <1>1 DEF SessionInv

\* The timer handler saves the registers that the processor holds into the PCB
\* of the process that holds it, although its search also takes slots in state
\* NEW (process.h:112, scheduler.c:41).
THEOREM CurrentExecutes ==
  ASSUME PROCESS_COUNT_MAX >= 2
  PROVE  CarefulSpec => []CurrentIsExecuting
<1>1. IInv /\ SessionInv => CurrentIsExecuting
  <2> SUFFICES ASSUME IInv, SessionInv, mode = "running", cr3 # KernelDirectory
               PROVE  Current # NULL /\ DirectoryOf(Current) = cr3 /\ cpu = cr3
    BY DEF CurrentIsExecuting
  <2>1. PICK c \in Slots : Runs(c)
    BY DEF SessionInv, NoProcess, BeforeFirstTick
  <2>2. Current = c
    BY <2>1, RunningIsCurrent
  <2> QED
    BY <2>1, <2>2, Pointers DEF Runs
<1> QED
  BY <1>1, SessionInvariance, PTL

\* No process is lost from the queue and none gets into it once too often,
\* save the shell, which stays in it twice (scheduler.c:36 and :48).
THEOREM QueueAccounted ==
  ASSUME PROCESS_COUNT_MAX >= 2
  PROVE  CarefulSpec => []QueueAccounting
<1>1. IInv /\ SessionInv => QueueAccounting
  <2> SUFFICES ASSUME IInv, SessionInv, mode = "running", NEW i \in UsedSlots
               PROVE  TimesQueued(i) = (IF i = 0 /\ cr3 # KernelDirectory THEN 1 ELSE 0)
                                       + (IF DirectoryOf(i) = cr3 THEN 0 ELSE 1)
    BY DEF QueueAccounting
  <2>1. i \in Slots /\ process_used[i]
    BY DEF UsedSlots
  <2>2. TimesQueued(i) = Occurrences(scheduling_queue, i)
    BY DEF TimesQueued, Occurrences
  <2>3. CASE NoProcess
    BY <2>1, <2>3, Pointers DEF SessionInv, SlotsInOrder, NoProcess
  <2>4. CASE BeforeFirstTick
    <3>1. i = 0 /\ cr3 = KernelDirectory
      BY <2>1, <2>4, Pointers DEF SessionInv, SlotsInOrder, BeforeFirstTick
    <3>2. DirectoryOf(i) # cr3
      BY <3>1, Pointers DEF IInv, ProcessesIsolated
    <3> DEFINE q == scheduling_queue
    <3>3. Len(q) = 1 /\ q[1] = 0
      BY <2>4 DEF BeforeFirstTick
    <3>4. {k \in 1 .. Len(q) : q[k] = 0} = {1}
      BY <3>3
    <3>5. Occurrences(q, 0) = 1
      BY <3>4, FS_Singleton DEF Occurrences
    <3> QED
      BY <2>2, <3>1, <3>2, <3>5
  <2>5. ASSUME NEW c \in Slots, Runs(c)
        PROVE  TimesQueued(i) = (IF i = 0 /\ cr3 # KernelDirectory THEN 1 ELSE 0)
                                + (IF DirectoryOf(i) = cr3 THEN 0 ELSE 1)
    <3>1. cr3 # KernelDirectory /\ (DirectoryOf(i) = cr3 <=> i = c)
      BY <2>5, WhoRuns
    <3>2. Occurrences(scheduling_queue, i) = Turns(i) - (IF i = c THEN 1 ELSE 0)
      BY <2>1, <2>5 DEF Runs
    <3> QED
      BY <2>2, <3>1, <3>2 DEF Turns
  <2> QED
    BY <2>3, <2>4, <2>5 DEF SessionInv
<1> QED
  BY <1>1, SessionInvariance, PTL

-----------------------------------------------------------------------------
(* Refinement *)

\* A created process is one that was not alive; the processor stays where it was.
LEMMA AddedStarts ==
  ASSUME IInv, IInv', NEW new \in Slots, ProcessAdded(new)
  PROVE  LET d == process_list'[new].page_directory
         IN  d \in Directories /\ Tasks!Start(d)
<1> DEFINE live == {DirectoryOf(i) : i \in UsedSlots}
           d == process_list'[new].page_directory
<1>1. /\ UsedSlots' = UsedSlots \cup {new} /\ new \notin UsedSlots
      /\ UsedSlots \subseteq Slots
  BY DEF IInv, TypeOK, ProcessAdded, UsedSlots
<1>2. \A i \in UsedSlots : process_list'[i].page_directory = process_list[i].page_directory
  BY <1>1 DEF ProcessAdded
<1>3. d \in Directories
  BY <1>1 DEF IInv, ProcessesIsolated, DirectoryOf
<1>4. \A i \in UsedSlots : process_list'[i].page_directory # d
  BY <1>1 DEF IInv, ProcessesIsolated, DirectoryOf
<1>5. d \notin live
  BY <1>2, <1>4 DEF DirectoryOf
<1>6. live' = live \cup {d}
  BY <1>1, <1>2 DEF DirectoryOf
<1> QED
  BY <1>3, <1>5, <1>6 DEF Tasks!Start, ProcessAdded, DirectoryOf

\* The live processes stay, when the table does.
LEMMA LiveStay ==
  ASSUME UNCHANGED process_used,
         \A i \in Slots : process_used[i] => process_list'[i].page_directory = DirectoryOf(i)
  PROVE  {process_list'[i].page_directory : i \in UsedSlots'}
           = {process_list[i].page_directory : i \in UsedSlots}
<1>1. UsedSlots' = UsedSlots
  BY DEF UsedSlots
<1>2. \A i \in UsedSlots : process_list'[i].page_directory = process_list[i].page_directory
  BY DEF UsedSlots, DirectoryOf
<1> QED
  BY <1>1, <1>2

\* The kernel with its queue, its table and its page directories implements
\* multitasking: whatever a careful session does starts a new process or
\* passes the processor to a live one.
THEOREM MultitaskingRefined ==
  ASSUME PROCESS_COUNT_MAX >= 2
  PROVE  CarefulSpec => ImplementsMultitasking
<1>1. Init => Tasks!Init
  <2>1. ASSUME Init PROVE UsedSlots = {} /\ cr3 = KernelDirectory
    BY <2>1 DEF Init, UsedSlots
  <2> QED
    BY <2>1 DEF Tasks!Init
<1>2. IInv /\ IInv' /\ SessionInv /\ [CarefulNext]_vars
        => [Tasks!Next]_(Tasks!taskVars)
  <2> SUFFICES ASSUME IInv, IInv', SessionInv, [CarefulNext]_vars
               PROVE  [Tasks!Next]_(Tasks!taskVars)
    OBVIOUS
  <2>1. CASE UNCHANGED vars
    BY <2>1 DEF vars, machineVars, processVars, Tasks!taskVars, UsedSlots, DirectoryOf
  <2>2. CASE Waits
    BY <2>2, LiveStay DEF Waits, Tasks!taskVars, DirectoryOf
  <2>3. ASSUME NEW new \in Slots, ProcessAdded(new)
        PROVE  Tasks!Next
    BY <2>3, AddedStarts DEF Tasks!Next
  <2>4. ASSUME NEW c \in Slots, process_used[c], SwitchedTo(c)
        PROVE  Tasks!Next
    <3>1. DirectoryOf(c) \in Directories /\ c \in UsedSlots
      BY <2>4 DEF IInv, ProcessesIsolated, UsedSlots
    <3>2. Tasks!Switch(DirectoryOf(c))
      BY <2>4, <3>1, LiveStay DEF Tasks!Switch, SwitchedTo, DirectoryOf
    <3> QED
      BY <3>1, <3>2 DEF Tasks!Next
  <2> QED
    BY <2>1, <2>2, <2>3, <2>4, CarefulStep
<1> QED
  BY <1>1, <1>2, SessionInvariance, PTL DEF CarefulSpec, ImplementsMultitasking, Tasks!Spec
=============================================================================
