---------------------------- MODULE KernelProofs ----------------------------
(***************************************************************************)
(* Theorems about Kernel for any number of process slots, page frames and  *)
(* page directories, and any set of programs.                              *)
(*                                                                         *)
(* The inductive invariant IInv is the conjunction of the properties that  *)
(* the runs check with four facts about the state they depend on: what the *)
(* state is before kernel_setup, that the boot directory keeps frame 0     *)
(* mapped, that every PCB refers to a loaded directory or to none, and     *)
(* that processes own two frames each.                                     *)
(***************************************************************************)
EXTENDS Kernel, PageTablesProofs

\* Nothing happened before kernel_setup.
BootState ==
  mode = "boot" =>
    /\ process_list = [i \in Slots |-> ZeroPcb]
    /\ process_used = [i \in Slots |-> FALSE]
    /\ active_process_count = 0
    /\ latest_pid = 0
    /\ scheduling_queue = <<>>
    /\ paging = BootPaging
    /\ cr3 = KernelDirectory

\* The kernel's own frame is mapped where kernel_setup put it.
KernelFrameMapped ==
  mode # "boot" =>
    /\ UserMapped(paging, KernelDirectory, CodePage)
    /\ paging.table[KernelDirectory][CodePage].frame = 0

\* A PCB, even one of a destroyed process, refers to a directory in use with a
\* program in it, or to no directory at all.
PcbsLoaded ==
  \A i \in Slots :
    DirectoryOf(i) # NULL =>
      paging.page_directory_used[DirectoryOf(i)] /\ image[DirectoryOf(i)] # "none"

\* Frames leave the pool in pairs, two for each process, after the kernel's.
FrameBudget ==
  mode # "boot" =>
    /\ paging.free_page_frame_count % 2 = (PAGE_FRAME_MAX_COUNT - 1) % 2
    /\ 2 * active_process_count + paging.free_page_frame_count
         <= PAGE_FRAME_MAX_COUNT - 1

IInv ==
  /\ TypeOK
  /\ BootState
  /\ ProcessesIsolated
  /\ KernelFrameMapped
  /\ PcbsLoaded
  /\ TableConsistent
  /\ FrameBudget
  /\ RunsInLoadedDirectory
  /\ CleanupPointerAssigned

-----------------------------------------------------------------------------
(* The parts of the process table and of the scheduler *)

\* The special pointers name no slot and no directory.
LEMMA Pointers ==
  /\ Slots \subseteq Nat
  /\ NULL \notin Slots
  /\ NULL \notin AllDirectories
  /\ NULL \notin Directories
  /\ KernelDirectory \notin Directories
  /\ IsFiniteSet(Slots)
<1>1. IsFiniteSet(Slots)
  BY KernelAssumption, FS_Interval DEF Slots
<1> QED
  BY <1>1, KernelAssumption, PageTablesAssumption
     DEF Slots, NULL, AllDirectories, KernelDirectory, Directories

\* The search for an inactive slot finds one that is not used.
LEMMA NewSlotUnused ==
  ASSUME \E i \in Slots : ~process_used[i]
  PROVE  NewSlot \in Slots /\ ~process_used[NewSlot]
<1> DEFINE S == {i \in Slots : ~process_used[i]}
<1>1. S \subseteq Nat /\ S # {}
  BY Pointers
<1>2. Min(S) \in S
  BY <1>1, MinNat
<1> QED
  BY <1>2 DEF NewSlot

\* Queueing keeps a sequence of slots below the capacity of the ring.
LEMMA EnqueuedType ==
  ASSUME NEW S, NEW q \in Seq(S), NEW s \in Seq(S)
  PROVE  /\ Enqueued(q, s) \in Seq(S)
         /\ Len(Enqueued(q, s)) < PROCESS_QUEUE_SIZE
<1> DEFINE n == Min({PROCESS_QUEUE_SIZE - 1, Len(q) + Len(s)})
<1>1. PROCESS_QUEUE_SIZE \in Nat /\ PROCESS_QUEUE_SIZE - 1 \in Nat
  BY KernelAssumption DEF PROCESS_QUEUE_SIZE
<1>2. Len(q) + Len(s) \in Nat
  OBVIOUS
<1>3. n \in Nat /\ n <= PROCESS_QUEUE_SIZE - 1 /\ n <= Len(q) + Len(s)
  BY <1>1, <1>2, MinNat
<1>4. q \o s \in Seq(S) /\ Len(q \o s) = Len(q) + Len(s)
  OBVIOUS
<1> HIDE DEF n
<1>5. SubSeq(q \o s, 1, n) \in Seq(S) /\ Len(SubSeq(q \o s, 1, n)) = n
  BY <1>3, <1>4
<1>6. Enqueued(q, s) = SubSeq(q \o s, 1, n)
  BY DEF Enqueued, n
<1> QED
  BY <1>1, <1>3, <1>5, <1>6

\* The slots that system call 18 queues form a sequence of slots.
LEMMA AscendingType ==
  ASSUME NEW S \in SUBSET Slots, NEW s \in AscendingOrders(S)
  PROVE  s \in Seq(Slots \cup {NULL})
<1>1. Cardinality(S) \in Nat
  BY Pointers, FS_Subset, FS_CardinalityType
<1>2. s \in [1 .. Cardinality(S) -> Slots \cup {NULL}]
  BY DEF AscendingOrders
<1> QED
  BY <1>1, <1>2

\* The PCB that the timer handler saves into is a slot, or there is none.
LEMMA CurrentType == Current \in Slots \cup {NULL}
<1> DEFINE S == {i \in Slots : /\ process_used[i]
                               /\ process_list[i].process_state \in {"RUNNING", "NEW"}}
<1>1. CASE S = {}
  BY <1>1 DEF Current, process_get_current_running_pcb_pointer
<1>2. CASE S # {}
  <2>1. Min(S) \in S
    BY <1>2, Pointers, MinNat
  <2> QED
    BY <1>2, <2>1 DEF Current, process_get_current_running_pcb_pointer
<1> QED
  BY <1>1, <1>2

\* Saving a context touches registers and states only.
LEMMA SavedContextType ==
  ASSUME TypeOK
  PROVE  /\ SavedContext \in [Slots -> Pcb]
         /\ \A i \in Slots : /\ SavedContext[i].pid = process_list[i].pid
                             /\ SavedContext[i].page_directory = DirectoryOf(i)
<1>1. CASE Current = NULL
  BY <1>1 DEF SavedContext, TypeOK, DirectoryOf
<1>2. CASE Current # NULL
  <2>1. Current \in Slots
    BY <1>2, CurrentType
  <2>2. process_list[Current] \in Pcb
    BY <2>1 DEF TypeOK
  <2>3. /\ SavedPcb(Current) \in Pcb
        /\ SavedPcb(Current).pid = process_list[Current].pid
        /\ SavedPcb(Current).page_directory = process_list[Current].page_directory
    <3>1. cpu \in AllDirectories \cup {NULL}
      BY DEF TypeOK
    <3>2. "READY" \in ProcessStates
      BY DEF ProcessStates
    <3> QED
      BY <2>2, <3>1, <3>2 DEF Pcb, SavedPcb
  <2>4. SavedContext = [process_list EXCEPT ![Current] = SavedPcb(Current)]
    BY <1>2 DEF SavedContext
  <2> QED
    BY <2>1, <2>3, <2>4 DEF TypeOK, DirectoryOf
<1> QED
  BY <1>1, <1>2

\* The queue that the timer handler works on, and the PCB it takes from it.
LEMMA DispatchType ==
  ASSUME TypeOK
  PROVE  /\ QueueAfterDispatch \in Seq(Slots \cup {NULL})
         /\ Len(QueueAfterDispatch) < PROCESS_QUEUE_SIZE
         /\ NextPcb \in Slots \cup {NULL}
<1> DEFINE S == Slots \cup {NULL}
<1>1. SavedQueue \in Seq(S) /\ Len(SavedQueue) < PROCESS_QUEUE_SIZE
  <2>1. CASE Current = NULL
    BY <2>1 DEF SavedQueue, TypeOK
  <2>2. CASE Current # NULL
    <3>1. scheduling_queue \in Seq(S) /\ <<Current>> \in Seq(S)
      BY CurrentType DEF TypeOK
    <3> QED
      BY <2>2, <3>1, EnqueuedType DEF SavedQueue
  <2> QED
    BY <2>1, <2>2
<1>2. PROCESS_QUEUE_SIZE \in Nat /\ 0 < PROCESS_QUEUE_SIZE
  BY KernelAssumption DEF PROCESS_QUEUE_SIZE
<1>3. CASE SavedQueue = <<>>
  <2>1. QueueAfterDispatch \in Seq(S) /\ Len(QueueAfterDispatch) < PROCESS_QUEUE_SIZE
    BY <1>2, <1>3 DEF QueueAfterDispatch
  <2> DEFINE latest == {i \in Slots : SavedContext[i].pid = latest_pid}
  <2>2. latest # {} => Min(latest) \in latest
    BY Pointers, MinNat
  <2>3. NextPcb = IF latest # {} THEN Min(latest) ELSE NULL
    BY <1>3 DEF NextPcb
  <2> QED
    BY <2>1, <2>2, <2>3
<1>4. CASE SavedQueue # <<>>
  <2>1. /\ Head(SavedQueue) \in S
        /\ Tail(SavedQueue) \in Seq(S)
        /\ Len(Tail(SavedQueue)) = Len(SavedQueue) - 1
    BY <1>1, <1>4
  <2> QED
    BY <1>1, <1>2, <1>4, <2>1 DEF NextPcb, QueueAfterDispatch
<1> QED
  BY <1>3, <1>4

-----------------------------------------------------------------------------
(* The memory of a new process *)

\* A call of process_create_user_process leaves the memory manager sound, and
\* the directories that were in use as they were; it takes no frame or two.
MemoryKept(p, q) ==
  /\ q \in PagingState
  /\ PagingSound(q)
  /\ \A e \in Directories : p.page_directory_used[e] =>
       q.page_directory_used[e] /\ q.table[e] = p.table[e]
  /\ q.table[KernelDirectory] = p.table[KernelDirectory]
  /\ q.free_page_frame_count \in {p.free_page_frame_count, p.free_page_frame_count - 2}

\* The memory manager after the directory, the code frame and the stack frame.
LEMMA NewMemory ==
  ASSUME NEW p \in PagingState, PagingSound(p), NewPageDirectory(p) # NULL
  PROVE  LET d == NewPageDirectory(p) IN
    /\ d \in Directories /\ ~p.page_directory_used[d]
    /\ WithDirectory(p) \in PagingState /\ PagingSound(WithDirectory(p))
    /\ WithCode(p) \in PagingState /\ PagingSound(WithCode(p))
    /\ WithStack(p) \in PagingState /\ PagingSound(WithStack(p))
    /\ WithDirectory(p).page_directory_used = [p.page_directory_used EXCEPT ![d] = TRUE]
    /\ WithCode(p).page_directory_used = WithDirectory(p).page_directory_used
    /\ WithStack(p).page_directory_used = WithDirectory(p).page_directory_used
    /\ \A e \in AllDirectories \ {d} :
         /\ WithDirectory(p).table[e] = p.table[e]
         /\ WithCode(p).table[e] = p.table[e]
         /\ WithStack(p).table[e] = p.table[e]
<1> DEFINE d == NewPageDirectory(p)
           a == WithDirectory(p)
           b == WithCode(p)
           c == WithStack(p)
<1>1. d \in Directories /\ ~p.page_directory_used[d]
  BY FirstFreeDirectory
<1>2. d \in AllDirectories /\ CodePage \in Pages /\ StackPage \in Pages
  BY <1>1 DEF AllDirectories, Pages
<1>3. a \in PagingState /\ PagingSound(a)
  BY CreateDirectorySound DEF WithDirectory
<1>4. /\ a.page_directory_used = [p.page_directory_used EXCEPT ![d] = TRUE]
      /\ \A e \in AllDirectories \ {d} : a.table[e] = p.table[e]
  <2>1. /\ a.page_directory_used = [p.page_directory_used EXCEPT ![d] = TRUE]
        /\ a.table = [p.table EXCEPT ![d] =
             [v \in Pages |-> IF v = KernelPage THEN KernelEntry ELSE EmptyEntry]]
    BY CreateDirectoryEffect DEF WithDirectory
  <2>2. p.table \in [AllDirectories -> [Pages -> Entry]]
    BY DEF PagingState
  <2> HIDE DEF a, d
  <2> QED
    BY <2>1, <2>2
<1>5. b = paging_allocate_user_page_frame(a, d, CodePage)
  BY DEF WithCode
<1>6. c = paging_allocate_user_page_frame(b, d, StackPage)
  BY DEF WithStack
<1> HIDE DEF a, b, c, d
<1>7. a.page_directory_used[d]
  BY <1>1, <1>4 DEF PagingState
<1>8. b \in PagingState /\ PagingSound(b)
  BY <1>2, <1>3, <1>5, <1>7, AllocateSound
<1>9. /\ b.page_directory_used = a.page_directory_used
      /\ \A e \in AllDirectories \ {d} : b.table[e] = a.table[e]
  BY <1>2, <1>3, <1>5, AllocateKeeps
<1>10. c \in PagingState /\ PagingSound(c)
  BY <1>2, <1>6, <1>7, <1>8, <1>9, AllocateSound
<1>11. /\ c.page_directory_used = b.page_directory_used
       /\ \A e \in AllDirectories \ {d} : c.table[e] = b.table[e]
  BY <1>2, <1>6, <1>8, AllocateKeeps
<1> QED
  BY <1>1, <1>3, <1>4, <1>8, <1>9, <1>10, <1>11 DEF a, b, c, d

\* A creation that finds both frames takes two and maps them.
LEMMA TwoFrames ==
  ASSUME NEW p \in PagingState, PagingSound(p), NewPageDirectory(p) # NULL,
         BothFramesAvailable(p)
  PROVE  /\ WithStack(p).free_page_frame_count = p.free_page_frame_count - 2
         /\ UserMapped(WithStack(p), NewPageDirectory(p), CodePage)
         /\ UserMapped(WithStack(p), NewPageDirectory(p), StackPage)
<1> DEFINE d == NewPageDirectory(p)
           a == WithDirectory(p)
           b == WithCode(p)
           c == WithStack(p)
           f == Min(FreeFrames(a))
           g == Min(FreeFrames(b))
<1>1. d \in AllDirectories /\ CodePage \in Pages /\ StackPage \in Pages
  BY FirstFreeDirectory DEF AllDirectories, Pages
<1>2. a \in PagingState /\ b \in PagingState
  BY NewMemory
<1>3. a.free_page_frame_count = p.free_page_frame_count
  BY CreateDirectoryEffect DEF WithDirectory
<1>4. b = paging_allocate_user_page_frame(a, d, CodePage)
  BY DEF WithCode
<1>5. c = paging_allocate_user_page_frame(b, d, StackPage)
  BY DEF WithStack
<1>6. FrameAvailable(a) /\ FrameAvailable(b)
  BY DEF BothFramesAvailable
<1> HIDE DEF a, b, c, d
<1>7. /\ b.free_page_frame_count = a.free_page_frame_count - 1
      /\ b.table = [a.table EXCEPT ![d][CodePage] = UserEntry(f)]
  BY ZenonT(30), <1>1, <1>2, <1>4, <1>6, AllocateEffect
<1>8. /\ c.free_page_frame_count = b.free_page_frame_count - 1
      /\ c.table = [b.table EXCEPT ![d][StackPage] = UserEntry(g)]
  BY ZenonT(30), <1>1, <1>2, <1>5, <1>6, AllocateEffect
<1> HIDE DEF f, g
<1>9. c.table[d][CodePage] = UserEntry(f) /\ c.table[d][StackPage] = UserEntry(g)
  <2>1. CodePage # StackPage
    BY DEF CodePage, StackPage
  <2>2. /\ a.table \in [AllDirectories -> [Pages -> Entry]]
        /\ b.table \in [AllDirectories -> [Pages -> Entry]]
    BY <1>2 DEF PagingState
  <2> QED
    BY <1>1, <1>7, <1>8, <2>1, <2>2
<1>10. UserMapped(c, d, CodePage) /\ UserMapped(c, d, StackPage)
  BY <1>9 DEF UserMapped, UserEntry
<1>11. c.free_page_frame_count = p.free_page_frame_count - 2
  <2>1. p.free_page_frame_count \in Int
    BY DEF PagingState
  <2> QED
    BY <1>3, <1>7, <1>8, <2>1
<1> QED
  BY <1>10, <1>11 DEF c, d

\* What a creation that runs out of frames leaves behind.
CleanedUp(p) ==
  paging_free_user_page_frame(WithCode(p), NewPageDirectory(p), CodePage)

\* A creation that runs out of frames returns the one it took.
LEMMA NoFrames ==
  ASSUME NEW p \in PagingState, PagingSound(p), NewPageDirectory(p) # NULL
  PROVE  CleanedUp(p).free_page_frame_count = p.free_page_frame_count
<1> DEFINE d == NewPageDirectory(p)
           a == WithDirectory(p)
           b == WithCode(p)
<1>1. d \in AllDirectories /\ CodePage \in Pages
  BY FirstFreeDirectory DEF AllDirectories, Pages
<1>2. a \in PagingState /\ b \in PagingState
  BY NewMemory
<1>3. /\ a.free_page_frame_count = p.free_page_frame_count
      /\ a.table = [p.table EXCEPT ![d] =
           [v \in Pages |-> IF v = KernelPage THEN KernelEntry ELSE EmptyEntry]]
  BY CreateDirectoryEffect DEF WithDirectory
<1>4. b = paging_allocate_user_page_frame(a, d, CodePage)
  BY DEF WithCode
<1> HIDE DEF a, b, d
<1>5. CASE FrameAvailable(a)
  <2> DEFINE f == Min(FreeFrames(a))
  <2>1. /\ b.free_page_frame_count = a.free_page_frame_count - 1
        /\ b.table = [a.table EXCEPT ![d][CodePage] = UserEntry(f)]
    BY ZenonT(30), <1>1, <1>2, <1>4, <1>5, AllocateEffect
  <2> HIDE DEF f
  <2>2. b.table[d][CodePage] = UserEntry(f)
    BY <1>1, <1>2, <2>1 DEF PagingState
  <2>3. UserMapped(b, d, CodePage)
    BY <2>2 DEF UserMapped, UserEntry
  <2>4. CleanedUp(p).free_page_frame_count = b.free_page_frame_count + 1
    BY <1>1, <1>2, <2>3, FreeCount DEF CleanedUp, b, d
  <2>5. p.free_page_frame_count \in Int
    BY DEF PagingState
  <2> QED
    BY <1>3, <2>1, <2>4, <2>5
<1>6. CASE ~FrameAvailable(a)
  <2>1. b = a
    BY <1>4, <1>6, AllocateFails
  <2>2. a.table[d][CodePage] = EmptyEntry
    BY <1>1, <1>3 DEF PagingState, CodePage, KernelPage
  <2>3. ~UserMapped(b, d, CodePage)
    BY <2>1, <2>2 DEF UserMapped, EmptyEntry
  <2>4. CleanedUp(p) = b
    BY <2>3, FreeFails DEF CleanedUp, b, d
  <2> QED
    BY <1>3, <2>1, <2>4
<1> QED
  BY <1>5, <1>6

\* A creation that does not succeed keeps everybody's memory as it was.
LEMMA FailedCreate ==
  ASSUME NEW p \in PagingState, PagingSound(p),
         \/ CreateWithoutDirectory(p)
         \/ CreateWithoutFrames(p)
         \/ CreateUnreadable(p)
  PROVE  MemoryKept(p, paging') /\ AbandonNewPcb
<1> DEFINE d == NewPageDirectory(p)
<1>0. p.page_directory_used \in [Directories -> BOOLEAN]
  BY DEF PagingState
<1>1. CASE CreateWithoutDirectory(p)
  BY <1>1 DEF CreateWithoutDirectory, MemoryKept
<1>2. CASE CreateWithoutFrames(p)
  <2> DEFINE b == WithCode(p)
             q == CleanedUp(p)
  <2>1. d # NULL /\ paging' = q /\ AbandonNewPcb
    BY <1>2 DEF CreateWithoutFrames, CleanedUp
  <2>2. /\ d \in Directories /\ ~p.page_directory_used[d]
        /\ b \in PagingState /\ PagingSound(b)
        /\ b.page_directory_used = [p.page_directory_used EXCEPT ![d] = TRUE]
        /\ \A e \in AllDirectories \ {d} : b.table[e] = p.table[e]
    BY <2>1, NewMemory
  <2>3. d \in AllDirectories /\ CodePage \in Pages
    BY <2>2 DEF AllDirectories, Pages
  <2>4. q \in PagingState /\ PagingSound(q)
    BY <2>2, <2>3, FreeSound DEF CleanedUp
  <2>5. /\ q.page_directory_used = b.page_directory_used
        /\ \A e \in AllDirectories \ {d} : q.table[e] = b.table[e]
    BY <2>2, <2>3, FreeKeeps DEF CleanedUp
  <2>6. q.free_page_frame_count = p.free_page_frame_count
    BY <2>1, NoFrames
  <2> HIDE DEF b, d, q
  <2> QED
    BY <1>0, <2>1, <2>2, <2>4, <2>5, <2>6, Pointers DEF MemoryKept, AllDirectories
<1>3. CASE CreateUnreadable(p)
  <2> DEFINE q == WithStack(p)
  <2>1. d # NULL /\ BothFramesAvailable(p) /\ paging' = q /\ AbandonNewPcb
    BY <1>3 DEF CreateUnreadable
  <2>2. /\ d \in Directories /\ ~p.page_directory_used[d]
        /\ q \in PagingState /\ PagingSound(q)
        /\ q.page_directory_used = [p.page_directory_used EXCEPT ![d] = TRUE]
        /\ \A e \in AllDirectories \ {d} : q.table[e] = p.table[e]
    BY <2>1, NewMemory
  <2>3. q.free_page_frame_count = p.free_page_frame_count - 2
    BY <2>1, TwoFrames
  <2> HIDE DEF d, q
  <2> QED
    BY <1>0, <2>1, <2>2, <2>3, Pointers DEF MemoryKept, AllDirectories
<1> QED
  BY <1>1, <1>2, <1>3

\* A creation that succeeds gives the process a directory nobody used, with
\* two frames mapped.
LEMMA LoadedCreate ==
  ASSUME NEW p \in PagingState, PagingSound(p), NEW program, CreateLoaded(p, program)
  PROVE  LET d == NewPageDirectory(p) IN
         /\ MemoryKept(p, paging')
         /\ d \in Directories
         /\ ~p.page_directory_used[d]
         /\ paging'.page_directory_used[d]
         /\ UserMapped(paging', d, CodePage)
         /\ UserMapped(paging', d, StackPage)
         /\ paging'.free_page_frame_count = p.free_page_frame_count - 2
<1> DEFINE d == NewPageDirectory(p)
           q == WithStack(p)
<1>0. p.page_directory_used \in [Directories -> BOOLEAN]
  BY DEF PagingState
<1>1. d # NULL /\ BothFramesAvailable(p) /\ paging' = q
  BY DEF CreateLoaded
<1>2. /\ d \in Directories /\ ~p.page_directory_used[d]
      /\ q \in PagingState /\ PagingSound(q)
      /\ q.page_directory_used = [p.page_directory_used EXCEPT ![d] = TRUE]
      /\ \A e \in AllDirectories \ {d} : q.table[e] = p.table[e]
  BY <1>1, NewMemory
<1>3. /\ q.free_page_frame_count = p.free_page_frame_count - 2
      /\ UserMapped(q, d, CodePage) /\ UserMapped(q, d, StackPage)
  BY <1>1, TwoFrames
<1> HIDE DEF d, q
<1>4. MemoryKept(p, paging')
  BY <1>0, <1>1, <1>2, <1>3, Pointers DEF MemoryKept, AllDirectories
<1>5. paging'.page_directory_used[d]
  BY <1>0, <1>1, <1>2
<1> QED
  BY <1>1, <1>2, <1>3, <1>4, <1>5 DEF d

-----------------------------------------------------------------------------
(* The process table *)

ProcessTypes ==
  /\ process_list \in [Slots -> Pcb]
  /\ process_used \in [Slots -> BOOLEAN]
  /\ active_process_count \in Int
  /\ latest_pid \in Slots
  /\ image \in [Directories -> Images]

\* A process table refers to directories of the memory manager's state p: those
\* of processes have their two pages mapped, those of all PCBs are loaded.
TableFits(list, used, loaded, p) ==
  /\ \A i \in Slots : used[i] =>
       /\ list[i].page_directory \in Directories
       /\ \A v \in {CodePage, StackPage} : UserMapped(p, list[i].page_directory, v)
  /\ \A i, j \in Slots :
       used[i] /\ used[j] /\ list[i].page_directory = list[j].page_directory => i = j
  /\ \A i \in Slots :
       list[i].page_directory # NULL =>
         /\ p.page_directory_used[list[i].page_directory]
         /\ loaded[list[i].page_directory] # "none"

\* What the invariant says of the process table, in these terms.
LEMMA TableFitsInvariant ==
  ASSUME ProcessesIsolated, PcbsLoaded
  PROVE  TableFits(process_list, process_used, image, paging)
BY DEF ProcessesIsolated, PcbsLoaded, TableFits, UsedSlots, DirectoryOf

LEMMA InvariantTableFits ==
  ASSUME PagingSound(paging'),
         TableFits(process_list', process_used', image', paging')
  PROVE  ProcessesIsolated' /\ PcbsLoaded'
<1>1. \A i \in UsedSlots' : i \in Slots /\ process_used'[i]
  BY DEF UsedSlots
<1>2. \A i \in Slots : DirectoryOf(i)' = process_list'[i].page_directory
  BY DEF DirectoryOf
<1>3. \A i \in Slots : process_used'[i] =>
        /\ process_list'[i].page_directory \in Directories
        /\ process_list'[i].page_directory # NULL
  BY Pointers DEF TableFits
<1>4. ProcessesIsolated'
  <2>1. \A i \in UsedSlots' :
          /\ DirectoryOf(i)' \in Directories
          /\ paging'.page_directory_used[DirectoryOf(i)']
          /\ \A v \in {CodePage, StackPage} : UserMapped(paging', DirectoryOf(i)', v)
    BY <1>1, <1>2, <1>3 DEF TableFits
  <2>2. \A i, j \in UsedSlots' : DirectoryOf(i)' = DirectoryOf(j)' => i = j
    BY <1>1, <1>2 DEF TableFits
  <2> QED
    BY <2>1, <2>2 DEF ProcessesIsolated
<1>5. PcbsLoaded'
  BY <1>2 DEF PcbsLoaded, TableFits
<1> QED
  BY <1>4, <1>5

\* A live process keeps its directory, in the table and in memory.
LiveKept(p) ==
  \A i \in Slots : process_used[i] /\ process_used'[i] =>
    /\ process_list'[i].page_directory = DirectoryOf(i)
    /\ paging'.table[DirectoryOf(i)] = p.table[DirectoryOf(i)]

\* The used slots are finitely many.
LEMMA UsedSlotsFinite ==
  /\ IsFiniteSet(UsedSlots) /\ Cardinality(UsedSlots) \in Nat
  /\ Cardinality(UsedSlots) <= PROCESS_COUNT_MAX
  /\ Cardinality(UsedSlots) = PROCESS_COUNT_MAX => UsedSlots = Slots
<1>1. Cardinality(Slots) = PROCESS_COUNT_MAX
  BY KernelAssumption, FS_Interval DEF Slots
<1>2. UsedSlots \subseteq Slots
  BY DEF UsedSlots
<1> QED
  BY <1>1, <1>2, Pointers, FS_Subset, FS_CardinalityType

\* A failed creation leaves a cleared PCB in a slot that was not used.
LEMMA AbandonPreserves ==
  ASSUME NEW p \in PagingState, TypeOK, TableConsistent,
         TableFits(process_list, process_used, image, p),
         MemoryKept(p, paging'), AbandonNewPcb, \E i \in Slots : ~process_used[i]
  PROVE  /\ ProcessTypes' /\ TableConsistent'
         /\ TableFits(process_list', process_used', image', paging')
         /\ active_process_count' = active_process_count
         /\ LiveKept(p)
<1> DEFINE new == NewSlot
<1>1. new \in Slots /\ ~process_used[new]
  BY NewSlotUnused
<1>2. /\ process_list' = [process_list EXCEPT ![new] = ZeroPcb]
      /\ UNCHANGED <<process_used, active_process_count, latest_pid, image>>
  BY DEF AbandonNewPcb
<1> HIDE DEF new
<1>3. ZeroPcb \in Pcb /\ ZeroPcb.page_directory = NULL
  BY KernelAssumption DEF ZeroPcb, Pcb, Slots, ProcessStates
<1>4. ProcessTypes'
  BY <1>1, <1>2, <1>3 DEF TypeOK, ProcessTypes
<1>5. \A i \in Slots : process_list'[i] = IF i = new THEN ZeroPcb ELSE process_list[i]
  BY <1>1, <1>2 DEF TypeOK
<1>6. \A i \in Slots : process_used[i] => i # new /\ process_list'[i] = process_list[i]
  BY <1>1, <1>5
<1>7. \A i \in Slots : process_list[i].page_directory \in Directories \cup {NULL}
  BY DEF TypeOK, Pcb
<1>8. \A i \in Slots : process_used[i] =>
        /\ process_list[i].page_directory \in Directories
        /\ p.page_directory_used[process_list[i].page_directory]
        /\ paging'.table[process_list[i].page_directory]
             = p.table[process_list[i].page_directory]
  <2>1. \A i \in Slots : process_used[i] =>
          /\ process_list[i].page_directory \in Directories
          /\ p.page_directory_used[process_list[i].page_directory]
    BY Pointers DEF TableFits
  <2> QED
    BY <2>1 DEF MemoryKept
<1>9. TableConsistent'
  <2>1. UsedSlots' = UsedSlots
    BY <1>2 DEF UsedSlots
  <2> QED
    BY <1>2, <1>6, <2>1 DEF TableConsistent, UsedSlots
<1>10. TableFits(process_list', process_used', image', paging')
  <2>1. \A i \in Slots : process_used'[i] =>
          /\ process_list'[i].page_directory \in Directories
          /\ \A v \in {CodePage, StackPage} :
               UserMapped(paging', process_list'[i].page_directory, v)
    BY <1>2, <1>6, <1>8 DEF TableFits, UserMapped
  <2>2. \A i, j \in Slots :
          /\ process_used'[i] /\ process_used'[j]
          /\ process_list'[i].page_directory = process_list'[j].page_directory
          => i = j
    BY <1>2, <1>6 DEF TableFits
  <2>3. \A i \in Slots : process_list'[i].page_directory # NULL =>
          /\ paging'.page_directory_used[process_list'[i].page_directory]
          /\ image'[process_list'[i].page_directory] # "none"
    BY <1>2, <1>3, <1>5, <1>7 DEF TableFits, MemoryKept
  <2> QED
    BY <2>1, <2>2, <2>3 DEF TableFits
<1>11. LiveKept(p)
  BY <1>6, <1>8 DEF LiveKept, DirectoryOf
<1> QED
  BY <1>2, <1>4, <1>9, <1>10, <1>11

\* A successful creation adds a process with a directory of its own.
LEMMA LoadedPreserves ==
  ASSUME NEW p \in PagingState, PagingSound(p), TypeOK, TableConsistent,
         TableFits(process_list, process_used, image, p),
         NEW program \in Images, program # "none", CreateLoaded(p, program),
         \E i \in Slots : ~process_used[i]
  PROVE  /\ ProcessTypes' /\ TableConsistent'
         /\ TableFits(process_list', process_used', image', paging')
         /\ active_process_count' = active_process_count + 1
         /\ LiveKept(p)
<1> DEFINE new == NewSlot
           d == NewPageDirectory(p)
           pcb == [pid |-> new, process_state |-> "NEW",
                   page_directory |-> d, registers |-> d]
<1>1. new \in Slots /\ ~process_used[new]
  BY NewSlotUnused
<1>2. /\ process_list' = [process_list EXCEPT ![new] = pcb]
      /\ process_used' = [process_used EXCEPT ![new] = TRUE]
      /\ active_process_count' = active_process_count + 1
      /\ latest_pid' = new
      /\ image' = [image EXCEPT ![d] = program]
  BY DEF CreateLoaded
<1>3. /\ MemoryKept(p, paging')
      /\ d \in Directories
      /\ ~p.page_directory_used[d]
      /\ paging'.page_directory_used[d]
      /\ UserMapped(paging', d, CodePage)
      /\ UserMapped(paging', d, StackPage)
  BY LoadedCreate
<1> HIDE DEF new, d
<1>4. pcb \in Pcb /\ pcb.pid = new /\ pcb.page_directory = d
  BY <1>1, <1>3 DEF Pcb, ProcessStates, AllDirectories
<1> HIDE DEF pcb
<1>5. /\ \A i \in Slots : process_list'[i] = IF i = new THEN pcb ELSE process_list[i]
      /\ \A i \in Slots : process_used'[i] = IF i = new THEN TRUE ELSE process_used[i]
      /\ \A e \in Directories : image'[e] = IF e = d THEN program ELSE image[e]
  BY <1>1, <1>2, <1>3 DEF TypeOK
<1>6. ProcessTypes'
  BY <1>1, <1>2, <1>3, <1>4 DEF TypeOK, ProcessTypes
<1>7. \A i \in Slots : process_list[i].page_directory \in Directories \cup {NULL}
  BY DEF TypeOK, Pcb
<1>8. \A i \in Slots : process_used[i] =>
        /\ process_list[i].page_directory \in Directories
        /\ p.page_directory_used[process_list[i].page_directory]
        /\ process_list[i].page_directory # d
        /\ paging'.table[process_list[i].page_directory]
             = p.table[process_list[i].page_directory]
  <2>1. ASSUME NEW i \in Slots, process_used[i]
        PROVE  /\ process_list[i].page_directory \in Directories
               /\ p.page_directory_used[process_list[i].page_directory]
    <3>1. process_list[i].page_directory \in Directories
      BY <2>1 DEF TableFits
    <3>2. process_list[i].page_directory # NULL
      BY <3>1, Pointers
    <3> QED
      BY <3>1, <3>2 DEF TableFits
  <2>2. \A e \in Directories : p.page_directory_used[e] =>
          paging'.table[e] = p.table[e]
    BY <1>3 DEF MemoryKept
  <2> QED
    BY <1>3, <2>1, <2>2
<1>9. \A i \in Slots : process_used[i] => i # new /\ process_list'[i] = process_list[i]
  BY <1>1, <1>5
<1>10. TableConsistent'
  <2>1. UsedSlots' = UsedSlots \cup {new} /\ new \notin UsedSlots
    BY <1>1, <1>5 DEF UsedSlots
  <2>2. Cardinality(UsedSlots') = Cardinality(UsedSlots) + 1
    BY <2>1, UsedSlotsFinite, FS_AddElement
  <2>3. \A i \in UsedSlots' : process_list'[i].pid = i
    BY <1>1, <1>4, <1>5, <2>1 DEF TableConsistent, UsedSlots
  <2> QED
    BY <1>2, <2>2, <2>3 DEF TableConsistent
<1>11. TableFits(process_list', process_used', image', paging')
  <2>1. ASSUME NEW i \in Slots, process_used'[i]
        PROVE  /\ process_list'[i].page_directory \in Directories
               /\ \A v \in {CodePage, StackPage} :
                    UserMapped(paging', process_list'[i].page_directory, v)
    <3>1. CASE i = new
      BY <1>3, <1>4, <1>5, <3>1
    <3>2. CASE i # new
      BY <1>5, <1>8, <2>1, <3>2 DEF TableFits, UserMapped
    <3> QED
      BY <3>1, <3>2
  <2>2. ASSUME NEW i \in Slots, NEW j \in Slots,
               process_used'[i], process_used'[j],
               process_list'[i].page_directory = process_list'[j].page_directory
        PROVE  i = j
    <3>1. ASSUME NEW k \in Slots, process_used'[k], k # new
          PROVE  /\ process_used[k]
                 /\ process_list'[k] = process_list[k]
                 /\ process_list'[k].page_directory # d
      <4>1. process_used[k] /\ process_list'[k] = process_list[k]
        BY <1>5, <3>1
      <4> QED
        BY <1>8, <4>1
    <3>2. process_list'[new].page_directory = d
      BY <1>1, <1>4, <1>5
    <3>3. CASE i # new /\ j # new
      <4>1. /\ process_used[i] /\ process_used[j]
            /\ process_list[i].page_directory = process_list[j].page_directory
        BY <2>2, <3>1, <3>3
      <4> QED
        BY <4>1 DEF TableFits
    <3>4. CASE i = new \/ j = new
      BY <2>2, <3>1, <3>2, <3>4
    <3> QED
      BY <3>3, <3>4
  <2>3. ASSUME NEW i \in Slots, process_list'[i].page_directory # NULL
        PROVE  /\ paging'.page_directory_used[process_list'[i].page_directory]
               /\ image'[process_list'[i].page_directory] # "none"
    <3>1. CASE i = new
      BY <1>3, <1>4, <1>5, <3>1
    <3>2. CASE i # new
      <4>1. process_list'[i] = process_list[i]
        BY <1>5, <3>2
      <4> QED
        BY <1>5, <1>3, <1>7, <2>3, <4>1 DEF TableFits, MemoryKept
    <3> QED
      BY <3>1, <3>2
  <2> QED
    BY <2>1, <2>2, <2>3 DEF TableFits
<1>12. LiveKept(p)
  BY <1>8, <1>9 DEF LiveKept, DirectoryOf
<1> QED
  BY <1>2, <1>6, <1>10, <1>11, <1>12

\* Destroying a process changes its state and its use bit only.
LEMMA DestroyPreserves ==
  ASSUME NEW pid \in Slots, TypeOK, TableConsistent,
         TableFits(process_list, process_used, image, paging),
         process_destroy(pid)
  PROVE  /\ process_list' \in [Slots -> Pcb]
         /\ process_used' \in [Slots -> BOOLEAN]
         /\ active_process_count' \in Int
         /\ latest_pid' \in Slots
         /\ TableConsistent'
         /\ TableFits(process_list', process_used', image, paging)
         /\ active_process_count' <= active_process_count
         /\ \A i \in Slots : process_list'[i].page_directory = DirectoryOf(i)
<1> DEFINE found == ProcessesWithPid(pid)
           k == Min(found)
<1>1. CASE found = {}
  <2>1. UNCHANGED processVars
    BY <1>1 DEF process_destroy
  <2>2. UNCHANGED <<process_list, process_used, active_process_count, latest_pid>>
    BY <2>1 DEF processVars
  <2>3. TableConsistent'
    BY <2>2 DEF TableConsistent, UsedSlots
  <2> QED
    BY <2>2, <2>3 DEF TypeOK, DirectoryOf
<1>2. CASE found # {}
  <2>1. k \in found
    BY <1>2, Pointers, MinNat DEF ProcessesWithPid
  <2>2. k \in Slots /\ process_used[k]
    BY <2>1 DEF ProcessesWithPid
  <2>3. /\ process_list' = [process_list EXCEPT ![k].process_state = "TERMINATED"]
        /\ process_used' = [process_used EXCEPT ![k] = FALSE]
        /\ active_process_count' = active_process_count - 1
        /\ latest_pid' = latest_pid
    BY <1>2 DEF process_destroy
  <2> HIDE DEF found, k
  <2>4. /\ process_list' \in [Slots -> Pcb]
        /\ \A i \in Slots : /\ process_list'[i].page_directory = DirectoryOf(i)
                            /\ process_list'[i].pid = process_list[i].pid
    <3> DEFINE pcb == [process_list[k] EXCEPT !.process_state = "TERMINATED"]
    <3>1. process_list \in [Slots -> Pcb]
      BY DEF TypeOK
    <3>2. process_list[k] \in Pcb
      BY <2>2, <3>1
    <3>3. /\ pcb \in Pcb
          /\ pcb.page_directory = process_list[k].page_directory
          /\ pcb.pid = process_list[k].pid
      BY <3>2 DEF Pcb, ProcessStates
    <3>4. process_list' = [process_list EXCEPT ![k] = pcb]
      BY <2>3
    <3> HIDE DEF pcb
    <3>5. process_list' \in [Slots -> Pcb]
      BY <3>1, <3>3, <3>4
    <3>6. \A i \in Slots :
            process_list'[i] = IF i = k THEN pcb ELSE process_list[i]
      BY <3>1, <3>4
    <3> QED
      BY <3>3, <3>5, <3>6 DEF DirectoryOf
  <2>5. \A i \in Slots : process_used'[i] <=> (process_used[i] /\ i # k)
    BY <2>2, <2>3 DEF TypeOK
  <2>6. /\ process_used' \in [Slots -> BOOLEAN]
        /\ active_process_count' \in Int
        /\ latest_pid' \in Slots
        /\ active_process_count' <= active_process_count
    <3>1. process_used' \in [Slots -> BOOLEAN]
      BY <2>3 DEF TypeOK
    <3>2. /\ active_process_count' \in Int
          /\ active_process_count' <= active_process_count
      BY <2>3 DEF TypeOK
    <3>3. latest_pid' \in Slots
      BY <2>3 DEF TypeOK
    <3> QED
      BY <3>1, <3>2, <3>3
  <2>7. TableConsistent'
    <3>1. UsedSlots' = UsedSlots \ {k} /\ k \in UsedSlots
      BY <2>2, <2>5 DEF UsedSlots
    <3>2. Cardinality(UsedSlots') = Cardinality(UsedSlots) - 1
      BY <3>1, UsedSlotsFinite, FS_RemoveElement
    <3>3. \A i \in UsedSlots' : process_list'[i].pid = i
      BY <2>4, <3>1 DEF TableConsistent, UsedSlots
    <3> QED
      BY <2>3, <3>2, <3>3 DEF TableConsistent
  <2>8. TableFits(process_list', process_used', image, paging)
    BY <2>4, <2>5 DEF TableFits, DirectoryOf
  <2> QED
    BY <2>4, <2>6, <2>7, <2>8
<1> QED
  BY <1>1, <1>2

\* Two frames for a process; the check of process.c:67 asks for one byte count
\* that the amount of two frames is mistaken for, so one free frame passes it.
LEMMA FrameAmounts ==
  /\ FramesNeeded = 2
  /\ \A p \in PagingState :
       paging_allocate_check(p, FramesNeeded) <=> p.free_page_frame_count >= 1
<1>1. FramesNeeded = 2
  BY DEF FramesNeeded, ceil_div, PAGE_FRAME_SIZE
<1> QED
  BY <1>1 DEF paging_allocate_check, PAGE_FRAME_SIZE, PagingState

\* The whole of process_create_user_process, once its early exits are passed.
LEMMA CreatePreserves ==
  ASSUME NEW p \in PagingState, PagingSound(p), TypeOK, TableConsistent,
         TableFits(process_list, process_used, image, p),
         NEW program \in ProgramNames, process_create_user_process(p, program),
         \E i \in Slots : ~process_used[i]
  PROVE  /\ ProcessTypes' /\ TableConsistent'
         /\ TableFits(process_list', process_used', image', paging')
         /\ MemoryKept(p, paging')
         /\ LiveKept(p)
         /\ 2 * active_process_count' + paging'.free_page_frame_count
              <= 2 * active_process_count + p.free_page_frame_count
<1>0. active_process_count \in Int /\ p.free_page_frame_count \in Int
  BY DEF TypeOK, PagingState
<1>1. CASE \/ CreateWithoutDirectory(p)
           \/ CreateWithoutFrames(p)
           \/ CreateUnreadable(p)
  <2>1. MemoryKept(p, paging') /\ AbandonNewPcb
    BY <1>1, FailedCreate
  <2>2. /\ ProcessTypes' /\ TableConsistent'
        /\ TableFits(process_list', process_used', image', paging')
        /\ active_process_count' = active_process_count
        /\ LiveKept(p)
    BY <2>1, AbandonPreserves
  <2>3. paging'.free_page_frame_count
          \in {p.free_page_frame_count, p.free_page_frame_count - 2}
    BY <2>1 DEF MemoryKept
  <2> QED
    BY <1>0, <2>1, <2>2, <2>3
<1>2. CASE program # "missing" /\ CreateLoaded(p, program)
  <2>1. program \in Images /\ program # "none"
    BY <1>2 DEF ProgramNames, Images
  <2>2. /\ ProcessTypes' /\ TableConsistent'
        /\ TableFits(process_list', process_used', image', paging')
        /\ active_process_count' = active_process_count + 1
        /\ LiveKept(p)
    BY <1>2, <2>1, LoadedPreserves
  <2>3. /\ MemoryKept(p, paging')
        /\ paging'.free_page_frame_count = p.free_page_frame_count - 2
    BY <1>2, LoadedCreate
  <2> QED
    BY <1>0, <2>2, <2>3
<1> QED
  BY <1>1, <1>2 DEF process_create_user_process

\* A creation loads a program or leaves the images as they were.
LEMMA ImagesStayLoaded ==
  ASSUME NEW p, NEW program \in ProgramNames, image \in [Directories -> Images],
         process_create_user_process(p, program)
  PROVE  \A d \in Directories : image[d] # "none" => image'[d] # "none"
<1>1. CASE image' = image
  BY <1>1
<1>2. CASE /\ program # "none"
           /\ image' = [image EXCEPT ![NewPageDirectory(p)] = program]
  BY <1>2
<1>3. program # "none"
  BY DEF ProgramNames
<1> QED
  BY <1>1, <1>2, <1>3
     DEF process_create_user_process, CreateWithoutDirectory, CreateWithoutFrames,
         CreateUnreadable, CreateLoaded, AbandonNewPcb

\* With an even number of frames and enough slots, a creation after the start
\* never takes the early exits that leave new_pcb unassigned.
LEMMA EarlyExitsNotTaken ==
  ASSUME IInv, mode # "boot", FramesPaired
  PROVE  ~CleanupUninitialised(paging)
<1> DEFINE n == paging.free_page_frame_count
<1>1. paging \in PagingState /\ n \in Int /\ active_process_count \in Int
  BY DEF IInv, TypeOK, PagingState
<1>2. /\ n % 2 = (PAGE_FRAME_MAX_COUNT - 1) % 2
      /\ 2 * active_process_count + n <= PAGE_FRAME_MAX_COUNT - 1
  BY DEF IInv, FrameBudget
<1>3. n >= 0
  BY <1>1, FreeFramesFinite DEF IInv, ProcessesIsolated, PagingSound, FreeCountExact
<1>4. /\ PAGE_FRAME_MAX_COUNT % 2 = 0
      /\ PAGE_FRAME_MAX_COUNT <= 2 * PROCESS_COUNT_MAX
      /\ PAGE_FRAME_MAX_COUNT \in Nat /\ PROCESS_COUNT_MAX \in Nat
  BY KernelAssumption, PageTablesAssumption DEF FramesPaired
<1> HIDE DEF n
<1>5. n >= 1 /\ active_process_count < PROCESS_COUNT_MAX
  BY <1>1, <1>2, <1>3, <1>4
<1>6. paging_allocate_check(paging, FramesNeeded)
  BY <1>1, <1>5, FrameAmounts DEF n
<1>7. ~(FramesNeeded > PROCESS_PAGE_FRAME_COUNT_MAX)
  BY FrameAmounts DEF PROCESS_PAGE_FRAME_COUNT_MAX
<1>8. ~(\A i \in Slots : process_used[i])
  <2> SUFFICES ASSUME \A i \in Slots : process_used[i] PROVE FALSE
    OBVIOUS
  <2>1. UsedSlots = Slots
    BY DEF UsedSlots
  <2>2. Cardinality(Slots) = PROCESS_COUNT_MAX
    BY KernelAssumption, FS_Interval DEF Slots
  <2>3. active_process_count = PROCESS_COUNT_MAX
    BY <2>1, <2>2 DEF IInv, TableConsistent
  <2> QED
    BY <1>4, <1>5, <2>3
<1>9. ~(active_process_count >= PROCESS_COUNT_MAX)
  BY <1>1, <1>4, <1>5
<1> QED
  BY <1>6, <1>7, <1>8, <1>9 DEF CleanupUninitialised

-----------------------------------------------------------------------------
(* The invariant *)

LEMMA InitEstablishesIInv == Init => IInv
<1> SUFFICES ASSUME Init PROVE IInv
  OBVIOUS
<1>1. BootPaging \in PagingState /\ PagingSound(BootPaging)
  BY BootPagingSound
<1>2. ZeroPcb \in Pcb /\ ZeroPcb.page_directory = NULL
  BY KernelAssumption DEF ZeroPcb, Pcb, Slots, ProcessStates
<1>3. TypeOK
  <2>1. 0 \in Slots
    BY KernelAssumption DEF Slots
  <2>2. <<>> \in Seq(Slots \cup {NULL}) /\ Len(<<>>) < PROCESS_QUEUE_SIZE
    BY KernelAssumption DEF PROCESS_QUEUE_SIZE
  <2>3. process_list \in [Slots -> Pcb] /\ process_used \in [Slots -> BOOLEAN]
    BY <1>2 DEF Init
  <2>4. image \in [Directories -> Images]
    BY DEF Init, Images
  <2> QED
    BY <1>1, <2>1, <2>2, <2>3, <2>4 DEF Init, TypeOK, AllDirectories, Modes
<1>4. UsedSlots = {}
  BY DEF Init, UsedSlots
<1>5. BootState
  BY DEF Init, BootState
<1>6. ProcessesIsolated
  BY <1>1, <1>4 DEF Init, ProcessesIsolated
<1>7. PcbsLoaded
  BY <1>2 DEF Init, PcbsLoaded, DirectoryOf
<1>8. TableConsistent
  BY <1>4, FS_EmptySet DEF Init, TableConsistent
<1>9. KernelFrameMapped /\ FrameBudget /\ RunsInLoadedDirectory /\ CleanupPointerAssigned
  BY DEF Init, KernelFrameMapped, FrameBudget, RunsInLoadedDirectory, CleanupPointerAssigned
<1> QED
  BY <1>3, <1>5, <1>6, <1>7, <1>8, <1>9 DEF IInv

\* kernel_setup reserves frame 0 and creates the first process.
LEMMA SetupPreserves ==
  ASSUME IInv, NEW program \in {"shell", "missing"}, KernelSetup(program)
  PROVE  IInv' /\ LiveKept(paging)
<1> DEFINE p == paging_allocate_user_page_frame(paging, KernelDirectory, CodePage)
<1>1. /\ mode = "boot" /\ mode' = "running"
      /\ UNCHANGED <<cpu, cr3>>
      /\ process_create_user_process(p, program)
  BY DEF KernelSetup
<1>2. /\ process_list = [i \in Slots |-> ZeroPcb]
      /\ process_used = [i \in Slots |-> FALSE]
      /\ active_process_count = 0
      /\ paging = BootPaging
      /\ cr3 = KernelDirectory
  BY <1>1 DEF IInv, BootState
<1>3. KernelDirectory \in AllDirectories /\ CodePage \in Pages
  BY DEF AllDirectories, Pages
<1>4. paging \in PagingState /\ PagingSound(paging)
  BY DEF IInv, TypeOK, ProcessesIsolated
<1>5. p \in PagingState /\ PagingSound(p)
  BY <1>3, <1>4, Pointers, AllocateSound
<1>6. /\ p.free_page_frame_count = PAGE_FRAME_MAX_COUNT - 1
      /\ p.table[KernelDirectory][CodePage] = UserEntry(0)
  <2>1. FreeFrames(paging) = Frames
    BY <1>2 DEF FreeFrames, BootPaging
  <2>2. Frames \subseteq Nat /\ 0 \in Frames
    BY PageTablesAssumption DEF Frames
  <2>3. Min(Frames) \in Nat /\ Min(Frames) <= 0
    BY <2>2, MinNat
  <2>4. Min(FreeFrames(paging)) = 0 /\ FrameAvailable(paging)
    BY <2>1, <2>2, <2>3 DEF FrameAvailable
  <2>5. /\ p.free_page_frame_count = paging.free_page_frame_count - 1
        /\ p.table = [paging.table EXCEPT ![KernelDirectory][CodePage] = UserEntry(0)]
    BY ZenonT(30), <1>3, <1>4, <2>4, AllocateEffect
  <2>6. paging.free_page_frame_count = PAGE_FRAME_MAX_COUNT
    BY <1>2 DEF BootPaging
  <2> QED
    BY <1>3, <1>4, <2>5, <2>6 DEF PagingState
<1> HIDE DEF p
<1>7. ZeroPcb.page_directory = NULL
  BY DEF ZeroPcb
<1>8. TableFits(process_list, process_used, image, p)
  BY <1>2, <1>7 DEF TableFits
<1>9. \E i \in Slots : ~process_used[i]
  <2>1. 0 \in Slots
    BY KernelAssumption DEF Slots
  <2> QED
    BY <1>2, <2>1
<1>10. /\ ProcessTypes' /\ TableConsistent'
       /\ TableFits(process_list', process_used', image', paging')
       /\ MemoryKept(p, paging')
       /\ 2 * active_process_count' + paging'.free_page_frame_count
            <= 2 * active_process_count + p.free_page_frame_count
  <2>1. program \in ProgramNames /\ TypeOK /\ TableConsistent
    BY DEF ProgramNames, IInv
  <2> QED
    BY <1>1, <1>5, <1>8, <1>9, <2>1, CreatePreserves
<1>11. paging' \in PagingState /\ PagingSound(paging')
  BY <1>10 DEF MemoryKept
<1>12. ProcessesIsolated' /\ PcbsLoaded'
  BY <1>10, <1>11, InvariantTableFits
<1>13. /\ scheduling_queue' \in Seq(Slots \cup {NULL})
       /\ Len(scheduling_queue') < PROCESS_QUEUE_SIZE
  <2> DEFINE new == {i \in Slots : process_list'[i].process_state = "NEW"}
             x == IF new = {} THEN NULL ELSE Min(new)
  <2>1. new # {} => Min(new) \in new
    BY Pointers, MinNat
  <2>2. x \in Slots \cup {NULL}
    BY <2>1
  <2>3. scheduling_queue' = Enqueued(scheduling_queue, <<x>>)
    BY DEF KernelSetup
  <2> HIDE DEF x
  <2>4. scheduling_queue \in Seq(Slots \cup {NULL}) /\ <<x>> \in Seq(Slots \cup {NULL})
    BY <2>2 DEF IInv, TypeOK
  <2> QED
    BY <2>3, <2>4, EnqueuedType
<1>14. TypeOK'
  BY <1>1, <1>10, <1>11, <1>13 DEF TypeOK, ProcessTypes, IInv, Modes
<1>15. KernelFrameMapped'
  BY <1>6, <1>10 DEF KernelFrameMapped, MemoryKept, UserMapped, UserEntry
<1>16. FrameBudget'
  <2>1. paging'.free_page_frame_count
          \in {p.free_page_frame_count, p.free_page_frame_count - 2}
    BY <1>10 DEF MemoryKept
  <2> QED
    BY <1>2, <1>6, <1>10, <2>1, PageTablesAssumption DEF FrameBudget
<1>17. BootState' /\ CleanupPointerAssigned'
  BY <1>1 DEF BootState, CleanupPointerAssigned
<1>18. RunsInLoadedDirectory'
  BY <1>1, <1>2 DEF RunsInLoadedDirectory
<1>19. LiveKept(paging)
  BY <1>2 DEF LiveKept
<1> QED
  BY <1>10, <1>12, <1>14, <1>15, <1>16, <1>17, <1>18, <1>19 DEF IInv

\* System call 18 adds a process, or fails and leaves everybody as they were.
LEMMA ExecPreserves ==
  ASSUME IInv, NEW program \in Programs, SyscallExec(program)
  PROVE  IInv' /\ LiveKept(paging)
<1>1. mode = "running" /\ UNCHANGED <<cpu, cr3>>
  BY DEF SyscallExec, Executing
<1>2. CASE CleanupUninitialised(paging)
  <2>1. /\ mode' = "corrupted"
        /\ UNCHANGED <<processVars, scheduling_queue, paging, image>>
    BY <1>2 DEF SyscallExec
  <2>2. UNCHANGED <<process_list, process_used, active_process_count, latest_pid>>
    BY <2>1 DEF processVars
  <2>3. TypeOK'
    BY <1>1, <2>1, <2>2 DEF IInv, TypeOK, Modes
  <2>4. ProcessesIsolated' /\ PcbsLoaded' /\ TableConsistent'
    BY <2>1, <2>2 DEF IInv, ProcessesIsolated, PcbsLoaded, TableConsistent,
                      UsedSlots, DirectoryOf
  <2>5. KernelFrameMapped' /\ FrameBudget'
    BY <1>1, <2>1, <2>2 DEF IInv, KernelFrameMapped, FrameBudget
  <2>6. BootState' /\ RunsInLoadedDirectory'
    BY <2>1 DEF BootState, RunsInLoadedDirectory
  <2>7. CleanupPointerAssigned'
    BY <1>1, <1>2, EarlyExitsNotTaken DEF CleanupPointerAssigned, FramesPaired
  <2>8. LiveKept(paging)
    BY <2>1, <2>2 DEF LiveKept, DirectoryOf
  <2> QED
    BY <2>3, <2>4, <2>5, <2>6, <2>7, <2>8 DEF IInv
<1>3. CASE ~CleanupUninitialised(paging)
  <2>1. /\ mode' = mode
        /\ process_create_user_process(paging, program)
        /\ \E s \in AscendingOrders({i \in Slots : process_list'[i].pid = latest_pid'}) :
             scheduling_queue' = Enqueued(scheduling_queue, s)
    BY <1>3 DEF SyscallExec
  <2>2. \E i \in Slots : ~process_used[i]
    BY <1>3 DEF CleanupUninitialised
  <2>3. paging \in PagingState /\ PagingSound(paging) /\ TypeOK /\ TableConsistent
    BY DEF IInv, TypeOK, ProcessesIsolated
  <2>4. TableFits(process_list, process_used, image, paging)
    BY TableFitsInvariant DEF IInv
  <2>5. program \in ProgramNames
    BY KernelAssumption
  <2>6. /\ ProcessTypes' /\ TableConsistent'
        /\ TableFits(process_list', process_used', image', paging')
        /\ MemoryKept(paging, paging')
        /\ LiveKept(paging)
        /\ 2 * active_process_count' + paging'.free_page_frame_count
             <= 2 * active_process_count + paging.free_page_frame_count
    BY <2>1, <2>2, <2>3, <2>4, <2>5, CreatePreserves
  <2>7. paging' \in PagingState /\ PagingSound(paging')
    BY <2>6 DEF MemoryKept
  <2>8. ProcessesIsolated' /\ PcbsLoaded'
    BY <2>6, <2>7, InvariantTableFits
  <2>9. /\ scheduling_queue' \in Seq(Slots \cup {NULL})
        /\ Len(scheduling_queue') < PROCESS_QUEUE_SIZE
    <3> DEFINE S == {i \in Slots : process_list'[i].pid = latest_pid'}
    <3>1. PICK s \in AscendingOrders(S) :
                 scheduling_queue' = Enqueued(scheduling_queue, s)
      BY <2>1
    <3>2. s \in Seq(Slots \cup {NULL})
      BY AscendingType
    <3>3. scheduling_queue \in Seq(Slots \cup {NULL})
      BY DEF IInv, TypeOK
    <3> QED
      BY <3>1, <3>2, <3>3, EnqueuedType
  <2>10. TypeOK'
    BY <1>1, <2>1, <2>6, <2>7, <2>9 DEF TypeOK, ProcessTypes, IInv
  <2>11. KernelFrameMapped'
    BY <1>1, <2>6 DEF IInv, KernelFrameMapped, MemoryKept, UserMapped
  <2>12. FrameBudget'
    <3>1. paging'.free_page_frame_count
            \in {paging.free_page_frame_count, paging.free_page_frame_count - 2}
      BY <2>6 DEF MemoryKept
    <3>2. paging.free_page_frame_count \in Int /\ active_process_count \in Int
          /\ active_process_count' \in Int
      BY <2>3, <2>6 DEF PagingState, TypeOK, ProcessTypes
    <3>3. /\ paging.free_page_frame_count % 2 = (PAGE_FRAME_MAX_COUNT - 1) % 2
          /\ 2 * active_process_count + paging.free_page_frame_count
               <= PAGE_FRAME_MAX_COUNT - 1
      BY <1>1 DEF IInv, FrameBudget
    <3> QED
      BY <2>6, <3>1, <3>2, <3>3, PageTablesAssumption DEF FrameBudget
  <2>13. BootState' /\ CleanupPointerAssigned'
    BY <1>1, <2>1 DEF BootState, CleanupPointerAssigned
  <2>14. RunsInLoadedDirectory'
    <3>1. cr3' = cr3 /\ cr3 \in Directories
      BY <1>1 DEF SyscallExec, Executing
    <3>2. paging.page_directory_used[cr3]
      BY <1>1, <3>1, Pointers DEF IInv, RunsInLoadedDirectory
    <3>3. paging'.page_directory_used[cr3]
      BY <2>6, <3>1, <3>2 DEF MemoryKept
    <3>4. image'[cr3] # "none"
      <4>1. image[cr3] # "none" /\ image \in [Directories -> Images]
        BY <1>1, <3>1, Pointers DEF IInv, RunsInLoadedDirectory, TypeOK
      <4> QED
        BY <2>1, <2>5, <3>1, <4>1, ImagesStayLoaded
    <3> QED
      BY <3>1, <3>3, <3>4 DEF RunsInLoadedDirectory
  <2> QED
    BY <2>6, <2>8, <2>10, <2>11, <2>12, <2>13, <2>14 DEF IInv
<1> QED
  BY <1>2, <1>3

\* The parts of the invariant that a step disturbs only through a kill.
LEMMA KillPreserves ==
  ASSUME IInv, NEW pid \in Slots, mode = "running", process_destroy(pid),
         UNCHANGED <<scheduling_queue, paging, machineVars>>,
         image' \in [Directories -> Images],
         \A d \in Directories : image[d] # "none" => image'[d] # "none"
  PROVE  IInv' /\ LiveKept(paging)
<1>1. UNCHANGED <<scheduling_queue, paging, cpu, cr3, mode>>
  BY DEF machineVars
<1>2. /\ process_list' \in [Slots -> Pcb]
      /\ process_used' \in [Slots -> BOOLEAN]
      /\ active_process_count' \in Int
      /\ latest_pid' \in Slots
      /\ TableConsistent'
      /\ TableFits(process_list', process_used', image, paging)
      /\ active_process_count' <= active_process_count
      /\ \A i \in Slots : process_list'[i].page_directory = DirectoryOf(i)
  <2>1. TypeOK /\ TableConsistent /\ TableFits(process_list, process_used, image, paging)
    BY TableFitsInvariant DEF IInv
  <2> QED
    BY <2>1, DestroyPreserves
<1>3. TypeOK'
  BY <1>1, <1>2 DEF IInv, TypeOK
<1>4. TableFits(process_list', process_used', image', paging')
  <2>1. \A i \in Slots : process_list'[i].page_directory \in Directories \cup {NULL}
    BY <1>2 DEF Pcb
  <2> QED
    BY <1>1, <1>2, <2>1 DEF TableFits
<1>5. ProcessesIsolated' /\ PcbsLoaded'
  <2>1. PagingSound(paging')
    BY <1>1 DEF IInv, ProcessesIsolated
  <2> QED
    BY <1>4, <2>1, InvariantTableFits
<1>6. KernelFrameMapped' /\ BootState' /\ CleanupPointerAssigned'
  BY <1>1 DEF IInv, KernelFrameMapped, BootState, CleanupPointerAssigned
<1>7. FrameBudget'
  <2>1. paging.free_page_frame_count \in Int /\ active_process_count \in Int
    BY DEF IInv, TypeOK, PagingState
  <2> QED
    BY <1>1, <1>2, <2>1, PageTablesAssumption DEF IInv, FrameBudget
<1>8. RunsInLoadedDirectory'
  BY <1>1 DEF IInv, RunsInLoadedDirectory
<1>9. LiveKept(paging)
  BY <1>1, <1>2 DEF LiveKept
<1> QED
  BY <1>2, <1>3, <1>5, <1>6, <1>7, <1>8, <1>9 DEF IInv

\* A tick changes states and registers in the table, and what the machine runs.
LEMMA TimerPreserves ==
  ASSUME IInv, Timer
  PROVE  IInv' /\ LiveKept(paging)
<1> DEFINE next == NextPcb
<1>1. /\ mode = "running"
      /\ UNCHANGED <<process_used, active_process_count, latest_pid, paging, image>>
      /\ scheduling_queue' = QueueAfterDispatch
  BY DEF Timer, TimerSwitch, TimerCrash, TimerWild
<1>2. /\ SavedContext \in [Slots -> Pcb]
      /\ \A i \in Slots : /\ SavedContext[i].pid = process_list[i].pid
                          /\ SavedContext[i].page_directory = DirectoryOf(i)
  BY SavedContextType DEF IInv
<1>3. /\ scheduling_queue' \in Seq(Slots \cup {NULL})
      /\ Len(scheduling_queue') < PROCESS_QUEUE_SIZE
      /\ next \in Slots \cup {NULL}
  BY <1>1, DispatchType DEF IInv
<1>4. \/ process_list' = SavedContext
      \/ /\ next \in Slots
         /\ process_list' = [SavedContext EXCEPT ![next].process_state = "RUNNING"]
  BY <1>3 DEF Timer, TimerSwitch, TimerCrash, TimerWild
<1>5. \/ mode' = mode /\ next \in Slots
         /\ SavedContext[next].page_directory # NULL
         /\ cr3' = SavedContext[next].page_directory
         /\ cpu' = SavedContext[next].registers
      \/ mode' = "crashed" /\ cr3' = NULL /\ cpu' = cpu
      \/ mode' = "wild" /\ cr3' = cr3 /\ cpu' = cpu
  BY <1>1, <1>3 DEF Timer, TimerSwitch, TimerCrash, TimerWild
<1> HIDE DEF next
<1>6. /\ process_list' \in [Slots -> Pcb]
      /\ \A i \in Slots : /\ process_list'[i].pid = process_list[i].pid
                          /\ process_list'[i].page_directory = DirectoryOf(i)
  <2>1. CASE process_list' = SavedContext
    BY <1>2, <2>1
  <2>2. CASE /\ next \in Slots
             /\ process_list' = [SavedContext EXCEPT ![next].process_state = "RUNNING"]
    BY <1>2, <2>2 DEF Pcb, ProcessStates
  <2> QED
    BY <1>4, <2>1, <2>2
<1>7. /\ cpu' \in AllDirectories \cup {NULL}
      /\ cr3' \in AllDirectories \cup {NULL}
      /\ mode' \in Modes
  <2>1. \A i \in Slots : /\ SavedContext[i].page_directory \in AllDirectories \cup {NULL}
                         /\ SavedContext[i].registers \in AllDirectories \cup {NULL}
    BY <1>2 DEF Pcb, AllDirectories
  <2> QED
    BY <1>1, <1>5, <2>1 DEF IInv, TypeOK, Modes
<1>8. TypeOK'
  BY <1>1, <1>3, <1>6, <1>7 DEF IInv, TypeOK
<1>9. TableConsistent'
  <2>1. UsedSlots' = UsedSlots
    BY <1>1 DEF UsedSlots
  <2>2. \A i \in UsedSlots : i \in Slots
    BY DEF UsedSlots
  <2> QED
    BY <1>1, <1>6, <2>1, <2>2 DEF IInv, TableConsistent
<1>10. ProcessesIsolated' /\ PcbsLoaded'
  <2>1. TableFits(process_list, process_used, image, paging)
    BY TableFitsInvariant DEF IInv
  <2>2. TableFits(process_list', process_used', image', paging')
    BY <1>1, <1>6, <2>1 DEF TableFits, DirectoryOf
  <2>3. PagingSound(paging')
    BY <1>1 DEF IInv, ProcessesIsolated
  <2> QED
    BY <2>2, <2>3, InvariantTableFits
<1>11. KernelFrameMapped' /\ FrameBudget'
  BY <1>1 DEF IInv, KernelFrameMapped, FrameBudget
<1>12. BootState' /\ CleanupPointerAssigned'
  BY <1>1, <1>5 DEF BootState, CleanupPointerAssigned
<1>13. RunsInLoadedDirectory'
  <2>1. CASE mode' # "running"
    BY <2>1 DEF RunsInLoadedDirectory
  <2>2. CASE mode' = "running"
    <3>1. next \in Slots /\ DirectoryOf(next) # NULL /\ cr3' = DirectoryOf(next)
      BY <1>2, <1>5, <2>2
    <3>2. /\ paging.page_directory_used[DirectoryOf(next)]
          /\ image[DirectoryOf(next)] # "none"
      BY <3>1 DEF IInv, PcbsLoaded
    <3>3. DirectoryOf(next) \in Directories
      BY <3>1 DEF IInv, TypeOK, Pcb, DirectoryOf
    <3> QED
      BY <1>1, <3>1, <3>2, <3>3 DEF RunsInLoadedDirectory
  <2> QED
    BY <2>1, <2>2
<1>14. LiveKept(paging)
  BY <1>1, <1>6 DEF LiveKept
<1> QED
  BY <1>8, <1>9, <1>10, <1>11, <1>12, <1>13, <1>14 DEF IInv

\* Every step of the kernel preserves the invariant and the live processes.
LEMMA NextPreservesIInv ==
  ASSUME IInv, [Next]_vars
  PROVE  IInv' /\ (LiveKept(paging) \/ UNCHANGED vars)
<1>1. ASSUME NEW program \in {"shell", "missing"}, KernelSetup(program)
      PROVE  IInv' /\ LiveKept(paging)
  BY <1>1, SetupPreserves
<1>2. ASSUME NEW program \in Programs, SyscallExec(program)
      PROVE  IInv' /\ LiveKept(paging)
  BY <1>2, ExecPreserves
<1>3. ASSUME NEW pid \in Slots, SyscallKill(pid)
      PROVE  IInv' /\ LiveKept(paging)
  <2>1. /\ mode = "running" /\ process_destroy(pid)
        /\ UNCHANGED <<scheduling_queue, paging, machineVars>>
        /\ image' = image
    BY <1>3 DEF SyscallKill, Executing
  <2>2. image \in [Directories -> Images]
    BY DEF IInv, TypeOK
  <2> QED
    BY <2>1, <2>2, KillPreserves
<1>4. ASSUME ProgramExit
      PROVE  IInv' /\ LiveKept(paging)
  <2>1. /\ mode = "running" /\ cr3 \in Directories /\ process_destroy(0)
        /\ UNCHANGED <<scheduling_queue, paging, machineVars>>
        /\ image' = [image EXCEPT ![cr3] = "halted"]
    BY <1>4 DEF ProgramExit, Executing
  <2>2. image \in [Directories -> Images]
    BY DEF IInv, TypeOK
  <2>3. /\ image' \in [Directories -> Images]
        /\ \A d \in Directories : image[d] # "none" => image'[d] # "none"
    BY <2>1, <2>2 DEF Images
  <2>4. 0 \in Slots
    BY KernelAssumption DEF Slots
  <2> QED
    BY <2>1, <2>3, <2>4, KillPreserves
<1>5. ASSUME Timer
      PROVE  IInv' /\ LiveKept(paging)
  BY <1>5, TimerPreserves
<1>6. CASE UNCHANGED vars
  <2>1. /\ UNCHANGED <<process_list, process_used, active_process_count, latest_pid>>
        /\ UNCHANGED <<scheduling_queue, paging, image, cpu, cr3, mode>>
    BY <1>6 DEF vars, processVars, machineVars
  <2>2. TypeOK' /\ BootState'
    BY <2>1 DEF IInv, TypeOK, BootState
  <2>3. ProcessesIsolated' /\ PcbsLoaded' /\ TableConsistent'
    BY <2>1 DEF IInv, ProcessesIsolated, PcbsLoaded, TableConsistent,
                UsedSlots, DirectoryOf
  <2>4. KernelFrameMapped' /\ FrameBudget' /\ RunsInLoadedDirectory'
        /\ CleanupPointerAssigned'
    BY <2>1 DEF IInv, KernelFrameMapped, FrameBudget, RunsInLoadedDirectory,
                CleanupPointerAssigned
  <2> QED
    BY <1>6, <2>2, <2>3, <2>4 DEF IInv
<1> QED
  BY <1>1, <1>2, <1>3, <1>4, <1>5, <1>6 DEF Next

THEOREM Invariance == Spec => []IInv
<1>1. IInv /\ [Next]_vars => IInv'
  BY NextPreservesIInv
<1> QED
  BY <1>1, InitEstablishesIInv, PTL DEF Spec

-----------------------------------------------------------------------------
(* The theorems *)

\* Every variable keeps its type, and the run queue stays within its ring.
THEOREM TypeCorrectness == Spec => []TypeOK
<1>1. IInv => TypeOK
  BY DEF IInv
<1> QED
  BY <1>1, Invariance, PTL

\* Processes share no memory, whatever was created, killed or failed half-way.
THEOREM Isolation == Spec => []ProcessesIsolated
<1>1. IInv => ProcessesIsolated
  BY DEF IInv
<1> QED
  BY <1>1, Invariance, PTL

\* The counter, the use bits and the pids of the process table agree.
THEOREM TableConsistency == Spec => []TableConsistent
<1>1. IInv => TableConsistent
  BY DEF IInv
<1> QED
  BY <1>1, Invariance, PTL

\* The processor never runs in a page directory that is free or empty.
THEOREM RunsLoaded == Spec => []RunsInLoadedDirectory
<1>1. IInv => RunsInLoadedDirectory
  BY DEF IInv
<1> QED
  BY <1>1, Invariance, PTL

\* With the repository's ratio of frames to slots, a failed creation never
\* clears memory through an unassigned pointer.
THEOREM CleanupSafe == Spec => []CleanupPointerAssigned
<1>1. IInv => CleanupPointerAssigned
  BY DEF IInv
<1> QED
  BY <1>1, Invariance, PTL

\* The kernel's frame is never mapped for a process: the boot directory maps
\* it, and no frame is mapped twice.
THEOREM KernelFrameSafe == Spec => []KernelFrameReserved
<1>1. IInv => KernelFrameReserved
  <2> SUFFICES ASSUME IInv, mode # "boot", NEW d \in Directories, NEW v \in Pages,
                      UserMapped(paging, d, v), paging.table[d][v].frame = 0
               PROVE  FALSE
    BY DEF KernelFrameReserved
  <2>1. <<d, v>> \in UserMappings(paging) /\ FrameOf(paging, <<d, v>>) = 0
    BY DEF UserMappings, FrameOf, AllDirectories
  <2> DEFINE k == <<KernelDirectory, CodePage>>
  <2>2. k \in UserMappings(paging) /\ FrameOf(paging, k) = 0
    BY DEF IInv, KernelFrameMapped, UserMappings, FrameOf, AllDirectories, Pages
  <2>3. FramesIsolated(paging)
    BY DEF IInv, ProcessesIsolated, PagingSound
  <2>4. <<d, v>> = k
    BY <2>1, <2>2, <2>3 DEF FramesIsolated
  <2> QED
    BY <2>4, Pointers
<1> QED
  BY <1>1, Invariance, PTL

\* What other processes do never changes the memory of a live process.
THEOREM LiveMappings == Spec => LiveMappingsStable
<1>1. IInv /\ [Next]_vars =>
        [\A i \in Slots : process_used[i] /\ process_used'[i] =>
           /\ process_list'[i].page_directory = DirectoryOf(i)
           /\ paging'.table[DirectoryOf(i)] = paging.table[DirectoryOf(i)]]_vars
  BY NextPreservesIInv DEF LiveKept
<1> QED
  BY <1>1, Invariance, PTL DEF Spec, LiveMappingsStable
=============================================================================
