------------------------------- MODULE Kernel -------------------------------
(***************************************************************************)
(* The multitasking core: the process table (src/src/process.c), the       *)
(* scheduler (src/src/scheduler.c), the timer interrupt and the process    *)
(* system calls (src/src/interrupt.c), the start-up code (src/src/kernel.c *)
(* kernel_setup) and the exit stub of user programs (src/src/crt0.s), on   *)
(* top of the memory manager of PageTables.                                *)
(*                                                                         *)
(* Every gate of idt.c is an interrupt gate, so a handler runs with        *)
(* interrupts disabled from its first to its last instruction: a handler   *)
(* is one action, and the timer strikes between any two of them.           *)
(*                                                                         *)
(* A process image is named by its page directory: cpu is the directory of *)
(* the image whose registers the processor holds, cr3 the directory that   *)
(* translates its addresses.  They agree as long as contexts are saved and *)
(* restored properly.                                                      *)
(***************************************************************************)
EXTENDS PageTables, Sequences

CONSTANTS
  PROCESS_COUNT_MAX,   \* entries of _process_list (16)
  Programs             \* the files users name in exec: a subset of ProgramNames

\* "shell" is the only program with the exec and kill commands, "sound" the
\* only one whose main returns, "timer" loops for ever, "missing" is no file.
ProgramNames == {"shell", "sound", "timer", "missing"}

ASSUME KernelAssumption ==
  /\ PROCESS_COUNT_MAX \in Nat \ {0}
  /\ PAGE_FRAME_MAX_COUNT >= 2
  /\ Programs \subseteq ProgramNames

VARIABLES
  process_list,          \* _process_list
  process_used,          \* process_manager_state.process_used
  active_process_count,  \* process_manager_state.active_process_count
  latest_pid,            \* process_manager_state.latest_pid
  scheduling_queue,      \* the queued indices of _process_list, oldest first
  paging,                \* the memory manager, see PageTables
  image,                 \* the program loaded in each page directory's memory
  cpu,                   \* whose register values the processor holds
  cr3,                   \* the active page directory
  mode                   \* how far the machine has got

processVars == <<process_list, process_used, active_process_count, latest_pid>>
machineVars == <<cpu, cr3, mode>>
vars == <<processVars, scheduling_queue, paging, image, machineVars>>

Slots == 0 .. PROCESS_COUNT_MAX - 1

PROCESS_QUEUE_SIZE == PROCESS_COUNT_MAX * 2

PROCESS_PAGE_FRAME_COUNT_MAX == 8

ProcessStates == {"READY", "RUNNING", "TERMINATED", "NEW"}

\* "halted" is a program that returned from main and spins in crt0.s.
Images == {"none", "shell", "sound", "timer", "halted"}

\* "boot":      kernel_setup has not finished
\* "running":   the machine executes the image cpu in the memory of cr3
\* "crashed":   a null page directory was loaded into cr3
\* "wild":      the scheduler followed an uninitialised PCB pointer
\* "corrupted": process creation cleared memory at an uninitialised pointer
Modes == {"boot", "running", "crashed", "wild", "corrupted"}

\* registers abstracts context.cpu, eip and eflags by the image they belong to.
Pcb == [pid            : Slots,
        process_state  : ProcessStates,
        page_directory : Directories \cup {NULL},
        registers      : AllDirectories \cup {NULL}]

\* memset(pcb, 0, sizeof *pcb): pid 0, state READY, null pointers
ZeroPcb == [pid            |-> 0,
            process_state  |-> "READY",
            page_directory |-> NULL,
            registers      |-> NULL]

-----------------------------------------------------------------------------
(* process.c *)

ceil_div(a, b) == (a + b - 1) \div b

\* kernel.c:200 and interrupt.c:224 both ask for a buffer of 0x100000 bytes.
FramesNeeded == ceil_div(1024 * 1024 + PAGE_FRAME_SIZE, PAGE_FRAME_SIZE)

\* process_list_get_inactive_index and process_generate_new_pid: the same search
NewSlot == Min({i \in Slots : ~process_used[i]})

\* The early exits of process_create_user_process that are taken before new_pcb
\* is assigned; exit_cleanup then tests and clears an uninitialised pointer.
\* (request.buf is 0 in both callers, so the entry point test never fails.)
CleanupUninitialised(p) ==
  \/ active_process_count >= PROCESS_COUNT_MAX
  \/ ~paging_allocate_check(p, FramesNeeded)
  \/ FramesNeeded > PROCESS_PAGE_FRAME_COUNT_MAX
  \/ \A i \in Slots : process_used[i]

\* exit_cleanup with an assigned new_pcb
AbandonNewPcb ==
  /\ process_list' = [process_list EXCEPT ![NewSlot] = ZeroPcb]
  /\ UNCHANGED <<process_used, active_process_count, latest_pid, image>>

\* The memory manager after the first, second and third allocation.
WithDirectory(p) == paging_create_new_page_directory(p)
WithCode(p)  ==
  paging_allocate_user_page_frame(WithDirectory(p), NewPageDirectory(p), CodePage)
WithStack(p) ==
  paging_allocate_user_page_frame(WithCode(p), NewPageDirectory(p), StackPage)

\* whether both allocations succeed
BothFramesAvailable(p) ==
  FrameAvailable(WithDirectory(p)) /\ FrameAvailable(WithCode(p))

CreateWithoutDirectory(p) ==
  /\ NewPageDirectory(p) = NULL
  /\ paging' = p
  /\ AbandonNewPcb

\* mutant: the code frame is not returned
CreateLeaksCodeFrame(p) ==
  /\ NewPageDirectory(p) # NULL
  /\ ~BothFramesAvailable(p)
  /\ paging' = WithCode(p)
  /\ AbandonNewPcb

\* The code frame, if there was one, is returned; the directory is not.
CreateWithoutFrames(p) ==
  /\ NewPageDirectory(p) # NULL
  /\ ~BothFramesAvailable(p)
  /\ paging' = paging_free_user_page_frame(WithCode(p), NewPageDirectory(p), CodePage)
  /\ AbandonNewPcb

\* read fails: both frames and the directory stay allocated
CreateUnreadable(p) ==
  /\ NewPageDirectory(p) # NULL
  /\ BothFramesAvailable(p)
  /\ paging' = WithStack(p)
  /\ AbandonNewPcb

\* mutant: the slot is not marked as used
CreateUnmarked(p, program) ==
  LET d == NewPageDirectory(p) IN
  /\ d # NULL
  /\ BothFramesAvailable(p)
  /\ paging' = WithStack(p)
  /\ process_list' = [process_list EXCEPT ![NewSlot] =
                        [pid            |-> NewSlot,
                         process_state  |-> "NEW",
                         page_directory |-> d,
                         registers      |-> d]]
  /\ latest_pid' = NewSlot
  /\ active_process_count' = active_process_count + 1
  /\ image' = [image EXCEPT ![d] = program]
  /\ UNCHANGED process_used

CreateLoaded(p, program) ==
  LET d == NewPageDirectory(p) IN
  /\ d # NULL
  /\ BothFramesAvailable(p)
  /\ paging' = WithStack(p)
  /\ process_list' = [process_list EXCEPT ![NewSlot] =
                        [pid            |-> NewSlot,
                         process_state  |-> "NEW",
                         page_directory |-> d,
                         registers      |-> d]]
  /\ process_used' = [process_used EXCEPT ![NewSlot] = TRUE]
  /\ active_process_count' = active_process_count + 1
  /\ latest_pid' = NewSlot
  /\ image' = [image EXCEPT ![d] = program]

\* The rest of the procedure, for a call that passes the early exits; p is the
\* memory manager's state at the call.
process_create_user_process(p, program) ==
  \/ CreateWithoutDirectory(p)
  \/ CreateWithoutFrames(p)
  \/ program = "missing" /\ CreateUnreadable(p)
  \/ program # "missing" /\ CreateLoaded(p, program)

ProcessesWithPid(pid) ==
  {i \in Slots : process_used[i] /\ process_list[i].pid = pid}

\* mutant: a repeated kill counts again
DestroyCountsTwice(pid) ==
  LET found == {i \in Slots : process_list[i].pid = pid} IN
  IF found = {}
    THEN UNCHANGED processVars
    ELSE /\ process_list' = [process_list EXCEPT ![Min(found)].process_state = "TERMINATED"]
         /\ process_used' = [process_used EXCEPT ![Min(found)] = FALSE]
         /\ active_process_count' = active_process_count - 1
         /\ UNCHANGED latest_pid

\* The frames, the directory and the queue entries of the process all stay.
process_destroy(pid) ==
  LET found == ProcessesWithPid(pid) IN
  IF found = {}
    THEN UNCHANGED processVars
    ELSE /\ process_list' = [process_list EXCEPT ![Min(found)].process_state = "TERMINATED"]
         /\ process_used' = [process_used EXCEPT ![Min(found)] = FALSE]
         /\ active_process_count' = active_process_count - 1
         /\ UNCHANGED latest_pid

-----------------------------------------------------------------------------
(* scheduler.c *)

\* mutant: the full test is forgotten
EnqueuedUnbounded(q, s) == q \o s

\* mutant: new items go to the wrong end
EnqueuedInFront(q, s) ==
  SubSeq(s \o q, 1, Min({PROCESS_QUEUE_SIZE - 1, Len(q) + Len(s)}))

\* pcb_enqueue of each item of s in turn; what does not fit is dropped.
\* Module PcbQueue shows that the ring buffer behaves like this sequence.
Enqueued(q, s) ==
  SubSeq(q \o s, 1, Min({PROCESS_QUEUE_SIZE - 1, Len(q) + Len(s)}))

\* mutant: the last one
LastRunningPcb ==
  LET found == {i \in Slots : /\ process_used[i]
                              /\ process_list[i].process_state \in {"RUNNING", "NEW"}}
  IN  IF found = {} THEN NULL ELSE Max(found)

\* the first used slot in state RUNNING or NEW
process_get_current_running_pcb_pointer ==
  LET found == {i \in Slots : /\ process_used[i]
                              /\ process_list[i].process_state \in {"RUNNING", "NEW"}}
  IN  IF found = {} THEN NULL ELSE Min(found)

Current == process_get_current_running_pcb_pointer

\* The PCB at i after scheduler_save_context_to_current_running_pcb: the context
\* of a NEW process is kept as it is.
SavedPcb(i) ==
  [process_list[i] EXCEPT
     !.process_state = "READY",
     !.registers = IF process_list[i].process_state = "NEW"
                     THEN process_list[i].registers ELSE cpu]

\* _process_list after the timer interrupt has saved the interrupted registers
SavedContext ==
  IF Current = NULL THEN process_list
                    ELSE [process_list EXCEPT ![Current] = SavedPcb(Current)]

\* mutant: a NEW process is not queued again at its first tick
SavedQueueOnce ==
  IF Current = NULL \/ process_list[Current].process_state = "NEW"
    THEN scheduling_queue
    ELSE Enqueued(scheduling_queue, <<Current>>)

SavedQueue ==
  IF Current = NULL THEN scheduling_queue
                    ELSE Enqueued(scheduling_queue, <<Current>>)

\* The slot that scheduler_switch_to_next_process picks; NULL stands for a
\* pointer that was never assigned.
NextPcb ==
  LET latest == {i \in Slots : SavedContext[i].pid = latest_pid}
  IN  IF SavedQueue # <<>> THEN Head(SavedQueue)
      ELSE IF latest # {} THEN Min(latest)
      ELSE NULL

QueueAfterDispatch == IF SavedQueue = <<>> THEN <<>> ELSE Tail(SavedQueue)

-----------------------------------------------------------------------------
(* interrupt.c, kernel.c, crt0.s: what happens at the machine *)

Init ==
  /\ process_list = [i \in Slots |-> ZeroPcb]
  /\ process_used = [i \in Slots |-> FALSE]
  /\ active_process_count = 0
  /\ latest_pid = 0
  /\ scheduling_queue = <<>>
  /\ paging = BootPaging
  /\ image = [d \in Directories |-> "none"]
  /\ cpu = KernelDirectory
  /\ cr3 = KernelDirectory
  /\ mode = "boot"

\* kernel_setup: reserve the kernel's frame, create the shell, scheduler_init.
\* The result of the creation is ignored: without a shell, the queue gets a
\* pointer that was never assigned.
KernelSetup(program) ==
  /\ mode = "boot"
  /\ process_create_user_process(
       paging_allocate_user_page_frame(paging, KernelDirectory, CodePage), program)
  /\ LET new == {i \in Slots : process_list'[i].process_state = "NEW"}
     IN  scheduling_queue' =
           Enqueued(scheduling_queue, <<IF new = {} THEN NULL ELSE Min(new)>>)
  /\ mode' = "running"
  /\ UNCHANGED <<cpu, cr3>>

\* The processor executes `program` with that program's own registers.
Executing(program) ==
  /\ mode = "running"
  /\ cr3 \in Directories
  /\ cpu = cr3
  /\ image[cr3] = program

AscendingOrders(S) ==
  {s \in [1 .. Cardinality(S) -> S] :
     \A j, k \in 1 .. Cardinality(S) : j < k => s[j] < s[k]}

\* System call 18: create, then queue every slot that carries the latest pid,
\* whether the creation succeeded or not.
SyscallExec(program) ==
  /\ Executing("shell")
  /\ UNCHANGED <<cpu, cr3>>
  /\ IF CleanupUninitialised(paging)
       THEN /\ mode' = "corrupted"
            /\ UNCHANGED <<processVars, scheduling_queue, paging, image>>
       ELSE /\ process_create_user_process(paging, program)
            /\ \E s \in AscendingOrders({i \in Slots : process_list'[i].pid = latest_pid'}) :
                 scheduling_queue' = Enqueued(scheduling_queue, s)
            /\ UNCHANGED mode

\* mutant: the directory is released while the queue still refers to the PCB
KillReleases(pid) ==
  /\ Executing("shell")
  /\ process_destroy(pid)
  /\ paging' = IF ProcessesWithPid(pid) = {} THEN paging
               ELSE paging_free_page_directory(
                      paging, process_list[Min(ProcessesWithPid(pid))].page_directory)
  /\ UNCHANGED <<scheduling_queue, image, machineVars>>

\* System call 19
SyscallKill(pid) ==
  /\ Executing("shell")
  /\ process_destroy(pid)
  /\ UNCHANGED <<scheduling_queue, paging, image, machineVars>>

\* crt0.s: the return value of main, 0, is passed to system call 19 as a pid.
ProgramExit ==
  /\ Executing("sound")
  /\ process_destroy(0)
  /\ image' = [image EXCEPT ![cr3] = "halted"]
  /\ UNCHANGED <<scheduling_queue, paging, machineVars>>

\* The timer interrupt: save, pick, switch.
TimerSwitch ==
  /\ mode = "running"
  /\ NextPcb # NULL
  /\ SavedContext[NextPcb].page_directory # NULL
  /\ process_list' = [SavedContext EXCEPT ![NextPcb].process_state = "RUNNING"]
  /\ scheduling_queue' = QueueAfterDispatch
  /\ cr3' = SavedContext[NextPcb].page_directory
  /\ cpu' = SavedContext[NextPcb].registers
  /\ UNCHANGED <<process_used, active_process_count, latest_pid, paging, image, mode>>

\* The chosen PCB was cleared: its page directory pointer is null.
TimerCrash ==
  /\ mode = "running"
  /\ NextPcb # NULL
  /\ SavedContext[NextPcb].page_directory = NULL
  /\ process_list' = [SavedContext EXCEPT ![NextPcb].process_state = "RUNNING"]
  /\ scheduling_queue' = QueueAfterDispatch
  /\ cr3' = NULL
  /\ mode' = "crashed"
  /\ UNCHANGED <<process_used, active_process_count, latest_pid, paging, image, cpu>>

\* No PCB was chosen at all.
TimerWild ==
  /\ mode = "running"
  /\ NextPcb = NULL
  /\ process_list' = SavedContext
  /\ scheduling_queue' = QueueAfterDispatch
  /\ mode' = "wild"
  /\ UNCHANGED <<process_used, active_process_count, latest_pid, paging, image, cpu, cr3>>

Timer == TimerSwitch \/ TimerCrash \/ TimerWild

Next ==
  \/ \E program \in {"shell", "missing"} : KernelSetup(program)
  \/ \E program \in Programs : SyscallExec(program)
  \/ \E pid \in Slots : SyscallKill(pid)
  \/ ProgramExit
  \/ Timer

Spec == Init /\ [][Next]_vars

\* The programmable interval timer strikes for ever, and a user process runs
\* with interrupts enabled (process.c:163, idt.c).
FairSpec == Spec /\ WF_vars(Timer)

\* A session that kills nothing, runs no program that returns, and executes
\* existing programs while memory lasts: every exec succeeds.
SuccessfulExec(program) ==
  /\ SyscallExec(program)
  /\ active_process_count' = active_process_count + 1

CarefulNext ==
  \/ KernelSetup("shell")
  \/ \E program \in Programs \ {"sound", "missing"} : SuccessfulExec(program)
  \/ Timer

CarefulSpec == Init /\ [][CarefulNext]_vars /\ WF_vars(Timer)

-----------------------------------------------------------------------------
(* Properties of every behaviour *)

\* Every variable keeps its type; the queue holds at most one item fewer than
\* the ring of scheduler.h has slots.
TypeOK ==
  /\ process_list \in [Slots -> Pcb]
  /\ process_used \in [Slots -> BOOLEAN]
  /\ active_process_count \in Int
  /\ latest_pid \in Slots
  /\ scheduling_queue \in Seq(Slots \cup {NULL})
  /\ Len(scheduling_queue) < PROCESS_QUEUE_SIZE
  /\ paging \in PagingState
  /\ image \in [Directories -> Images]
  /\ cpu \in AllDirectories \cup {NULL}
  /\ cr3 \in AllDirectories \cup {NULL}
  /\ mode \in Modes

UsedSlots == {i \in Slots : process_used[i]}

DirectoryOf(i) == process_list[i].page_directory

\* Processes share no memory: each has a directory of its own, with its code
\* and its stack mapped, and the memory manager is sound whatever was killed,
\* failed half-way or leaked (process.c: create and destroy, on paging.c).
ProcessesIsolated ==
  /\ PagingSound(paging)
  /\ \A i \in UsedSlots :
       /\ DirectoryOf(i) \in Directories
       /\ paging.page_directory_used[DirectoryOf(i)]
       /\ \A v \in {CodePage, StackPage} : UserMapped(paging, DirectoryOf(i), v)
  /\ \A i, j \in UsedSlots : DirectoryOf(i) = DirectoryOf(j) => i = j

\* Frame 0 holds the kernel: once kernel_setup has reserved it, no process
\* directory ever maps it for ring 3 (kernel.c:178, first fit of paging.c:74).
KernelFrameReserved ==
  mode # "boot" =>
    \A d \in Directories, v \in Pages :
      UserMapped(paging, d, v) => paging.table[d][v].frame # 0

\* The table's redundant fields agree: the counter with the bitmap, and the pid
\* of a used slot with its index (process.c: two searches, one counter).
TableConsistent ==
  /\ active_process_count = Cardinality(UsedSlots)
  /\ \A i \in UsedSlots : process_list[i].pid = i

\* The configuration of the repository: 32 frames, 16 slots.
FramesPaired ==
  /\ PAGE_FRAME_MAX_COUNT % 2 = 0
  /\ PAGE_FRAME_MAX_COUNT <= 2 * PROCESS_COUNT_MAX

\* exit_cleanup never clears memory through the unassigned new_pcb: frames are
\* taken in pairs after the kernel's one, so with an even number of frames one
\* always stays free, the test of process.c:67 passes, and memory runs out
\* before the process table does.
CleanupPointerAssigned == FramesPaired => mode # "corrupted"

\* Whatever was killed, the processor only runs in a page directory that is
\* still allocated and has a program loaded (scheduler.c:83).
RunsInLoadedDirectory ==
  mode = "running" =>
    \/ cr3 = KernelDirectory
    \/ cr3 \in Directories /\ paging.page_directory_used[cr3] /\ image[cr3] # "none"

\* Nothing another process does changes the memory of a live process: as long
\* as its slot stays used, its directory and the frames it maps stay the same.
LiveMappingsStable ==
  [][\A i \in Slots :
       process_used[i] /\ process_used'[i] =>
         /\ process_list'[i].page_directory = DirectoryOf(i)
         /\ paging'.table[DirectoryOf(i)] = paging.table[DirectoryOf(i)]]_vars

-----------------------------------------------------------------------------
(* Properties of a careful session *)

\* The PCB that the timer handler saves into is the one of the process that it
\* interrupted, although the search also takes NEW slots, and the processor
\* holds that process's registers (process.h:112, scheduler.h:52).
CurrentIsExecuting ==
  mode = "running" /\ cr3 # KernelDirectory =>
    /\ Current # NULL
    /\ DirectoryOf(Current) = cr3
    /\ cpu = cr3

TimesQueued(i) ==
  Cardinality({k \in 1 .. Len(scheduling_queue) : scheduling_queue[k] = i})

\* Every process that waits is queued exactly once, and the first process once
\* more, for ever: scheduler_init and the first tick both enqueue it.
QueueAccounting ==
  mode = "running" =>
    \A i \in UsedSlots :
      TimesQueued(i) = (IF i = 0 /\ cr3 # KernelDirectory THEN 1 ELSE 0)
                       + (IF DirectoryOf(i) = cr3 THEN 0 ELSE 1)

\* The kernel implements multitasking: creation adds a process without
\* disturbing the one that runs, a tick passes the processor to a live one.
Tasks == INSTANCE Multitasking WITH
  Processes <- Directories,
  Idle      <- KernelDirectory,
  live      <- {DirectoryOf(i) : i \in UsedSlots},
  running   <- cr3

ImplementsMultitasking == Tasks!Spec

\* Under a fair timer every process that was ever started runs again and again.
EveryProcessRuns == Tasks!EveryProcessRuns

-----------------------------------------------------------------------------
(* What the repository says of the scheduler, and kills refute *)

\* "Get currently running process PCB pointer" (process.h:112), for a process
\* that is in the table.
CurrentIsTheRunningProcess ==
  mode = "running" =>
    \A i \in UsedSlots : DirectoryOf(i) = cr3 => Current = i
=============================================================================
