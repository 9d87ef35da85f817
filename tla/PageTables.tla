----------------------------- MODULE PageTables -----------------------------
(***************************************************************************)
(* The data of src/src/paging.c and its procedures as operators.           *)
(*                                                                         *)
(* The memory manager keeps four static objects: the bitmap and the        *)
(* counter of page_manager_state, the bitmap of page_directory_manager and *)
(* the tables of page_directory_list.  They are the four fields of one     *)
(* "paging" record p; a procedure that changes them is an operator that    *)
(* returns the record after the call, and the value it returns to its      *)
(* caller is an operator of its own.  The modules that call paging.c       *)
(* (Paging, Kernel) compose these operators in the order of the calls.     *)
(***************************************************************************)
EXTENDS Integers, FiniteSets, FiniteSetsExt

CONSTANTS
  PAGE_FRAME_MAX_COUNT,             \* 4 MiB frames of physical memory (32)
  PAGING_DIRECTORY_TABLE_MAX_COUNT  \* entries of page_directory_list (32)

ASSUME PageTablesAssumption ==
  /\ PAGE_FRAME_MAX_COUNT \in Nat \ {0}
  /\ PAGING_DIRECTORY_TABLE_MAX_COUNT \in Nat \ {0}

PAGE_FRAME_SIZE == 4 * 1024 * 1024

Frames      == 0 .. PAGE_FRAME_MAX_COUNT - 1
Directories == 0 .. PAGING_DIRECTORY_TABLE_MAX_COUNT - 1

\* A directory pointer is its index in page_directory_list; the boot
\* directory _paging_kernel_page_directory lives outside that list.
KernelDirectory == -1
NULL            == -2
AllDirectories  == Directories \cup {KernelDirectory}

\* The directory entries (virtual address >> 22) that the program ever uses:
\* code at 0x00000000, the stack at 0xBFFFFFFC and the kernel at 0xC0000000.
CodePage   == 0
StackPage  == 767
KernelPage == 768
Pages      == {CodePage, StackPage, KernelPage}

-----------------------------------------------------------------------------

Entry == [present_bit : BOOLEAN, user_bit : BOOLEAN, frame : Frames]

EmptyEntry   == [present_bit |-> FALSE, user_bit |-> FALSE, frame |-> 0]
KernelEntry  == [present_bit |-> TRUE,  user_bit |-> FALSE, frame |-> 0]
UserEntry(f) == [present_bit |-> TRUE,  user_bit |-> TRUE,  frame |-> f]

PagingState ==
  [page_frame_map        : [Frames -> BOOLEAN],
   free_page_frame_count : Int,
   page_directory_used   : [Directories -> BOOLEAN],
   table                 : [AllDirectories -> [Pages -> Entry]]]

\* The initialised static data: every frame is free, no directory is used, the
\* boot directory maps frame 0 at virtual address 0 and in the higher half.
BootPaging ==
  [page_frame_map        |-> [f \in Frames |-> FALSE],
   free_page_frame_count |-> PAGE_FRAME_MAX_COUNT,
   page_directory_used   |-> [d \in Directories |-> FALSE],
   table                 |->
     [d \in AllDirectories |-> [v \in Pages |->
        IF d = KernelDirectory /\ v # StackPage
          THEN KernelEntry ELSE EmptyEntry]]]

-----------------------------------------------------------------------------
(* Frames *)

\* amount is a number of bytes
paging_allocate_check(p, amount) ==
  p.free_page_frame_count >= (amount + PAGE_FRAME_SIZE - 1) \div PAGE_FRAME_SIZE

FreeFrames(p) == {f \in Frames : ~p.page_frame_map[f]}

\* what paging_allocate_user_page_frame returns
FrameAvailable(p) == FreeFrames(p) # {}

update_page_directory_entry(p, d, v, entry) ==
  [p EXCEPT !.table[d][v] = entry]

\* mutant: the bitmap is not updated when a frame is handed out
AllocateUnmarked(p, d, v) ==
  IF FrameAvailable(p)
    THEN update_page_directory_entry(
           [p EXCEPT !.free_page_frame_count = @ - 1],
           d, v, UserEntry(Min(FreeFrames(p))))
    ELSE p

\* mutant: the physical address of the frame is not shifted down to its number
AllocateUnshifted(p, d, v) ==
  IF FrameAvailable(p)
    THEN LET f == Min(FreeFrames(p))
         IN  update_page_directory_entry(
               [p EXCEPT !.page_frame_map[f] = TRUE,
                         !.free_page_frame_count = @ - 1],
               d, v, UserEntry(f * PAGE_FRAME_SIZE))
    ELSE p

\* First fit.  The entry at v is overwritten whatever it mapped before.
paging_allocate_user_page_frame(p, d, v) ==
  IF FrameAvailable(p)
    THEN LET f == Min(FreeFrames(p))
         IN  update_page_directory_entry(
               [p EXCEPT !.page_frame_map[f] = TRUE,
                         !.free_page_frame_count = @ - 1],
               d, v, UserEntry(f))
    ELSE p

\* what paging_free_user_page_frame returns (the third test of the code,
\* frame_index < PAGE_FRAME_MAX_COUNT, is the type of an entry)
UserMapped(p, d, v) == p.table[d][v].present_bit /\ p.table[d][v].user_bit

\* mutant: the frame is released but its mapping stays
FreeStillMapped(p, d, v) ==
  IF UserMapped(p, d, v)
    THEN [p EXCEPT !.page_frame_map[p.table[d][v].frame] = FALSE,
                   !.free_page_frame_count = @ + 1]
    ELSE p

paging_free_user_page_frame(p, d, v) ==
  IF UserMapped(p, d, v)
    THEN update_page_directory_entry(
           [p EXCEPT !.page_frame_map[p.table[d][v].frame] = FALSE,
                     !.free_page_frame_count = @ + 1],
           d, v, EmptyEntry)
    ELSE p

-----------------------------------------------------------------------------
(* Page directories *)

FreeDirectories(p) == {d \in Directories : ~p.page_directory_used[d]}

\* mutant: the pool is not searched
FirstPageDirectory(p) == 0

\* what paging_create_new_page_directory returns: the first unused directory
NewPageDirectory(p) ==
  IF FreeDirectories(p) = {} THEN NULL ELSE Min(FreeDirectories(p))

paging_create_new_page_directory(p) ==
  IF NewPageDirectory(p) = NULL
    THEN p
    ELSE [p EXCEPT
            !.page_directory_used[NewPageDirectory(p)] = TRUE,
            !.table[NewPageDirectory(p)] =
              [v \in Pages |-> IF v = KernelPage THEN KernelEntry ELSE EmptyEntry]]

\* mutant: the directory goes back to the pool with its entries
FreeDirectoryUnwiped(p, d) ==
  IF d \in Directories
    THEN [p EXCEPT !.page_directory_used[d] = FALSE]
    ELSE p

\* The frames the directory still maps stay marked in page_frame_map.
paging_free_page_directory(p, d) ==
  IF d \in Directories
    THEN [p EXCEPT !.page_directory_used[d] = FALSE,
                   !.table[d] = [v \in Pages |-> EmptyEntry]]
    ELSE p

-----------------------------------------------------------------------------
(* What the memory manager promises about its state. *)

\* The user mappings: a directory and a page that maps a frame for ring 3.
UserMappings(p) ==
  {m \in AllDirectories \X Pages : UserMapped(p, m[1], m[2])}

FrameOf(p, m) == p.table[m[1]][m[2]].frame

\* No physical frame backs two user mappings: processes share no memory.
FramesIsolated(p) ==
  \A m, n \in UserMappings(p) : FrameOf(p, m) = FrameOf(p, n) => m = n

\* A mapped frame is marked, so the allocator does not hand it out again.
MappedFramesMarked(p) ==
  \A m \in UserMappings(p) : p.page_frame_map[FrameOf(p, m)]

\* The counter that paging_allocate_check trusts agrees with the bitmap.
FreeCountExact(p) ==
  p.free_page_frame_count = Cardinality(FreeFrames(p))

\* A directory that is not in use maps nothing for a user.
UnusedDirectoriesEmpty(p) ==
  \A d \in Directories, v \in Pages :
    ~p.page_directory_used[d] => ~UserMapped(p, d, v)

PagingSound(p) ==
  /\ FramesIsolated(p)
  /\ MappedFramesMarked(p)
  /\ FreeCountExact(p)
  /\ UnusedDirectoriesEmpty(p)
=============================================================================
