------------------------------- MODULE Paging -------------------------------
(***************************************************************************)
(* src/src/paging.c under callers that use its four procedures in any      *)
(* order: the frame allocator and the page directory pool.  A call that    *)
(* fails changes nothing, so it is a stuttering step.                      *)
(*                                                                         *)
(* Callers are assumed to pass a directory they own: one returned by       *)
(* paging_create_new_page_directory and not freed since, or the boot       *)
(* directory (process.c and kernel.c do).                                  *)
(***************************************************************************)
EXTENDS PageTables

VARIABLE paging     \* page_manager_state, page_directory_manager and tables

vars == <<paging>>

UserPages == {CodePage, StackPage}

OwnedDirectories ==
  {d \in Directories : paging.page_directory_used[d]} \cup {KernelDirectory}

Init == paging = BootPaging

AllocateUserPageFrame(d, v) ==
  /\ d \in OwnedDirectories
  /\ paging' = paging_allocate_user_page_frame(paging, d, v)

FreeUserPageFrame(d, v) ==
  /\ d \in OwnedDirectories
  /\ paging' = paging_free_user_page_frame(paging, d, v)

CreateNewPageDirectory ==
  paging' = paging_create_new_page_directory(paging)

FreePageDirectory(d) ==
  /\ d \in OwnedDirectories
  /\ paging' = paging_free_page_directory(paging, d)

Next ==
  \/ \E d \in AllDirectories, v \in UserPages : AllocateUserPageFrame(d, v)
  \/ \E d \in AllDirectories, v \in UserPages : FreeUserPageFrame(d, v)
  \/ CreateNewPageDirectory
  \/ \E d \in AllDirectories : FreePageDirectory(d)

Spec == Init /\ [][Next]_vars

-----------------------------------------------------------------------------

\* The memory manager's state is well formed (paging.c: the four static objects).
TypeOK == paging \in PagingState

\* Whatever the order of calls, paging.c never maps one frame twice for ring 3,
\* never leaves a mapped frame unmarked, and never lets the free counter of
\* paging_allocate_check drift from page_frame_map.
Sound == PagingSound(paging)

\* The frame that each entry of each directory maps for a user.
Held ==
  [m \in AllDirectories \X Pages |->
     IF UserMapped(paging, m[1], m[2]) THEN {FrameOf(paging, m)} ELSE {}]

\* paging.c implements the abstract ownership of frames: first fit, the bitmap
\* and the tables never move a frame from a mapping to another in one call.
Ownership == INSTANCE FrameOwnership WITH
  Owners <- AllDirectories \X Pages,
  free   <- FreeFrames(paging),
  held   <- Held

ImplementsOwnership == Ownership!Spec
=============================================================================
