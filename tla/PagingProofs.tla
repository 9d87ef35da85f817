---------------------------- MODULE PagingProofs ----------------------------
(***************************************************************************)
(* The memory manager is well typed and sound, and implements the abstract *)
(* ownership of frames, for any number of frames and of page directories.  *)
(* TypeOK /\ Sound is inductive: soundness needs all its four parts, since *)
(* freeing a frame is only safe because nobody else maps it.               *)
(***************************************************************************)
EXTENDS Paging, PageTablesProofs

Inv == TypeOK /\ Sound

\* A directory a caller owns is one of the directories, and a used one.
LEMMA OwnedDirectory ==
  ASSUME NEW d \in OwnedDirectories
  PROVE  /\ d \in AllDirectories
         /\ d \in Directories => paging.page_directory_used[d]
<1>1. KernelDirectory \notin Directories
  BY PageTablesAssumption DEF KernelDirectory, Directories
<1> QED
  BY <1>1 DEF OwnedDirectories, AllDirectories

\* Both pages that callers allocate are pages of the model.
LEMMA UserPageIsPage == UserPages \subseteq Pages
BY DEF UserPages, Pages

LEMMA InitEstablishesInv == Init => Inv
BY BootPagingSound DEF Init, Inv, TypeOK, Sound

\* Every call of paging.c preserves types and soundness.
LEMMA NextPreservesInv == Inv /\ [Next]_vars => Inv'
<1> SUFFICES ASSUME Inv, [Next]_vars
             PROVE  Inv'
  OBVIOUS
<1>0. paging \in PagingState /\ PagingSound(paging)
  BY DEF Inv, TypeOK, Sound
<1> SUFFICES paging' \in PagingState /\ PagingSound(paging')
  BY DEF Inv, TypeOK, Sound
<1>1. ASSUME NEW d \in AllDirectories, NEW v \in UserPages, AllocateUserPageFrame(d, v)
      PROVE  paging' \in PagingState /\ PagingSound(paging')
  <2>1. v \in Pages /\ (d \in Directories => paging.page_directory_used[d])
    BY <1>1, OwnedDirectory, UserPageIsPage DEF AllocateUserPageFrame
  <2>2. paging' = paging_allocate_user_page_frame(paging, d, v)
    BY <1>1 DEF AllocateUserPageFrame
  <2> QED
    BY <1>0, <2>1, <2>2, AllocateSound
<1>2. ASSUME NEW d \in AllDirectories, NEW v \in UserPages, FreeUserPageFrame(d, v)
      PROVE  paging' \in PagingState /\ PagingSound(paging')
  <2>1. paging' = paging_free_user_page_frame(paging, d, v)
    BY <1>2 DEF FreeUserPageFrame
  <2> QED
    BY <1>0, <2>1, UserPageIsPage, FreeSound
<1>3. ASSUME CreateNewPageDirectory
      PROVE  paging' \in PagingState /\ PagingSound(paging')
  BY <1>0, <1>3, CreateDirectorySound DEF CreateNewPageDirectory
<1>4. ASSUME NEW d \in AllDirectories, FreePageDirectory(d)
      PROVE  paging' \in PagingState /\ PagingSound(paging')
  BY <1>0, <1>4, FreeDirectorySound DEF FreePageDirectory
<1>5. CASE UNCHANGED vars
  BY <1>0, <1>5 DEF vars
<1> QED
  BY <1>1, <1>2, <1>3, <1>4, <1>5 DEF Next

THEOREM Invariance == Spec => []Inv
<1> QED
  BY InitEstablishesInv, NextPreservesInv, PTL DEF Spec

\* The four static objects of paging.c always hold well-formed values.
THEOREM TypeCorrectness == Spec => []TypeOK
<1>1. Inv => TypeOK
  BY DEF Inv
<1> QED
  BY <1>1, Invariance, PTL

\* No sequence of calls makes paging.c share a frame between two mappings, or
\* lets the bitmap, the counter and the page tables disagree.
THEOREM Soundness == Spec => []Sound
<1>1. Inv => Sound
  BY DEF Inv
<1> QED
  BY <1>1, Invariance, PTL

-----------------------------------------------------------------------------
(* Refinement of FrameOwnership *)

\* The static data of paging.c: every frame free, nothing held.
LEMMA InitRefines == Init => Ownership!Init
<1> SUFFICES ASSUME Init PROVE Ownership!Init
  OBVIOUS
<1>1. FreeFrames(paging) = Frames
  BY DEF Init, FreeFrames, BootPaging
<1>2. Held = [m \in AllDirectories \X Pages |-> {}]
  BY DEF Init, Held, UserMapped, BootPaging, KernelEntry, EmptyEntry
<1> QED
  BY <1>1, <1>2 DEF Ownership!Init

\* What is held at a place, before and after a step.
LEMMA HeldAt ==
  ASSUME NEW e \in AllDirectories, NEW w \in Pages
  PROVE  /\ Held[<<e, w>>]  = IF UserMapped(paging, e, w)
                              THEN {paging.table[e][w].frame} ELSE {}
         /\ Held'[<<e, w>>] = IF UserMapped(paging', e, w)
                              THEN {paging'.table[e][w].frame} ELSE {}
BY DEF Held, FrameOf

\* A change of what is held at one place, said place by place.
LEMMA HeldPointwise ==
  ASSUME NEW d \in AllDirectories, NEW v \in Pages, NEW S,
         \A e \in AllDirectories, w \in Pages :
           Held'[<<e, w>>] = IF e = d /\ w = v THEN S ELSE Held[<<e, w>>]
  PROVE  Held' = [Held EXCEPT ![<<d, v>>] = S]
<1>1. \A m \in AllDirectories \X Pages :
        Held'[m] = IF m = <<d, v>> THEN S ELSE Held[m]
  OBVIOUS
<1>2. /\ Held  = [m \in AllDirectories \X Pages |-> Held[m]]
      /\ Held' = [m \in AllDirectories \X Pages |-> Held'[m]]
  BY DEF Held
<1> QED
  BY <1>1, <1>2

\* A call that maps f at (d, v) takes f from the free frames.
LEMMA AllocateRefines ==
  ASSUME Inv, NEW d \in AllDirectories, NEW v \in Pages,
         paging' = paging_allocate_user_page_frame(paging, d, v)
  PROVE  [Ownership!Next]_(Ownership!ownershipVars)
<1>0. paging \in PagingState
  BY DEF Inv, TypeOK
<1>1. CASE ~FrameAvailable(paging)
  <2>1. paging' = paging
    BY <1>1, AllocateFails
  <2> QED
    BY <2>1 DEF Ownership!ownershipVars, Held, FreeFrames, UserMapped, FrameOf
<1>2. CASE FrameAvailable(paging)
  <2> DEFINE f == Min(FreeFrames(paging))
  <2>1. f \in Frames /\ ~paging.page_frame_map[f]
    BY <1>0, <1>2, FirstFreeFrame
  <2>2. /\ paging'.page_frame_map = [paging.page_frame_map EXCEPT ![f] = TRUE]
        /\ paging'.table = [paging.table EXCEPT ![d][v] = UserEntry(f)]
    BY <1>0, <1>2, AllocateEffect
  <2> HIDE DEF f
  <2>3. f \in FreeFrames(paging)
    BY <2>1 DEF FreeFrames
  <2>4. FreeFrames(paging)' = FreeFrames(paging) \ {f}
    BY <1>0, <2>1, <2>2 DEF FreeFrames, PagingState
  <2>5. \A e \in AllDirectories, w \in Pages :
          paging'.table[e][w] = IF e = d /\ w = v THEN UserEntry(f)
                                ELSE paging.table[e][w]
    BY <1>0, <2>2 DEF PagingState
  <2>6. Held' = [Held EXCEPT ![<<d, v>>] = {f}]
    <3>1. \A e \in AllDirectories, w \in Pages :
            Held'[<<e, w>>] = IF e = d /\ w = v THEN {f} ELSE Held[<<e, w>>]
      <4> SUFFICES ASSUME NEW e \in AllDirectories, NEW w \in Pages
                   PROVE  Held'[<<e, w>>] = IF e = d /\ w = v THEN {f} ELSE Held[<<e, w>>]
        OBVIOUS
      <4>1. CASE e = d /\ w = v
        <5>1. paging'.table[e][w] = UserEntry(f)
          BY <2>5, <4>1
        <5>2. UserMapped(paging', e, w) /\ paging'.table[e][w].frame = f
          BY <5>1 DEF UserMapped, UserEntry
        <5> QED
          BY <4>1, <5>2, HeldAt
      <4>2. CASE ~(e = d /\ w = v)
        <5>1. paging'.table[e][w] = paging.table[e][w]
          BY <2>5, <4>2
        <5>2. UserMapped(paging', e, w) <=> UserMapped(paging, e, w)
          BY <5>1 DEF UserMapped
        <5>3. Held'[<<e, w>>] = Held[<<e, w>>]
          BY <5>1, <5>2, HeldAt
        <5> QED
          BY <4>2, <5>3
      <4> QED
        BY <4>1, <4>2
    <3> QED
      BY <3>1, HeldPointwise
  <2>7. Ownership!Acquire(<<d, v>>, f)
    BY <2>3, <2>4, <2>6 DEF Ownership!Acquire
  <2> QED
    BY <2>1, <2>7 DEF Ownership!Next
<1> QED
  BY <1>1, <1>2

\* A call that clears (d, v) returns the frame mapped there.
LEMMA FreeRefines ==
  ASSUME Inv, NEW d \in AllDirectories, NEW v \in Pages,
         paging' = paging_free_user_page_frame(paging, d, v)
  PROVE  [Ownership!Next]_(Ownership!ownershipVars)
<1>0. paging \in PagingState
  BY DEF Inv, TypeOK
<1>1. CASE ~UserMapped(paging, d, v)
  <2>1. paging' = paging
    BY <1>1, FreeFails
  <2> QED
    BY <2>1 DEF Ownership!ownershipVars, Held, FreeFrames, UserMapped, FrameOf
<1>2. CASE UserMapped(paging, d, v)
  <2> DEFINE f == paging.table[d][v].frame
  <2>1. f \in Frames
    BY <1>0, MappedFrameType
  <2>2. /\ paging'.page_frame_map = [paging.page_frame_map EXCEPT ![f] = FALSE]
        /\ paging'.table = [paging.table EXCEPT ![d][v] = EmptyEntry]
    BY <1>0, <1>2, FreeEffect
  <2>3. Held[<<d, v>>] = {f}
    BY <1>2 DEF Held, FrameOf
  <2> HIDE DEF f
  <2>4. FreeFrames(paging)' = FreeFrames(paging) \cup {f}
    BY <1>0, <2>1, <2>2 DEF FreeFrames, PagingState
  <2>5. \A e \in AllDirectories, w \in Pages :
          paging'.table[e][w] = IF e = d /\ w = v THEN EmptyEntry
                                ELSE paging.table[e][w]
    BY <1>0, <2>2 DEF PagingState
  <2>6. Held' = [Held EXCEPT ![<<d, v>>] = {}]
    <3>1. \A e \in AllDirectories, w \in Pages :
            Held'[<<e, w>>] = IF e = d /\ w = v THEN {} ELSE Held[<<e, w>>]
      <4> SUFFICES ASSUME NEW e \in AllDirectories, NEW w \in Pages
                   PROVE  Held'[<<e, w>>] = IF e = d /\ w = v THEN {} ELSE Held[<<e, w>>]
        OBVIOUS
      <4>1. CASE e = d /\ w = v
        <5>1. paging'.table[e][w] = EmptyEntry
          BY <2>5, <4>1
        <5>2. ~UserMapped(paging', e, w)
          BY <5>1 DEF UserMapped, EmptyEntry
        <5> QED
          BY <4>1, <5>2, HeldAt
      <4>2. CASE ~(e = d /\ w = v)
        <5>1. paging'.table[e][w] = paging.table[e][w]
          BY <2>5, <4>2
        <5>2. UserMapped(paging', e, w) <=> UserMapped(paging, e, w)
          BY <5>1 DEF UserMapped
        <5>3. Held'[<<e, w>>] = Held[<<e, w>>]
          BY <5>1, <5>2, HeldAt
        <5> QED
          BY <4>2, <5>3
      <4> QED
        BY <4>1, <4>2
    <3> QED
      BY <3>1, HeldPointwise
  <2>7. Ownership!Return(<<d, v>>)
    BY <2>3, <2>4, <2>6 DEF Ownership!Return
  <2> QED
    BY <2>7 DEF Ownership!Next
<1> QED
  BY <1>1, <1>2

\* A new directory maps nothing for a user, and mapped nothing before.
LEMMA CreateRefines ==
  ASSUME Inv, paging' = paging_create_new_page_directory(paging)
  PROVE  UNCHANGED Ownership!ownershipVars
<1>0. paging \in PagingState
  BY DEF Inv, TypeOK
<1>1. CASE NewPageDirectory(paging) = NULL
  <2>1. paging' = paging
    BY <1>1 DEF paging_create_new_page_directory
  <2> QED
    BY <2>1 DEF Ownership!ownershipVars, Held, FreeFrames, UserMapped, FrameOf
<1>2. CASE NewPageDirectory(paging) # NULL
  <2> DEFINE n == NewPageDirectory(paging)
  <2>1. n \in Directories /\ ~paging.page_directory_used[n]
    BY <1>0, <1>2, FirstFreeDirectory
  <2>2. /\ paging'.page_frame_map = paging.page_frame_map
        /\ paging'.table = [paging.table EXCEPT ![n] =
             [v \in Pages |-> IF v = KernelPage THEN KernelEntry ELSE EmptyEntry]]
    BY <1>0, <1>2, CreateDirectoryEffect
  <2> HIDE DEF n
  <2>3. \A v \in Pages : ~UserMapped(paging, n, v)
    BY <2>1 DEF Inv, Sound, PagingSound, UnusedDirectoriesEmpty
  <2>4. \A v \in Pages : ~UserMapped(paging', n, v)
    BY <1>0, <2>1, <2>2
       DEF UserMapped, KernelEntry, EmptyEntry, PagingState, AllDirectories
  <2>5. \A e \in AllDirectories : e # n => paging'.table[e] = paging.table[e]
    BY <1>0, <2>2 DEF PagingState
  <2>6. \A e \in AllDirectories, w \in Pages : Held'[<<e, w>>] = Held[<<e, w>>]
    BY <2>3, <2>4, <2>5 DEF Held, UserMapped, FrameOf
  <2>7. Held' = Held
    <3>1. \A m \in AllDirectories \X Pages : Held'[m] = Held[m]
      BY <2>6
    <3>2. /\ Held  = [m \in AllDirectories \X Pages |-> Held[m]]
          /\ Held' = [m \in AllDirectories \X Pages |-> Held'[m]]
      BY DEF Held
    <3> QED
      BY <3>1, <3>2
  <2>8. FreeFrames(paging)' = FreeFrames(paging)
    BY <2>2 DEF FreeFrames
  <2> QED
    BY <2>7, <2>8 DEF Ownership!ownershipVars
<1> QED
  BY <1>1, <1>2

\* A freed directory abandons what it mapped.
LEMMA FreeDirectoryRefines ==
  ASSUME Inv, NEW d \in AllDirectories,
         paging' = paging_free_page_directory(paging, d)
  PROVE  [Ownership!Next]_(Ownership!ownershipVars)
<1>0. paging \in PagingState
  BY DEF Inv, TypeOK
<1>1. CASE d \notin Directories
  <2>1. paging' = paging
    BY <1>1 DEF paging_free_page_directory
  <2> QED
    BY <2>1 DEF Ownership!ownershipVars, Held, FreeFrames, UserMapped, FrameOf
<1>2. CASE d \in Directories
  <2>1. /\ paging'.page_frame_map = paging.page_frame_map
        /\ paging'.table = [paging.table EXCEPT ![d] = [v \in Pages |-> EmptyEntry]]
    BY <1>0, <1>2 DEF paging_free_page_directory, PagingState
  <2>2. FreeFrames(paging)' = FreeFrames(paging)
    BY <2>1 DEF FreeFrames
  <2>3. \A v \in Pages : ~UserMapped(paging, d, v)'
    BY <1>0, <2>1 DEF UserMapped, EmptyEntry, PagingState
  <2>4. \A e \in AllDirectories : e # d => paging'.table[e] = paging.table[e]
    BY <1>0, <2>1 DEF PagingState
  <2>5. Held' = [m \in AllDirectories \X Pages |->
                   IF m \in {d} \X Pages THEN {} ELSE Held[m]]
    BY <2>3, <2>4 DEF Held, UserMapped, FrameOf
  <2>6. Ownership!Abandon({d} \X Pages)
    BY <2>2, <2>5 DEF Ownership!Abandon
  <2>7. {d} \X Pages \in SUBSET (AllDirectories \X Pages)
    OBVIOUS
  <2> QED
    BY <2>6, <2>7 DEF Ownership!Next
<1> QED
  BY <1>1, <1>2

\* Every step of paging.c is a step of FrameOwnership or changes nothing there.
LEMMA NextRefines ==
  Inv /\ [Next]_vars => [Ownership!Next]_(Ownership!ownershipVars)
<1> SUFFICES ASSUME Inv, [Next]_vars
             PROVE  [Ownership!Next]_(Ownership!ownershipVars)
  OBVIOUS
<1>1. ASSUME NEW d \in AllDirectories, NEW v \in UserPages, AllocateUserPageFrame(d, v)
      PROVE  [Ownership!Next]_(Ownership!ownershipVars)
  BY <1>1, AllocateRefines, UserPageIsPage DEF AllocateUserPageFrame
<1>2. ASSUME NEW d \in AllDirectories, NEW v \in UserPages, FreeUserPageFrame(d, v)
      PROVE  [Ownership!Next]_(Ownership!ownershipVars)
  BY <1>2, FreeRefines, UserPageIsPage DEF FreeUserPageFrame
<1>3. ASSUME CreateNewPageDirectory
      PROVE  [Ownership!Next]_(Ownership!ownershipVars)
  BY <1>3, CreateRefines DEF CreateNewPageDirectory
<1>4. ASSUME NEW d \in AllDirectories, FreePageDirectory(d)
      PROVE  [Ownership!Next]_(Ownership!ownershipVars)
  BY <1>4, FreeDirectoryRefines DEF FreePageDirectory
<1>5. CASE UNCHANGED vars
  BY <1>5 DEF vars, Ownership!ownershipVars, Held, FreeFrames, UserMapped, FrameOf
<1> QED
  BY <1>1, <1>2, <1>3, <1>4, <1>5 DEF Next

\* paging.c implements the abstract ownership of frames: a frame moves from a
\* mapping to another only by way of the free frames.
THEOREM Refinement == Spec => ImplementsOwnership
<1> QED
  BY InitRefines, NextRefines, Invariance, PTL
     DEF Spec, ImplementsOwnership, Ownership!Spec
=============================================================================
