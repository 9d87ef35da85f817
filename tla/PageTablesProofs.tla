-------------------------- MODULE PageTablesProofs --------------------------
(***************************************************************************)
(* What each procedure of PageTables returns and preserves, for any number *)
(* of frames and directories: lemmas for the proofs of Paging and Kernel.  *)
(***************************************************************************)
EXTENDS PageTables, FiniteSetTheorems, NaturalsInduction, WellFoundedInduction, TLAPS

\* A set of naturals has a least element, and Min names it: the first-fit
\* searches of paging.c and process.c find what they look for.
LEMMA MinNat ==
  ASSUME NEW S, S \subseteq Nat, S # {}
  PROVE  Min(S) \in S /\ \A y \in S : Min(S) <= y
<1> DEFINE R == {ss \in Nat \X Nat : ss[1] < ss[2]}
<1>1. PICK x \in S : \A y \in S : ~(<<y, x>> \in R)
  <2>1. IsWellFoundedOn(R, Nat)
    BY NatLessThanWellFounded DEF OpToRel
  <2> HIDE DEF R
  <2> QED
    BY <2>1, WFMin
<1>2. \A y \in S : x <= y
  <2> SUFFICES ASSUME NEW y \in S PROVE x <= y
    OBVIOUS
  <2>1. ~(y < x)
    BY <1>1
  <2> QED
    BY <2>1
<1> QED
  BY <1>1, <1>2 DEF Min

\* The free frames are finitely many frames.
LEMMA FreeFramesFinite ==
  ASSUME NEW p \in PagingState
  PROVE  /\ FreeFrames(p) \subseteq Frames
         /\ IsFiniteSet(FreeFrames(p))
         /\ Cardinality(FreeFrames(p)) \in Nat
<1>1. IsFiniteSet(Frames)
  BY PageTablesAssumption, FS_Interval DEF Frames
<1>2. FreeFrames(p) \subseteq Frames
  BY DEF FreeFrames
<1> QED
  BY <1>1, <1>2, FS_Subset, FS_CardinalityType

\* First fit finds a frame that is free.
LEMMA FirstFreeFrame ==
  ASSUME NEW p \in PagingState, FrameAvailable(p)
  PROVE  /\ Min(FreeFrames(p)) \in Frames
         /\ ~p.page_frame_map[Min(FreeFrames(p))]
<1>1. FreeFrames(p) \subseteq Nat
  BY PageTablesAssumption DEF FreeFrames, Frames
<1>2. Min(FreeFrames(p)) \in FreeFrames(p)
  BY <1>1, MinNat DEF FrameAvailable
<1> QED
  BY <1>2 DEF FreeFrames

\* First fit finds a directory that is not used.
LEMMA FirstFreeDirectory ==
  ASSUME NEW p \in PagingState, NewPageDirectory(p) # NULL
  PROVE  /\ NewPageDirectory(p) \in Directories
         /\ ~p.page_directory_used[NewPageDirectory(p)]
<1>1. FreeDirectories(p) # {}
  BY DEF NewPageDirectory
<1>2. FreeDirectories(p) \subseteq Nat
  BY PageTablesAssumption DEF FreeDirectories, Directories
<1>3. Min(FreeDirectories(p)) \in FreeDirectories(p)
  BY <1>1, <1>2, MinNat
<1> QED
  BY <1>1, <1>3 DEF NewPageDirectory, FreeDirectories

-----------------------------------------------------------------------------
(* Types *)

\* The entries that the procedures write are entries.
LEMMA EntryTypes ==
  /\ EmptyEntry \in Entry
  /\ KernelEntry \in Entry
  /\ \A f \in Frames : UserEntry(f) \in Entry
<1>1. 0 \in Frames
  BY PageTablesAssumption DEF Frames
<1> QED
  BY <1>1 DEF EmptyEntry, KernelEntry, UserEntry, Entry

\* The static data of paging.c is well formed and sound.
LEMMA BootPagingSound == BootPaging \in PagingState /\ PagingSound(BootPaging)
<1>1. BootPaging \in PagingState
  BY EntryTypes, PageTablesAssumption DEF BootPaging, PagingState
<1>2. UserMappings(BootPaging) = {}
  BY DEF UserMappings, UserMapped, BootPaging, KernelEntry, EmptyEntry
<1>3. FreeFrames(BootPaging) = Frames
  BY DEF FreeFrames, BootPaging
<1>4. Cardinality(Frames) = PAGE_FRAME_MAX_COUNT
  BY PageTablesAssumption, FS_Interval DEF Frames
<1>5. FramesIsolated(BootPaging) /\ MappedFramesMarked(BootPaging)
  BY <1>2 DEF FramesIsolated, MappedFramesMarked
<1>6. FreeCountExact(BootPaging)
  <2>1. BootPaging.free_page_frame_count = PAGE_FRAME_MAX_COUNT
    BY DEF BootPaging
  <2> QED
    BY <1>3, <1>4, <2>1 DEF FreeCountExact
<1>7. UnusedDirectoriesEmpty(BootPaging)
  <2> SUFFICES ASSUME NEW d \in Directories, NEW v \in Pages, UserMapped(BootPaging, d, v)
               PROVE  FALSE
    BY DEF UnusedDirectoriesEmpty
  <2>1. <<d, v>> \in UserMappings(BootPaging)
    BY DEF UserMappings, AllDirectories
  <2> QED
    BY <1>2, <2>1
<1> QED
  BY <1>1, <1>5, <1>6, <1>7 DEF PagingSound

\* A user mapping is a well-typed place that maps a frame.
LEMMA MappedFrameType ==
  ASSUME NEW p \in PagingState, NEW d \in AllDirectories, NEW v \in Pages
  PROVE  /\ p.table[d][v] \in Entry
         /\ p.table[d][v].frame \in Frames
         /\ UserMapped(p, d, v) \in BOOLEAN
BY DEF PagingState, Entry, UserMapped

-----------------------------------------------------------------------------
(* paging_allocate_user_page_frame *)

\* A successful allocation takes one free frame and maps it at v.
LEMMA AllocateEffect ==
  ASSUME NEW p \in PagingState, NEW d \in AllDirectories, NEW v \in Pages,
         FrameAvailable(p)
  PROVE  LET f == Min(FreeFrames(p))
             q == paging_allocate_user_page_frame(p, d, v)
         IN  /\ q \in PagingState
             /\ q.page_frame_map = [p.page_frame_map EXCEPT ![f] = TRUE]
             /\ q.free_page_frame_count = p.free_page_frame_count - 1
             /\ q.page_directory_used = p.page_directory_used
             /\ q.table = [p.table EXCEPT ![d][v] = UserEntry(f)]
<1> DEFINE f == Min(FreeFrames(p))
           q == paging_allocate_user_page_frame(p, d, v)
<1>1. f \in Frames
  BY FirstFreeFrame
<1>2. UserEntry(f) \in Entry
  BY <1>1, EntryTypes
<1>3. q = [p EXCEPT !.page_frame_map[f] = TRUE,
                    !.free_page_frame_count = @ - 1,
                    !.table[d][v] = UserEntry(f)]
  BY DEF paging_allocate_user_page_frame, update_page_directory_entry, PagingState
<1> HIDE DEF f, q
<1>4. /\ q.page_frame_map = [p.page_frame_map EXCEPT ![f] = TRUE]
      /\ q.free_page_frame_count = p.free_page_frame_count - 1
      /\ q.page_directory_used = p.page_directory_used
      /\ q.table = [p.table EXCEPT ![d][v] = UserEntry(f)]
  BY <1>3 DEF PagingState
<1>5. q \in PagingState
  <2>1. [p.page_frame_map EXCEPT ![f] = TRUE] \in [Frames -> BOOLEAN]
    BY DEF PagingState
  <2>2. [p.table EXCEPT ![d][v] = UserEntry(f)] \in [AllDirectories -> [Pages -> Entry]]
    BY <1>2 DEF PagingState
  <2>3. p.free_page_frame_count - 1 \in Int
    BY DEF PagingState
  <2> QED
    BY <1>3, <2>1, <2>2, <2>3 DEF PagingState
<1> QED
  BY <1>4, <1>5 DEF f, q

\* A failed allocation changes nothing.
LEMMA AllocateFails ==
  ASSUME NEW p, NEW d, NEW v, ~FrameAvailable(p)
  PROVE  paging_allocate_user_page_frame(p, d, v) = p
BY DEF paging_allocate_user_page_frame

\* An allocation touches the entries of one directory only.
LEMMA AllocateKeeps ==
  ASSUME NEW p \in PagingState, NEW d \in AllDirectories, NEW v \in Pages
  PROVE  LET q == paging_allocate_user_page_frame(p, d, v) IN
         /\ q.page_directory_used = p.page_directory_used
         /\ \A e \in AllDirectories \ {d} : q.table[e] = p.table[e]
<1>1. CASE ~FrameAvailable(p)
  BY <1>1, AllocateFails
<1>2. CASE FrameAvailable(p)
  <2> DEFINE q == paging_allocate_user_page_frame(p, d, v)
  <2>1. /\ q.page_directory_used = p.page_directory_used
        /\ q.table = [p.table EXCEPT ![d][v] = UserEntry(Min(FreeFrames(p)))]
    BY ZenonT(30), <1>2, AllocateEffect
  <2> HIDE DEF q
  <2>2. \A e \in AllDirectories \ {d} : q.table[e] = p.table[e]
    BY <2>1 DEF PagingState
  <2> QED
    BY <2>1, <2>2 DEF q
<1> QED
  BY <1>1, <1>2

\* An allocation into a directory in use keeps the memory manager sound.
LEMMA AllocateSound ==
  ASSUME NEW p \in PagingState, NEW d \in AllDirectories, NEW v \in Pages,
         PagingSound(p),
         d \in Directories => p.page_directory_used[d]
  PROVE  /\ paging_allocate_user_page_frame(p, d, v) \in PagingState
         /\ PagingSound(paging_allocate_user_page_frame(p, d, v))
<1>1. CASE ~FrameAvailable(p)
  BY <1>1, AllocateFails
<1>2. CASE FrameAvailable(p)
  <2> DEFINE f == Min(FreeFrames(p))
             q == paging_allocate_user_page_frame(p, d, v)
  <2>1. f \in Frames /\ ~p.page_frame_map[f]
    BY <1>2, FirstFreeFrame
  <2>2. /\ q \in PagingState
        /\ q.page_frame_map = [p.page_frame_map EXCEPT ![f] = TRUE]
        /\ q.free_page_frame_count = p.free_page_frame_count - 1
        /\ q.page_directory_used = p.page_directory_used
        /\ q.table = [p.table EXCEPT ![d][v] = UserEntry(f)]
    BY <1>2, AllocateEffect
  <2> HIDE DEF f, q
  <2>3. \A g \in Frames : p.page_frame_map[g] \in BOOLEAN
    BY DEF PagingState
  <2>4. \A e \in AllDirectories, w \in Pages :
          q.table[e][w] = IF e = d /\ w = v THEN UserEntry(f) ELSE p.table[e][w]
    BY <2>2 DEF PagingState
  <2>5. \A m \in UserMappings(q) :
          \/ m = <<d, v>> /\ FrameOf(q, m) = f
          \/ m \in UserMappings(p) /\ m # <<d, v>> /\ FrameOf(q, m) = FrameOf(p, m)
    BY <2>4 DEF UserMappings, UserMapped, FrameOf, UserEntry
  <2>6. \A m \in UserMappings(p) : FrameOf(p, m) # f
    BY <2>1 DEF PagingSound, MappedFramesMarked
  <2>7. FramesIsolated(q)
    BY <2>5, <2>6 DEF PagingSound, FramesIsolated
  <2>8. MappedFramesMarked(q)
    <3> SUFFICES ASSUME NEW m \in UserMappings(q)
                 PROVE  q.page_frame_map[FrameOf(q, m)]
      BY DEF MappedFramesMarked
    <3>1. FrameOf(q, m) \in Frames
      BY <2>2, MappedFrameType DEF UserMappings, FrameOf
    <3>2. FrameOf(q, m) = f \/ p.page_frame_map[FrameOf(q, m)]
      BY <2>5 DEF PagingSound, MappedFramesMarked
    <3>3. p.page_frame_map \in [Frames -> BOOLEAN]
      BY DEF PagingState
    <3> QED
      BY <2>1, <2>2, <3>1, <3>2, <3>3
  <2>9. FreeCountExact(q)
    <3>1. p.page_frame_map \in [Frames -> BOOLEAN]
      BY DEF PagingState
    <3>2. FreeFrames(q) = FreeFrames(p) \ {f}
      BY <2>1, <2>2, <3>1 DEF FreeFrames
    <3>3. f \in FreeFrames(p)
      BY <2>1 DEF FreeFrames
    <3>4. Cardinality(FreeFrames(q)) = Cardinality(FreeFrames(p)) - 1
      BY ZenonT(30), <3>2, <3>3, FreeFramesFinite, FS_RemoveElement
    <3> QED
      BY <2>2, <3>4 DEF PagingSound, FreeCountExact
  <2>10. UnusedDirectoriesEmpty(q)
    <3> SUFFICES ASSUME NEW e \in Directories, NEW w \in Pages,
                        ~q.page_directory_used[e]
                 PROVE  ~UserMapped(q, e, w)
      BY DEF UnusedDirectoriesEmpty
    <3>1. ~p.page_directory_used[e] /\ e # d
      BY <2>2
    <3>2. q.table[e][w] = p.table[e][w]
      BY <2>4, <3>1 DEF AllDirectories
    <3> QED
      BY <3>1, <3>2 DEF UserMapped, PagingSound, UnusedDirectoriesEmpty
  <2> QED
    BY <2>2, <2>7, <2>8, <2>9, <2>10 DEF PagingSound, q
<1> QED
  BY <1>1, <1>2

-----------------------------------------------------------------------------
(* paging_free_user_page_frame *)

\* Freeing a user mapping clears it and returns its frame.
LEMMA FreeEffect ==
  ASSUME NEW p \in PagingState, NEW d \in AllDirectories, NEW v \in Pages,
         UserMapped(p, d, v)
  PROVE  LET q == paging_free_user_page_frame(p, d, v) IN
         /\ q \in PagingState
         /\ q.page_frame_map = [p.page_frame_map EXCEPT ![p.table[d][v].frame] = FALSE]
         /\ q.free_page_frame_count = p.free_page_frame_count + 1
         /\ q.page_directory_used = p.page_directory_used
         /\ q.table = [p.table EXCEPT ![d][v] = EmptyEntry]
<1> DEFINE f == p.table[d][v].frame
           q == paging_free_user_page_frame(p, d, v)
<1>1. f \in Frames
  BY MappedFrameType
<1>2. q = [p EXCEPT !.page_frame_map[f] = FALSE,
                    !.free_page_frame_count = @ + 1,
                    !.table[d][v] = EmptyEntry]
  BY DEF paging_free_user_page_frame, update_page_directory_entry, PagingState
<1> HIDE DEF f, q
<1>3. /\ q.page_frame_map = [p.page_frame_map EXCEPT ![f] = FALSE]
      /\ q.free_page_frame_count = p.free_page_frame_count + 1
      /\ q.page_directory_used = p.page_directory_used
      /\ q.table = [p.table EXCEPT ![d][v] = EmptyEntry]
  BY <1>2 DEF PagingState
<1>4. q \in PagingState
  <2>1. [p.page_frame_map EXCEPT ![f] = FALSE] \in [Frames -> BOOLEAN]
    BY DEF PagingState
  <2>2. [p.table EXCEPT ![d][v] = EmptyEntry] \in [AllDirectories -> [Pages -> Entry]]
    BY EntryTypes DEF PagingState
  <2>3. p.free_page_frame_count + 1 \in Int
    BY DEF PagingState
  <2> QED
    BY <1>2, <2>1, <2>2, <2>3 DEF PagingState
<1> QED
  BY <1>3, <1>4 DEF f, q

\* Freeing a user mapping counts its frame.
LEMMA FreeCount ==
  ASSUME NEW p \in PagingState, NEW d \in AllDirectories, NEW v \in Pages,
         UserMapped(p, d, v)
  PROVE  paging_free_user_page_frame(p, d, v).free_page_frame_count
           = p.free_page_frame_count + 1
<1>1. paging_free_user_page_frame(p, d, v) =
        [p EXCEPT !.page_frame_map[p.table[d][v].frame] = FALSE,
                  !.free_page_frame_count = @ + 1,
                  !.table[d][v] = EmptyEntry]
  BY DEF paging_free_user_page_frame, update_page_directory_entry, PagingState
<1> QED
  BY <1>1 DEF PagingState

\* Freeing what is not mapped for a user changes nothing.
LEMMA FreeFails ==
  ASSUME NEW p, NEW d, NEW v, ~UserMapped(p, d, v)
  PROVE  paging_free_user_page_frame(p, d, v) = p
BY DEF paging_free_user_page_frame

\* Freeing a mapping touches the entries of one directory only.
LEMMA FreeKeeps ==
  ASSUME NEW p \in PagingState, NEW d \in AllDirectories, NEW v \in Pages
  PROVE  LET q == paging_free_user_page_frame(p, d, v) IN
         /\ q.page_directory_used = p.page_directory_used
         /\ \A e \in AllDirectories \ {d} : q.table[e] = p.table[e]
<1>1. CASE ~UserMapped(p, d, v)
  BY <1>1, FreeFails
<1>2. CASE UserMapped(p, d, v)
  <2> DEFINE q == paging_free_user_page_frame(p, d, v)
  <2>1. /\ q \in PagingState
        /\ q.page_frame_map = [p.page_frame_map EXCEPT ![p.table[d][v].frame] = FALSE]
        /\ q.free_page_frame_count = p.free_page_frame_count + 1
        /\ q.page_directory_used = p.page_directory_used
        /\ q.table = [p.table EXCEPT ![d][v] = EmptyEntry]
    BY <1>2, FreeEffect
  <2> HIDE DEF q
  <2>2. \A e \in AllDirectories \ {d} : q.table[e] = p.table[e]
    BY <2>1 DEF PagingState
  <2> QED
    BY <2>1, <2>2 DEF q
<1> QED
  BY <1>1, <1>2

\* Freeing keeps the memory manager sound: isolation is what makes the frame
\* unmapped everywhere once the entry at v is cleared.
LEMMA FreeSound ==
  ASSUME NEW p \in PagingState, NEW d \in AllDirectories, NEW v \in Pages,
         PagingSound(p)
  PROVE  /\ paging_free_user_page_frame(p, d, v) \in PagingState
         /\ PagingSound(paging_free_user_page_frame(p, d, v))
<1>1. CASE ~UserMapped(p, d, v)
  BY <1>1, FreeFails
<1>2. CASE UserMapped(p, d, v)
  <2> DEFINE f == p.table[d][v].frame
             q == paging_free_user_page_frame(p, d, v)
  <2>1. f \in Frames /\ p.page_frame_map[f]
    <3>1. <<d, v>> \in UserMappings(p)
      BY <1>2 DEF UserMappings
    <3>2. p.page_frame_map[FrameOf(p, <<d, v>>)]
      BY <3>1 DEF PagingSound, MappedFramesMarked
    <3> QED
      BY <3>2, MappedFrameType DEF FrameOf
  <2>2. /\ q \in PagingState
        /\ q.page_frame_map = [p.page_frame_map EXCEPT ![f] = FALSE]
        /\ q.free_page_frame_count = p.free_page_frame_count + 1
        /\ q.page_directory_used = p.page_directory_used
        /\ q.table = [p.table EXCEPT ![d][v] = EmptyEntry]
    BY <1>2, FreeEffect
  <2> HIDE DEF q
  <2>3. p.page_frame_map \in [Frames -> BOOLEAN]
    BY DEF PagingState
  <2>4. \A e \in AllDirectories, w \in Pages :
          q.table[e][w] = IF e = d /\ w = v THEN EmptyEntry ELSE p.table[e][w]
    BY <2>2 DEF PagingState
  <2>5. \A m \in UserMappings(q) :
          m \in UserMappings(p) /\ m # <<d, v>> /\ FrameOf(q, m) = FrameOf(p, m)
    BY <2>4 DEF UserMappings, UserMapped, FrameOf, EmptyEntry
  <2>6. \A m \in UserMappings(q) : FrameOf(q, m) # f
    <3>1. <<d, v>> \in UserMappings(p) /\ FrameOf(p, <<d, v>>) = f
      BY <1>2 DEF UserMappings, FrameOf
    <3> QED
      BY <2>5, <3>1 DEF PagingSound, FramesIsolated
  <2>7. FramesIsolated(q)
    BY <2>5 DEF PagingSound, FramesIsolated
  <2>8. MappedFramesMarked(q)
    <3> SUFFICES ASSUME NEW m \in UserMappings(q)
                 PROVE  q.page_frame_map[FrameOf(q, m)]
      BY DEF MappedFramesMarked
    <3>1. FrameOf(q, m) \in Frames
      BY <2>2, MappedFrameType DEF UserMappings, FrameOf
    <3>2. p.page_frame_map[FrameOf(q, m)]
      BY <2>5 DEF PagingSound, MappedFramesMarked
    <3>3. FrameOf(q, m) # f
      BY <2>6
    <3> QED
      BY <2>2, <2>3, <3>1, <3>2, <3>3
  <2>9. FreeCountExact(q)
    <3>1. FreeFrames(q) = FreeFrames(p) \cup {f}
      BY <2>1, <2>2, <2>3 DEF FreeFrames
    <3>2. f \notin FreeFrames(p)
      BY <2>1 DEF FreeFrames
    <3>3. Cardinality(FreeFrames(q)) = Cardinality(FreeFrames(p)) + 1
      BY <3>1, <3>2, FreeFramesFinite, FS_AddElement
    <3> QED
      BY <2>2, <3>3 DEF PagingSound, FreeCountExact
  <2>10. UnusedDirectoriesEmpty(q)
    <3> SUFFICES ASSUME NEW e \in Directories, NEW w \in Pages, UserMapped(q, e, w)
                 PROVE  q.page_directory_used[e]
      BY DEF UnusedDirectoriesEmpty
    <3>1. UserMapped(p, e, w)
      BY <2>4 DEF UserMapped, EmptyEntry, AllDirectories
    <3> QED
      BY <2>2, <3>1 DEF PagingSound, UnusedDirectoriesEmpty
  <2> QED
    BY <2>2, <2>7, <2>8, <2>9, <2>10 DEF PagingSound, q
<1> QED
  BY <1>1, <1>2

-----------------------------------------------------------------------------
(* Page directories *)

\* Two states of the memory manager with the same frames, the second of which
\* maps nothing new for a user and leaves no unused directory mapped.
LEMMA FewerMappingsSound ==
  ASSUME NEW p \in PagingState, NEW q \in PagingState, PagingSound(p),
         q.page_frame_map = p.page_frame_map,
         q.free_page_frame_count = p.free_page_frame_count,
         \A e \in AllDirectories, w \in Pages :
           UserMapped(q, e, w) =>
             /\ q.table[e][w] = p.table[e][w]
             /\ e \in Directories => q.page_directory_used[e]
  PROVE  PagingSound(q)
<1>1. \A m \in UserMappings(q) :
        m \in UserMappings(p) /\ FrameOf(q, m) = FrameOf(p, m)
  BY DEF UserMappings, UserMapped, FrameOf
<1>2. FramesIsolated(q) /\ MappedFramesMarked(q)
  BY <1>1 DEF PagingSound, FramesIsolated, MappedFramesMarked
<1>3. FreeCountExact(q)
  BY DEF PagingSound, FreeCountExact, FreeFrames
<1>4. UnusedDirectoriesEmpty(q)
  BY DEF UnusedDirectoriesEmpty, AllDirectories
<1> QED
  BY <1>2, <1>3, <1>4 DEF PagingSound

\* A new directory is taken from the unused ones and maps the kernel only.
LEMMA CreateDirectoryEffect ==
  ASSUME NEW p \in PagingState, NewPageDirectory(p) # NULL
  PROVE  LET n == NewPageDirectory(p)
             q == paging_create_new_page_directory(p)
         IN  /\ q \in PagingState
             /\ q.page_frame_map = p.page_frame_map
             /\ q.free_page_frame_count = p.free_page_frame_count
             /\ q.page_directory_used = [p.page_directory_used EXCEPT ![n] = TRUE]
             /\ q.table = [p.table EXCEPT ![n] =
                  [v \in Pages |-> IF v = KernelPage THEN KernelEntry ELSE EmptyEntry]]
<1> DEFINE n == NewPageDirectory(p)
           q == paging_create_new_page_directory(p)
           fresh == [v \in Pages |-> IF v = KernelPage THEN KernelEntry ELSE EmptyEntry]
<1>1. n \in Directories
  BY FirstFreeDirectory
<1>2. q = [p EXCEPT !.page_directory_used[n] = TRUE, !.table[n] = fresh]
  BY DEF paging_create_new_page_directory
<1>3. fresh \in [Pages -> Entry]
  BY EntryTypes
<1> HIDE DEF n, q, fresh
<1>4. /\ q.page_frame_map = p.page_frame_map
      /\ q.free_page_frame_count = p.free_page_frame_count
      /\ q.page_directory_used = [p.page_directory_used EXCEPT ![n] = TRUE]
      /\ q.table = [p.table EXCEPT ![n] = fresh]
  BY <1>2 DEF PagingState
<1>5. q \in PagingState
  <2>1. [p.page_directory_used EXCEPT ![n] = TRUE] \in [Directories -> BOOLEAN]
    BY DEF PagingState
  <2>2. [p.table EXCEPT ![n] = fresh] \in [AllDirectories -> [Pages -> Entry]]
    BY <1>3 DEF PagingState
  <2> QED
    BY <1>2, <2>1, <2>2 DEF PagingState
<1> QED
  BY <1>4, <1>5 DEF n, q, fresh

\* Creating a directory keeps the memory manager sound.
LEMMA CreateDirectorySound ==
  ASSUME NEW p \in PagingState, PagingSound(p)
  PROVE  /\ paging_create_new_page_directory(p) \in PagingState
         /\ PagingSound(paging_create_new_page_directory(p))
<1>1. CASE NewPageDirectory(p) = NULL
  BY <1>1 DEF paging_create_new_page_directory
<1>2. CASE NewPageDirectory(p) # NULL
  <2> DEFINE n == NewPageDirectory(p)
             q == paging_create_new_page_directory(p)
  <2>1. n \in Directories
    BY <1>2, FirstFreeDirectory
  <2>2. /\ q \in PagingState
        /\ q.page_frame_map = p.page_frame_map
        /\ q.free_page_frame_count = p.free_page_frame_count
        /\ q.page_directory_used = [p.page_directory_used EXCEPT ![n] = TRUE]
        /\ q.table = [p.table EXCEPT ![n] =
             [v \in Pages |-> IF v = KernelPage THEN KernelEntry ELSE EmptyEntry]]
    BY <1>2, CreateDirectoryEffect
  <2> HIDE DEF n, q
  <2>3. \A e \in AllDirectories, w \in Pages :
          UserMapped(q, e, w) => e # n /\ q.table[e][w] = p.table[e][w]
    BY <2>2 DEF UserMapped, KernelEntry, EmptyEntry, PagingState
  <2>4. \A e \in Directories, w \in Pages :
          UserMapped(q, e, w) => q.page_directory_used[e]
    <3> SUFFICES ASSUME NEW e \in Directories, NEW w \in Pages, UserMapped(q, e, w)
                 PROVE  q.page_directory_used[e]
      OBVIOUS
    <3>1. e # n /\ UserMapped(p, e, w)
      BY <2>3 DEF UserMapped, AllDirectories
    <3>2. p.page_directory_used[e]
      BY <3>1 DEF PagingSound, UnusedDirectoriesEmpty
    <3>3. p.page_directory_used \in [Directories -> BOOLEAN]
      BY DEF PagingState
    <3> QED
      BY <2>2, <3>1, <3>2, <3>3
  <2>5. PagingSound(q)
    <3>1. \A e \in AllDirectories, w \in Pages :
            UserMapped(q, e, w) =>
              /\ q.table[e][w] = p.table[e][w]
              /\ e \in Directories => q.page_directory_used[e]
      BY <2>3, <2>4
    <3> QED
      BY <2>2, <3>1, FewerMappingsSound
  <2> QED
    BY <2>2, <2>5 DEF q
<1> QED
  BY <1>1, <1>2

\* Freeing a directory keeps the memory manager sound: the frames it mapped
\* are abandoned, marked but unmapped.
LEMMA FreeDirectorySound ==
  ASSUME NEW p \in PagingState, NEW d \in AllDirectories, PagingSound(p)
  PROVE  /\ paging_free_page_directory(p, d) \in PagingState
         /\ PagingSound(paging_free_page_directory(p, d))
<1>1. CASE d \notin Directories
  BY <1>1 DEF paging_free_page_directory
<1>2. CASE d \in Directories
  <2> DEFINE q == paging_free_page_directory(p, d)
             wiped == [v \in Pages |-> EmptyEntry]
  <2>1. q = [p EXCEPT !.page_directory_used[d] = FALSE, !.table[d] = wiped]
    BY <1>2 DEF paging_free_page_directory
  <2>2. wiped \in [Pages -> Entry]
    BY EntryTypes
  <2>3. \A v \in Pages : ~wiped[v].present_bit
    BY DEF EmptyEntry
  <2> HIDE DEF q, wiped
  <2>4. /\ q.page_frame_map = p.page_frame_map
        /\ q.free_page_frame_count = p.free_page_frame_count
        /\ q.page_directory_used = [p.page_directory_used EXCEPT ![d] = FALSE]
        /\ q.table = [p.table EXCEPT ![d] = wiped]
    BY <2>1 DEF PagingState
  <2>5. q \in PagingState
    <3>1. [p.page_directory_used EXCEPT ![d] = FALSE] \in [Directories -> BOOLEAN]
      BY DEF PagingState
    <3>2. [p.table EXCEPT ![d] = wiped] \in [AllDirectories -> [Pages -> Entry]]
      BY <2>2 DEF PagingState
    <3> QED
      BY <2>1, <3>1, <3>2 DEF PagingState
  <2>6. \A e \in AllDirectories, w \in Pages :
          UserMapped(q, e, w) => e # d /\ q.table[e][w] = p.table[e][w]
    BY <2>3, <2>4 DEF UserMapped, PagingState
  <2>7. \A e \in Directories, w \in Pages :
          UserMapped(q, e, w) => q.page_directory_used[e]
    <3> SUFFICES ASSUME NEW e \in Directories, NEW w \in Pages, UserMapped(q, e, w)
                 PROVE  q.page_directory_used[e]
      OBVIOUS
    <3>1. e # d /\ UserMapped(p, e, w)
      BY <2>6 DEF UserMapped, AllDirectories
    <3>2. p.page_directory_used[e]
      BY <3>1 DEF PagingSound, UnusedDirectoriesEmpty
    <3> QED
      BY <2>4, <3>1, <3>2 DEF PagingState
  <2>8. PagingSound(q)
    <3>1. \A e \in AllDirectories, w \in Pages :
            UserMapped(q, e, w) =>
              /\ q.table[e][w] = p.table[e][w]
              /\ e \in Directories => q.page_directory_used[e]
      BY <2>6, <2>7
    <3> QED
      BY <2>4, <2>5, <3>1, FewerMappingsSound
  <2> QED
    BY <2>5, <2>8 DEF q
<1> QED
  BY <1>1, <1>2
=============================================================================
