------------------------------ MODULE Ext2Proofs ------------------------------
(***************************************************************************)
(* Proofs about Ext2: whatever is written, deleted and restarted, the      *)
(* volume stays well formed, and the blocks that hold the file system's    *)
(* own tables are never handed out, written through a pointer or freed.    *)
(*                                                                         *)
(* The other invariants that TLC checks of Ext2 are facts of volumes on    *)
(* which every file fits into its node.  For every value of the constants  *)
(* they do not hold: a node without a place for one more block keeps that  *)
(* block marked (PlaceBlock).                                              *)
(***************************************************************************)
EXTENDS Ext2, FiniteSetTheorems, SequenceTheorems, WellFoundedInduction, TLAPS

-----------------------------------------------------------------------------
\* Least elements, induction and recursive functions.

\* A set of natural numbers has a least element.
LEMMA Least ==
  ASSUME NEW T, T \subseteq Nat, T # {}
  PROVE  \E m \in T : \A n \in T : m <= n
<1> DEFINE R == OpToRel(<, Nat)
<1>1. IsWellFoundedOn(R, Nat)
  BY NatLessThanWellFounded
<1>2. \A m, n \in Nat : m < n => <<m, n>> \in R
  BY DEF OpToRel
<1> HIDE DEF R
<1>3. PICK m \in T : \A n \in T : ~ (<<n, m>> \in R)
  BY <1>1, WFMin
<1>4. ASSUME NEW n \in T PROVE m <= n
  <2>1. m \in Nat /\ n \in Nat /\ ~ (n < m)
    BY <1>2, <1>3
  <2> QED
    BY <2>1
<1> QED
  BY <1>4

\* Min and Only return an element of their set.
LEMMA MinIn ==
  ASSUME NEW T, T \subseteq Nat, T # {}
  PROVE  Min(T) \in T /\ \A n \in T : Min(T) <= n
  BY Least DEF Min

LEMMA OnlyIn ==
  ASSUME NEW T, T # {}
  PROVE  Only(T) \in T
  BY DEF Only

LEMMA Induction ==
  ASSUME NEW T, 0 \in T, \A n \in Nat : n \in T => n + 1 \in T
  PROVE  Nat \subseteq T
<1>1. SUFFICES ASSUME Nat \ T # {} PROVE FALSE
  OBVIOUS
<1>2. PICK m \in Nat \ T : \A n \in Nat \ T : m <= n
  BY <1>1, Least
<1>3. m - 1 \in Nat /\ ~ (m <= m - 1)
  BY <1>2
<1>4. m - 1 \in T
  BY <1>2, <1>3
<1> QED
  BY <1>2, <1>3, <1>4

\* A step is a function of the argument and the value before; f follows it up to n.
Stays(step, n, S) == \A k \in 1 .. n, v \in S : step[<<k, v>>] \in S
Follows(f, n, a, step) == f[0] = a /\ \A k \in 1 .. n : f[k] = step[<<k, f[k - 1]>>]

\* A function that is defined by recursion on 0 .. n exists.
LEMMA Recursion ==
  ASSUME NEW n \in Nat, NEW S, NEW a \in S, NEW step, Stays(step, n, S)
  PROVE  \E f \in [0 .. n -> S] : Follows(f, n, a, step)
<1> USE DEF Stays, Follows
<1> DEFINE Upto(m, g) == g \in [0 .. m -> S] /\ Follows(g, m, a, step)
           Some == {m \in Nat : m <= n => \E g : Upto(m, g)}
<1>1. 0 \in Some
  <2>1. Upto(0, [k \in 0 .. 0 |-> a])
    OBVIOUS
  <2> QED
    BY <2>1
<1>2. ASSUME NEW m \in Nat, m \in Some PROVE m + 1 \in Some
  <2>1. SUFFICES ASSUME m + 1 <= n PROVE \E g : Upto(m + 1, g)
    OBVIOUS
  <2>2. PICK g : Upto(m, g)
    BY <1>2, <2>1
  <2> DEFINE h == [k \in 0 .. m + 1 |-> IF k = m + 1 THEN step[<<k, g[m]>>] ELSE g[k]]
  <2>3. h \in [0 .. m + 1 -> S]
    BY <2>1, <2>2
  <2>4. h[0] = a
    BY <2>2
  <2>5. ASSUME NEW k \in 1 .. m + 1 PROVE h[k] = step[<<k, h[k - 1]>>]
    <3>1. CASE k = m + 1
      <4>1. k - 1 \in 0 .. m + 1 /\ k - 1 # m + 1 /\ k - 1 = m
        BY <3>1
      <4> QED
        BY <3>1, <4>1
    <3>2. CASE k # m + 1
      <4>1. k \in 1 .. m /\ k - 1 \in 0 .. m + 1 /\ k - 1 # m + 1
        BY <3>2
      <4> QED
        BY <2>2, <4>1
    <3> QED
      BY <3>1, <3>2
  <2> HIDE DEF h
  <2> QED
    BY <2>3, <2>4, <2>5
<1> HIDE DEF Some
<1>3. n \in Some
  BY <1>1, <1>2, Induction
<1> QED
  BY <1>3 DEF Some

-----------------------------------------------------------------------------
\* Where the tables and the data of a volume lie.

LEMMA Parameters ==
  /\ GROUPS_COUNT \in Nat /\ GROUPS_COUNT >= 1
  /\ DIRECT_BLOCK_COUNT \in Nat /\ DIRECT_BLOCK_COUNT >= 1
  /\ INODES_TABLE_BLOCK_COUNT \in Nat /\ INODES_TABLE_BLOCK_COUNT >= 1
  /\ POINTERS_PER_BLOCK \in Nat /\ POINTERS_PER_BLOCK >= 2
  /\ INODES_PER_GROUP \in Nat /\ INODES_PER_GROUP >= 2
  /\ BLOCK_SIZE \in Nat /\ BLOCK_SIZE >= 3
  /\ BLOCKS_PER_GROUP \in Nat /\ BLOCKS_PER_GROUP > 5 + INODES_TABLE_BLOCK_COUNT
  /\ UINT16 \in Nat /\ UINT16 > BLOCKS_PER_GROUP /\ UINT16 > INODES_PER_GROUP
  BY VolumeAssumption

LEMMA TimesMonotonic ==
  ASSUME NEW a \in Nat, NEW b \in Nat, NEW c \in Nat, a <= b
  PROVE  a * c \in Nat /\ b * c \in Nat /\ a * c <= b * c
<1>1. b * c = a * c + (b - a) * c
  OBVIOUS
<1>2. (b - a) * c \in Nat /\ a * c \in Nat /\ b * c \in Nat
  OBVIOUS
<1> QED
  BY <1>1, <1>2

LEMMA BlocksOfBlocks ==
  ASSUME NEW g \in Groups
  PROVE  BlocksOf(g) \subseteq Blocks /\ IsFiniteSet(BlocksOf(g))
<1>1. g \in Nat /\ g + 1 \in Nat /\ g + 1 <= GROUPS_COUNT /\ GROUPS_COUNT \in Nat
  BY Parameters DEF Groups
<1>2. /\ g * BLOCKS_PER_GROUP \in Nat
      /\ (g + 1) * BLOCKS_PER_GROUP \in Nat
      /\ GROUPS_COUNT * BLOCKS_PER_GROUP \in Nat
      /\ (g + 1) * BLOCKS_PER_GROUP <= GROUPS_COUNT * BLOCKS_PER_GROUP
  BY <1>1, Parameters, TimesMonotonic
<1> HIDE DEF Groups
<1>3. BlocksOf(g) \subseteq Blocks
  BY <1>2 DEF BlocksOf, Blocks
<1>4. IsFiniteSet(BlocksOf(g))
  BY <1>2, FS_Interval DEF BlocksOf
<1> QED
  BY <1>3, <1>4

\* The tables of a group lie in the group; block 0 is one of them.
LEMMA TablesInBlocks ==
  Tables \subseteq Blocks /\ 0 \in Tables
<1>1. ASSUME NEW g \in Groups PROVE Metadata(g) \subseteq BlocksOf(g)
  <2>1. g \in Nat /\ g * BLOCKS_PER_GROUP \in Nat
    BY Parameters, TimesMonotonic DEF Groups
  <2>2. (g + 1) * BLOCKS_PER_GROUP = g * BLOCKS_PER_GROUP + BLOCKS_PER_GROUP
    BY <2>1, Parameters
  <2>3. ASSUME NEW k \in 0 .. ((IF g = 0 THEN 5 ELSE 3) + INODES_TABLE_BLOCK_COUNT - 1)
        PROVE  g * BLOCKS_PER_GROUP + k \in BlocksOf(g)
    BY <2>1, <2>2, Parameters DEF BlocksOf
  <2> QED
    BY <2>3 DEF Metadata
<1>2. 0 \in Groups
  BY Parameters DEF Groups
<1>3. 0 * BLOCKS_PER_GROUP + 0 = 0
  BY Parameters
<1>4. 0 \in 0 .. (5 + INODES_TABLE_BLOCK_COUNT - 1)
  BY Parameters
<1>5. 0 \in Metadata(0)
  BY <1>3, <1>4 DEF Metadata
<1> QED
  BY <1>1, <1>2, <1>5, BlocksOfBlocks DEF Tables

DataBlocks == Blocks \ Tables

LEMMA DataBlocksNotZero ==
  0 \notin DataBlocks /\ DataBlocks \subseteq Blocks \ {0} /\ DataBlocks \subseteq Nat
<1>1. Blocks \subseteq Nat
  BY DEF Blocks
<1> QED
  BY <1>1, TablesInBlocks DEF DataBlocks

-----------------------------------------------------------------------------
\* The inductive invariant: the volume is a member of this set.

PointerSeqs == {s \in Seq(DataBlocks) : Len(s) <= POINTERS_PER_BLOCK}
Tokens == {""} \cup UNION {ToSet(data) : data \in Buffers}
BlockRecords ==
  [data : Tokens, pointers : PointerSeqs, entries : [0 .. (BLOCK_SIZE - 1) -> Entries]]
StoredNodes ==
  [i_mode : {"none", "file", "dir"}, i_size : Nat, i_block : [Slots -> DataBlocks \cup {0}]]
Counters == [Groups -> 0 .. (UINT16 - 1)]
Volumes ==
  [block_bitmap : {marked \in SUBSET Blocks : Tables \subseteq marked},
   inode_bitmap : SUBSET Inodes,
   inode_table : [Inodes -> StoredNodes],
   blocks : [Blocks -> BlockRecords],
   bg_free_blocks_count : Counters,
   bg_free_inodes_count : Counters,
   bgdt : [blocks : Counters, inodes : Counters]]

IInv == volume \in Volumes

LEMMA IInvImplies ==
  IInv => TypeOK /\ TablesReserved
<1>1. SUFFICES ASSUME volume \in Volumes PROVE TypeOK /\ TablesReserved
  BY DEF IInv
<1>2. /\ volume.block_bitmap \subseteq Blocks
      /\ Tables \subseteq volume.block_bitmap
      /\ volume.inode_bitmap \subseteq Inodes
      /\ volume.inode_table \in [Inodes -> StoredNodes]
      /\ volume.blocks \in [Blocks -> BlockRecords]
      /\ volume.bg_free_blocks_count \in Counters
      /\ volume.bg_free_inodes_count \in Counters
  BY <1>1 DEF Volumes
<1>3. ASSUME NEW i \in Inodes
      PROVE  /\ volume.inode_table[i] \in Nodes
             /\ \A s \in Slots : volume.inode_table[i].i_block[s] \notin Tables \ {0}
  <2>1. volume.inode_table[i] \in StoredNodes
    BY <1>2
  <2>2. DataBlocks \cup {0} \subseteq Blocks
    BY DataBlocksNotZero, TablesInBlocks
  <2>3. [Slots -> DataBlocks \cup {0}] \subseteq [Slots -> Blocks]
    BY <2>2
  <2>4. volume.inode_table[i] \in Nodes
    BY <2>1, <2>3 DEF StoredNodes, Nodes
  <2>5. \A s \in Slots : volume.inode_table[i].i_block[s] \in DataBlocks \cup {0}
    BY <2>1 DEF StoredNodes
  <2> QED
    BY <2>4, <2>5 DEF DataBlocks
<1>4. ASSUME NEW b \in Blocks
      PROVE  /\ volume.blocks[b].pointers \in Seq(Blocks \ {0})
             /\ Len(volume.blocks[b].pointers) <= POINTERS_PER_BLOCK
             /\ \A o \in 0 .. (BLOCK_SIZE - 1) : volume.blocks[b].entries[o] \in Entries
             /\ ToSet(volume.blocks[b].pointers) \cap Tables = {}
  <2>1. volume.blocks[b] \in BlockRecords
    BY <1>2
  <2>2. volume.blocks[b].pointers \in Seq(DataBlocks)
    BY <2>1 DEF BlockRecords, PointerSeqs
  <2>3. volume.blocks[b].pointers \in Seq(Blocks \ {0})
    BY <2>2, DataBlocksNotZero, SeqMonotonic
  <2>4. ToSet(volume.blocks[b].pointers) \subseteq DataBlocks
    BY <2>2 DEF ToSet
  <2> QED
    BY <2>1, <2>3, <2>4 DEF BlockRecords, PointerSeqs, DataBlocks
<1> QED
  BY <1>2, <1>3, <1>4 DEF TypeOK, TablesReserved, Counters

-----------------------------------------------------------------------------
\* A volume with one part replaced.

LEMMA VolumeParts ==
  ASSUME NEW vol \in Volumes
  PROVE  /\ vol.block_bitmap \subseteq Blocks
         /\ Tables \subseteq vol.block_bitmap
         /\ vol.inode_bitmap \subseteq Inodes
         /\ vol.inode_table \in [Inodes -> StoredNodes]
         /\ vol.blocks \in [Blocks -> BlockRecords]
         /\ vol.bg_free_blocks_count \in Counters
         /\ vol.bg_free_inodes_count \in Counters
         /\ vol.bgdt.blocks \in Counters /\ vol.bgdt.inodes \in Counters
  BY DEF Volumes

\* A counter moves by any amount, and wraps around.
LEMMA CounterWraps ==
  ASSUME NEW n \in Int
  PROVE  n % UINT16 \in 0 .. (UINT16 - 1)
  BY Parameters

LEMMA CounterMoved ==
  ASSUME NEW count \in Counters, NEW g
  PROVE  /\ [count EXCEPT ![g] = (@ - 1) % UINT16] \in Counters
         /\ [count EXCEPT ![g] = (@ + 1) % UINT16] \in Counters
<1>1. ASSUME NEW h \in Groups
      PROVE  /\ (count[h] - 1) % UINT16 \in 0 .. (UINT16 - 1)
             /\ (count[h] + 1) % UINT16 \in 0 .. (UINT16 - 1)
  BY CounterWraps, Parameters DEF Counters
<1> QED
  BY <1>1 DEF Counters

LEMMA TakeBlockTyped ==
  ASSUME NEW vol \in Volumes, NEW b \in Blocks
  PROVE  TakeBlock(vol, b) \in Volumes
<1> DEFINE count == vol.bg_free_blocks_count
           marked == vol.block_bitmap \cup {b}
           less == [count EXCEPT ![block_to_bgd(b)] = (@ - 1) % UINT16]
<1>1. marked \in {m \in SUBSET Blocks : Tables \subseteq m}
  BY VolumeParts
<1>2. less \in Counters
  BY VolumeParts, CounterMoved
<1>3. TakeBlock(vol, b) = [vol EXCEPT !.block_bitmap = marked, !.bg_free_blocks_count = less]
  BY DEF TakeBlock, Volumes
<1> HIDE DEF marked, less
<1> QED
  BY <1>1, <1>2, <1>3 DEF Volumes

\* Storing a block; a number that is no block's changes nothing.
LEMMA StoreTyped ==
  ASSUME NEW vol \in Volumes, NEW p, NEW content, p \in Blocks => content \in BlockRecords
  PROVE  [vol EXCEPT !.blocks[p] = content] \in Volumes
<1> DEFINE stored == [vol.blocks EXCEPT ![p] = content]
<1>1. stored \in [Blocks -> BlockRecords]
  BY VolumeParts
<1>2. [vol EXCEPT !.blocks[p] = content] = [vol EXCEPT !.blocks = stored]
  BY DEF Volumes
<1> HIDE DEF stored
<1> QED
  BY <1>1, <1>2 DEF Volumes

LEMMA ZeroBlockTyped ==
  ZeroEntry \in Entries /\ ZeroBlock \in BlockRecords
<1>1. ZeroEntry \in Entries
  BY DEF ZeroEntry, Entries
<1>2. [o \in 0 .. (BLOCK_SIZE - 1) |-> ZeroEntry] \in [0 .. (BLOCK_SIZE - 1) -> Entries]
  BY <1>1
<1>3. <<>> \in PointerSeqs
  BY Parameters DEF PointerSeqs
<1>4. "" \in Tokens
  BY DEF Tokens
<1> QED
  BY <1>1, <1>2, <1>3, <1>4 DEF ZeroBlock, BlockRecords

LEMMA PointerBlockTyped ==
  ASSUME NEW s \in PointerSeqs
  PROVE  PointerBlock(s) \in BlockRecords
  BY ZeroBlockTyped DEF PointerBlock, BlockRecords

-----------------------------------------------------------------------------
\* Allocation: what is handed out is never a block of the tables.

LEMMA FreeInGroup ==
  ASSUME NEW vol \in Volumes, NEW g \in Groups
  PROVE  find_free_in_bgd(vol, g) \in DataBlocks \cup {0}
<1> DEFINE free == BlocksOf(g) \ vol.block_bitmap
<1>1. free \subseteq DataBlocks /\ free \subseteq Nat
  BY BlocksOfBlocks, VolumeParts, DataBlocksNotZero DEF DataBlocks
<1>2. free # {} => Min(free) \in free
  BY <1>1, MinIn
<1> QED
  BY <1>1, <1>2 DEF find_free_in_bgd

LEMMA FreeAnywhere ==
  ASSUME NEW vol \in Volumes, NEW preferred
  PROVE  find_free_anywhere(vol, preferred) \in DataBlocks \cup {0}
<1> DEFINE groups == {g \in Groups : find_free_in_bgd(vol, g) # 0}
<1>1. groups \subseteq Nat
  BY DEF Groups
<1>2. groups # {} => Min(groups) \in groups
  BY <1>1, MinIn
<1> HIDE DEF groups
<1>3. \A g \in groups : find_free_in_bgd(vol, g) \in DataBlocks \cup {0}
  BY FreeInGroup DEF groups
<1> QED
  BY <1>2, <1>3 DEF find_free_anywhere, groups

\* What an allocation leaves: a volume, and a block of data or 0.
Grants == [vol : Volumes, block : DataBlocks \cup {0}]
Results == [vol : Volumes, node : StoredNodes, block : DataBlocks \cup {0}]

LEMMA NewPointerBlockTyped ==
  ASSUME NEW below \in Grants, below.block # 0, NEW preferred
  PROVE  NewPointerBlock(below, preferred) \in Grants
<1> DEFINE p == find_free_anywhere(below.vol, preferred)
           vol == IF p = 0 THEN below.vol
                  ELSE [TakeBlock(below.vol, p) EXCEPT !.blocks[p] = PointerBlock(<<below.block>>)]
<1>1. NewPointerBlock(below, preferred) = [block |-> p, vol |-> vol]
  BY OnlyIn DEF NewPointerBlock
<1>2. below.vol \in Volumes /\ below.block \in DataBlocks
  BY DEF Grants
<1>3. p \in DataBlocks \cup {0}
  BY <1>2, FreeAnywhere
<1>4. PointerBlock(<<below.block>>) \in BlockRecords
  <2>1. <<below.block>> \in PointerSeqs
    BY <1>2, Parameters DEF PointerSeqs
  <2> QED
    BY <2>1, PointerBlockTyped
<1>5. vol \in Volumes
  <2>1. CASE p = 0
    BY <1>2, <2>1
  <2>2. CASE p # 0
    BY <1>2, <1>3, <1>4, <2>2, TakeBlockTyped, StoreTyped DEF DataBlocks
  <2> QED
    BY <2>1, <2>2
<1> QED
  BY <1>1, <1>3, <1>5 DEF Grants

\* The pointers of any block are those it had, or the one new pointer.
LEMMA NewPointerBlockPointers ==
  ASSUME NEW below \in Grants, below.block # 0, NEW preferred, NEW q \in DataBlocks
  PROVE  LET leaf == NewPointerBlock(below, preferred)
         IN  Pointers(leaf.vol, q) \in {Pointers(below.vol, q), <<below.block>>}
<1> DEFINE p == find_free_anywhere(below.vol, preferred)
           taken == TakeBlock(below.vol, p)
           vol == IF p = 0 THEN below.vol
                  ELSE [taken EXCEPT !.blocks[p] = PointerBlock(<<below.block>>)]
<1>1. NewPointerBlock(below, preferred) = [block |-> p, vol |-> vol]
  BY OnlyIn DEF NewPointerBlock
<1>2. below.vol \in Volumes /\ q \in Blocks /\ q # 0
  BY DataBlocksNotZero DEF Grants
<1>3. p \in DataBlocks \cup {0}
  BY <1>2, FreeAnywhere
<1>4. CASE p = 0
  BY <1>1, <1>4
<1>5. CASE p # 0
  <2>1. taken.blocks = below.vol.blocks /\ taken.blocks \in [Blocks -> BlockRecords]
    BY <1>2, VolumeParts DEF TakeBlock, Volumes
  <2>2. taken \in Volumes
    BY <1>2, <1>3, <1>5, TakeBlockTyped DEF DataBlocks
  <2>3. vol.blocks = [taken.blocks EXCEPT ![p] = PointerBlock(<<below.block>>)]
    BY <1>5, <2>2 DEF Volumes
  <2>4. PointerBlock(<<below.block>>).pointers = <<below.block>>
    BY DEF PointerBlock, ZeroBlock
  <2>5. vol.blocks[q].pointers \in {below.vol.blocks[q].pointers, <<below.block>>}
    BY <1>2, <2>1, <2>3, <2>4
  <2> HIDE DEF vol
  <2> QED
    BY <1>1, <1>2, <2>5 DEF Pointers
<1> QED
  BY <1>4, <1>5

LEMMA PointersTyped ==
  ASSUME NEW vol \in Volumes, NEW p \in Blocks
  PROVE  Pointers(vol, p) \in PointerSeqs
<1>1. <<>> \in PointerSeqs
  BY Parameters DEF PointerSeqs
<1> QED
  BY <1>1, VolumeParts DEF Pointers, BlockRecords

LEMMA AppendPointerTyped ==
  ASSUME NEW vol \in Volumes, NEW b \in DataBlocks, NEW p,
         Len(Pointers(vol, p)) < POINTERS_PER_BLOCK
  PROVE  AppendPointer(vol, p, b) \in Volumes
<1>1. ASSUME p \in Blocks PROVE Append(Pointers(vol, p), b) \in PointerSeqs
  BY <1>1, PointersTyped, AppendProperties, Parameters DEF PointerSeqs
<1> QED
  BY <1>1, PointerBlockTyped, StoreTyped DEF AppendPointer

LEMMA PointInTyped ==
  ASSUME NEW node \in StoredNodes, NEW s, NEW b \in DataBlocks \cup {0}
  PROVE  [node EXCEPT !.i_block[s] = b] \in StoredNodes
  BY DEF StoredNodes

LEMMA PlantTreeTyped ==
  ASSUME NEW vol \in Volumes, NEW node \in StoredNodes, NEW preferred,
         NEW b \in DataBlocks, NEW depth \in {1, 2}
  PROVE  PlantTree(vol, node, preferred, b, depth) \in Results
<1> DEFINE leaf == NewPointerBlock([vol |-> vol, block |-> b], preferred)
           top == IF depth = 1 \/ leaf.block = 0 THEN leaf ELSE NewPointerBlock(leaf, preferred)
           planted == IF top.block = 0 THEN [vol |-> top.vol, node |-> node, block |-> 0]
                      ELSE [vol |-> top.vol, block |-> b,
                            node |-> [node EXCEPT !.i_block[Slot(depth)] = top.block]]
<1>1. PlantTree(vol, node, preferred, b, depth) = planted
  BY OnlyIn DEF PlantTree
<1>2. b # 0
  BY DataBlocksNotZero
<1>3. leaf \in Grants
  BY <1>2, NewPointerBlockTyped DEF Grants
<1> HIDE DEF leaf
<1>4. top \in Grants
  BY <1>3, NewPointerBlockTyped
<1> HIDE DEF top
<1>5. planted \in Results
  BY <1>4, PointInTyped DEF Grants, Results
<1> QED
  BY <1>1, <1>5

LEMMA ExtendTreeTyped ==
  ASSUME NEW vol \in Volumes, NEW node \in StoredNodes, NEW preferred,
         NEW b \in DataBlocks, NEW depth \in {1, 2}, node.i_block[Slot(depth)] # 0
  PROVE  ExtendTree(vol, node, preferred, b, depth) \in Results
<1> DEFINE root == node.i_block[Slot(depth)]
           last == IF depth = 1 THEN root ELSE Last(Pointers(vol, root))
           result(v, block) == [vol |-> v, node |-> node, block |-> block]
           leaf == NewPointerBlock([vol |-> vol, block |-> b], preferred)
           grow(l) == IF l.block = 0 THEN result(vol, 0)
                      ELSE result(AppendPointer(l.vol, root, l.block), b)
           grown == Only({grow(l) : l \in {leaf}})
<1>1. ExtendTree(vol, node, preferred, b, depth) =
        IF Len(Pointers(vol, last)) < POINTERS_PER_BLOCK
        THEN result(AppendPointer(vol, last, b), b)
        ELSE IF depth = 2 /\ Len(Pointers(vol, root)) < POINTERS_PER_BLOCK - 1
        THEN grown
        ELSE result(vol, 0)
  BY DEF ExtendTree
<1>2. root \in DataBlocks
  BY Parameters DEF StoredNodes, Slots, Slot
<1> HIDE DEF root, last
<1>3. ASSUME Len(Pointers(vol, last)) < POINTERS_PER_BLOCK
      PROVE  result(AppendPointer(vol, last, b), b) \in Results
  BY <1>3, AppendPointerTyped DEF Results
<1>4. ASSUME Len(Pointers(vol, root)) < POINTERS_PER_BLOCK - 1
      PROVE  grown \in Results
  <2> DEFINE below == [vol |-> vol, block |-> b]
  <2>1. below \in Grants /\ below.block # 0
    BY DataBlocksNotZero DEF Grants
  <2>2. leaf \in Grants
    BY <2>1, NewPointerBlockTyped
  <2>3. Pointers(leaf.vol, root) \in {Pointers(vol, root), <<b>>}
    BY <1>2, <2>1, NewPointerBlockPointers
  <2>4. Len(Pointers(leaf.vol, root)) < POINTERS_PER_BLOCK
    <3>1. Len(<<b>>) = 1
      OBVIOUS
    <3>2. Pointers(vol, root) \in PointerSeqs
      BY <1>2, PointersTyped DEF DataBlocks
    <3>3. Len(Pointers(vol, root)) \in Nat
      BY <3>2, LenProperties DEF PointerSeqs
    <3> QED
      BY <1>4, <2>3, <3>1, <3>3, Parameters
  <2> HIDE DEF leaf
  <2>5. grow(leaf) \in Results
    BY <2>2, <2>4, AppendPointerTyped DEF Grants, Results
  <2> HIDE DEF grow
  <2>6. grown = grow(leaf)
    BY OnlyIn
  <2> QED
    BY <2>5, <2>6
<1>5. result(vol, 0) \in Results
  BY DEF Results
<1> HIDE DEF result, grown
<1> QED
  BY <1>1, <1>3, <1>4, <1>5

LEMMA IndirectTyped ==
  ASSUME NEW vol \in Volumes, NEW node \in StoredNodes, NEW preferred,
         NEW b \in DataBlocks, NEW depth \in {1, 2}
  PROVE  allocate_additional_indirect_block(vol, node, preferred, b, depth) \in Results
  BY PlantTreeTyped, ExtendTreeTyped DEF allocate_additional_indirect_block

LEMMA PlaceBlockTyped ==
  ASSUME NEW vol \in Volumes, NEW node \in StoredNodes, NEW preferred, NEW b \in DataBlocks
  PROVE  PlaceBlock(vol, node, preferred, b) \in Results
<1> DEFINE unset == {s \in 1 .. DIRECT_BLOCK_COUNT : node.i_block[s] = 0}
           direct == [vol |-> vol, block |-> b, node |-> [node EXCEPT !.i_block[Min(unset)] = b]]
           first == allocate_additional_indirect_block(vol, node, preferred, b, 1)
           second == IF first.block # 0 THEN first
                     ELSE allocate_additional_indirect_block(first.vol, first.node, preferred, b, 2)
<1>1. PlaceBlock(vol, node, preferred, b) = IF unset # {} THEN direct ELSE second
  BY OnlyIn DEF PlaceBlock
<1>2. direct \in Results
  BY PointInTyped DEF Results
<1>3. first \in Results
  BY IndirectTyped
<1> HIDE DEF first
<1>4. second \in Results
  BY <1>3, IndirectTyped DEF Results
<1> QED
  BY <1>1, <1>2, <1>4

LEMMA AdditionalBlockTyped ==
  ASSUME NEW vol \in Volumes, NEW node \in StoredNodes, NEW preferred
  PROVE  allocate_additional_block(vol, node, preferred) \in Results
<1> DEFINE b == find_free_anywhere(vol, preferred)
           longer == [node EXCEPT !.i_size = @ + 1]
<1>1. allocate_additional_block(vol, node, preferred) =
        IF ~exists_n_free_blocks(vol, 4) \/ b = 0
        THEN [vol |-> vol, node |-> node, block |-> 0]
        ELSE PlaceBlock(TakeBlock(vol, b), longer, preferred, b)
  BY OnlyIn DEF allocate_additional_block
<1>2. b \in DataBlocks \cup {0}
  BY FreeAnywhere
<1>3. longer \in StoredNodes
  BY DEF StoredNodes
<1>4. b # 0 => TakeBlock(vol, b) \in Volumes
  BY <1>2, TakeBlockTyped DEF DataBlocks
<1> HIDE DEF b, longer
<1>5. [vol |-> vol, node |-> node, block |-> 0] \in Results
  BY DEF Results
<1> QED
  BY <1>1, <1>2, <1>3, <1>4, <1>5, PlaceBlockTyped

\* What writing the blocks of a node leaves.
Writings == [vol : Volumes, node : StoredNodes, stopped : BOOLEAN]

LEMMA NodeBlocksTyped ==
  ASSUME NEW vol \in Volumes, NEW node \in StoredNodes, NEW preferred,
         NEW contents \in Seq(BlockRecords)
  PROVE  allocate_node_blocks(vol, node, preferred, contents) \in Writings
<1> DEFINE n == Len(contents)
           start == [vol |-> vol, node |-> [node EXCEPT !.i_size = 0], stopped |-> FALSE]
           put(next, content) ==
             IF next.block = 0 THEN next ELSE [next EXCEPT !.vol.blocks[next.block] = content]
           more(r) == allocate_additional_block(r.vol, r.node, preferred)
           record(w) == [vol |-> w.vol, node |-> w.node, stopped |-> w.block = 0]
           next(k, r) == IF r.stopped THEN r ELSE record(put(more(r), contents[k]))
           inModel(k, r) ==
             IF r.stopped THEN r
             ELSE Only({record(w) : w \in {put(x, contents[k]) : x \in {more(r)}}})
           written ==
             CHOOSE f : f = [k \in 0 .. n |->
                               IF k = 0 THEN start
                               ELSE Only({inModel(k, r) : r \in {f[k - 1]}})]
<1>1. allocate_node_blocks(vol, node, preferred, contents) = written[n]
  BY DEF allocate_node_blocks
<1>2. n \in Nat /\ \A k \in 1 .. n : contents[k] \in BlockRecords
  OBVIOUS
<1>3. start \in Writings
  BY DEF Writings, StoredNodes
<1>4. ASSUME NEW x \in Results, NEW content \in BlockRecords
      PROVE  put(x, content) \in Results
  <2>1. x.vol \in Volumes
    BY DEF Results
  <2>2. CASE x.block # 0
    <3> DEFINE v == [x.vol EXCEPT !.blocks[x.block] = content]
    <3>1. v \in Volumes
      BY <2>1, StoreTyped
    <3>2. put(x, content) = [x EXCEPT !.vol = v]
      BY <2>2
    <3> HIDE DEF v, put
    <3> QED
      BY <3>1, <3>2 DEF Results
  <2> QED
    BY <2>2
<1> HIDE DEF put, start
<1>5. \A k \in 1 .. n, r \in Writings : next(k, r) \in Writings
  <2>1. SUFFICES ASSUME NEW k \in 1 .. n, NEW r \in Writings, ~ r.stopped
                 PROVE  record(put(more(r), contents[k])) \in Writings
    OBVIOUS
  <2>2. more(r) \in Results
    BY AdditionalBlockTyped DEF Writings
  <2> HIDE DEF more
  <2>3. put(more(r), contents[k]) \in Results
    BY <1>2, <1>4, <2>2
  <2> QED
    BY <2>3 DEF Results, Writings
<1>6. \A k, r : Only({inModel(k, x) : x \in {r}}) = next(k, r)
  <2> HIDE DEF more, record
  <2>1. ASSUME NEW k, NEW r
        PROVE  Only({record(w) : w \in {put(x, contents[k]) : x \in {more(r)}}})
                 = record(put(more(r), contents[k]))
    <3>1. {put(x, contents[k]) : x \in {more(r)}} = {put(more(r), contents[k])}
      OBVIOUS
    <3> QED
      BY <3>1, OnlyIn
  <2>2. \A k, r : inModel(k, r) = next(k, r)
    BY <2>1
  <2> HIDE DEF next, inModel
  <2> QED
    BY <2>2, OnlyIn
<1> HIDE DEF next, inModel, n
<1> DEFINE step == [x \in (1 .. n) \X Writings |-> next(x[1], x[2])]
<1>7. \A k \in 1 .. n, r \in Writings : step[<<k, r>>] = next(k, r)
  OBVIOUS
<1>8. PICK f \in [0 .. n -> Writings] :
             Follows(f, n, start, step)
  <2>1. Stays(step, n, Writings)
    BY <1>5, <1>7 DEF Stays
  <2> HIDE DEF step
  <2> QED
    BY <1>2, <1>3, <2>1, Recursion
<1> HIDE DEF step
<1>9. f = [k \in 0 .. n |-> IF k = 0 THEN start ELSE Only({inModel(k, r) : r \in {f[k - 1]}})]
  <2>1. ASSUME NEW k \in 0 .. n, k # 0
        PROVE  f[k] = Only({inModel(k, r) : r \in {f[k - 1]}})
    <3>1. k \in 1 .. n /\ f[k - 1] \in Writings
      BY <1>2, <2>1
    <3>2. f[k] = step[<<k, f[k - 1]>>]
      BY <1>8, <3>1 DEF Follows
    <3>3. f[k] = next(k, f[k - 1])
      BY <1>7, <3>1, <3>2
    <3> QED
      BY <1>6, <3>3
  <2>2. f = [k \in 0 .. n |-> f[k]]
    OBVIOUS
  <2> QED
    BY <1>8, <2>1, <2>2 DEF Follows
<1>10. written = [k \in 0 .. n |->
                    IF k = 0 THEN start ELSE Only({inModel(k, r) : r \in {written[k - 1]}})]
  BY <1>9
<1> HIDE DEF written
<1>11. \A k \in 0 .. n : written[k] = IF k = 0 THEN start ELSE next(k, written[k - 1])
  BY <1>6, <1>10
<1> DEFINE Good == {k \in Nat : k <= n => written[k] \in Writings}
<1>12. 0 \in Good
  BY <1>2, <1>3, <1>11
<1>13. ASSUME NEW k \in Nat, k \in Good PROVE k + 1 \in Good
  <2>1. SUFFICES ASSUME k + 1 <= n PROVE written[k + 1] \in Writings
    OBVIOUS
  <2>2. k + 1 \in 1 .. n /\ k + 1 \in 0 .. n /\ k + 1 # 0 /\ (k + 1) - 1 = k /\ k <= n
    BY <1>2, <2>1
  <2> QED
    BY <1>5, <1>11, <1>13, <2>2
<1> HIDE DEF Good
<1>14. n \in Good
  BY <1>2, <1>12, <1>13, Induction
<1> QED
  BY <1>1, <1>14 DEF Good

-----------------------------------------------------------------------------
\* The blocks of a node are blocks of data.

LEMMA FlattenTyped ==
  ASSUME NEW S, NEW seqs \in Seq(Seq(S))
  PROVE  FlattenSeq(seqs) \in Seq(S)
<1> DEFINE n == Len(seqs)
           flatten == CHOOSE f : f = [i \in 1 .. n |-> IF i = 1 THEN seqs[i] ELSE f[i - 1] \o seqs[i]]
<1>1. FlattenSeq(seqs) = IF n = 0 THEN seqs ELSE flatten[n]
  BY DEF FlattenSeq
<1>2. n \in Nat /\ \A i \in 1 .. n : seqs[i] \in Seq(S)
  OBVIOUS
<1>3. CASE n = 0
  <2>1. seqs = << >>
    BY <1>3
  <2> QED
    BY <1>1, <1>3, <2>1
<1>4. CASE n # 0
  <2> HIDE DEF n
  <2> DEFINE step == [x \in (1 .. n - 1) \X Seq(S) |-> x[2] \o seqs[x[1] + 1]]
  <2>1. ASSUME NEW k \in 1 .. n - 1, NEW v \in Seq(S)
        PROVE  step[<<k, v>>] = v \o seqs[k + 1] /\ step[<<k, v>>] \in Seq(S)
    <3>1. seqs[k + 1] \in Seq(S)
      BY <1>2
    <3> QED
      BY <3>1, ConcatProperties
  <2> HIDE DEF step
  <2>2. n - 1 \in Nat /\ seqs[1] \in Seq(S) /\ Stays(step, n - 1, Seq(S))
    <3>1. n - 1 \in Nat /\ 1 \in 1 .. n
      BY <1>2, <1>4
    <3>2. Stays(step, n - 1, Seq(S))
      BY <2>1 DEF Stays
    <3> QED
      BY <1>2, <3>1, <3>2
  <2>3. PICK g \in [0 .. n - 1 -> Seq(S)] :
               Follows(g, n - 1, seqs[1], step)
    BY <2>2, Recursion
  <2> DEFINE h == [i \in 1 .. n |-> g[i - 1]]
  <2>4. \A i \in 1 .. n : h[i] = IF i = 1 THEN seqs[i] ELSE h[i - 1] \o seqs[i]
    <3>1. ASSUME NEW i \in 1 .. n, i # 1 PROVE h[i] = h[i - 1] \o seqs[i]
      <4>1. /\ i - 1 \in 1 .. n - 1 /\ i - 1 \in 0 .. n - 1 /\ i - 1 \in 1 .. n
            /\ (i - 1) - 1 \in 0 .. n - 1 /\ (i - 1) + 1 = i /\ i - 1 # 0
        BY <1>2, <3>1
      <4>2. g[i - 1] = step[<<i - 1, g[(i - 1) - 1]>>]
        BY <2>3, <4>1 DEF Follows
      <4>3. g[(i - 1) - 1] \in Seq(S)
        BY <4>1
      <4> QED
        BY <2>1, <4>1, <4>2, <4>3
    <3>2. h[1] = seqs[1]
      BY <1>2, <1>4, <2>3 DEF Follows
    <3> QED
      BY <3>1, <3>2
  <2> HIDE DEF h
  <2>5. h = [i \in 1 .. n |-> h[i]]
    BY DEF h
  <2>6. h = [i \in 1 .. n |-> IF i = 1 THEN seqs[i] ELSE h[i - 1] \o seqs[i]]
    BY <2>4, <2>5
  <2>7. flatten = [i \in 1 .. n |-> IF i = 1 THEN seqs[i] ELSE flatten[i - 1] \o seqs[i]]
    BY <2>6
  <2> HIDE DEF flatten
  <2> DEFINE Good == {k \in Nat : k + 1 \in 1 .. n => flatten[k + 1] \in Seq(S)}
  <2>8. 0 \in Good
    BY <1>2, <2>7
  <2>9. ASSUME NEW k \in Nat, k \in Good PROVE k + 1 \in Good
    <3>1. SUFFICES ASSUME (k + 1) + 1 \in 1 .. n PROVE flatten[(k + 1) + 1] \in Seq(S)
      OBVIOUS
    <3>2. k + 1 \in 1 .. n /\ ((k + 1) + 1) - 1 = k + 1 /\ (k + 1) + 1 # 1
      BY <1>2, <3>1
    <3>3. flatten[(k + 1) + 1] = flatten[k + 1] \o seqs[(k + 1) + 1]
      BY <2>7, <3>1, <3>2
    <3> QED
      BY <1>2, <2>9, <3>1, <3>2, <3>3, ConcatProperties
  <2> HIDE DEF Good
  <2>10. n - 1 \in Good
    BY <2>2, <2>8, <2>9, Induction
  <2>11. flatten[n] \in Seq(S)
    BY <1>2, <1>4, <2>10 DEF Good
  <2> QED
    BY <1>1, <1>4, <2>11
<1> QED
  BY <1>3, <1>4

LEMMA DirectBlocksTyped ==
  ASSUME NEW node \in StoredNodes
  PROVE  DirectBlocks(node) \in Seq(DataBlocks)
<1> DEFINE used == {t \in 1 .. DIRECT_BLOCK_COUNT : \A u \in 1 .. t : node.i_block[u] # 0}
           zeros == {t \in 1 .. DIRECT_BLOCK_COUNT : node.i_block[t] = 0}
<1>1. \E n \in Nat : used = 1 .. n
  <2>1. CASE zeros = {}
    <3>1. used = 1 .. DIRECT_BLOCK_COUNT
      BY <2>1, Parameters
    <3> QED
      BY <3>1, Parameters
  <2>2. CASE zeros # {}
    <3>1. zeros \subseteq Nat
      BY Parameters
    <3>2. Min(zeros) \in zeros /\ \A t \in zeros : Min(zeros) <= t
      BY <2>2, <3>1, MinIn
    <3> DEFINE m == Min(zeros)
    <3> HIDE DEF m
    <3>3. m \in zeros /\ \A t \in zeros : m <= t
      BY <3>2 DEF m
    <3>4. used \subseteq 1 .. (m - 1)
      BY <3>3, Parameters
    <3>5. ASSUME NEW t \in 1 .. (m - 1) PROVE t \in used
      <4>1. t \in 1 .. DIRECT_BLOCK_COUNT
        BY <3>3, Parameters
      <4>2. ASSUME NEW u \in 1 .. t PROVE node.i_block[u] # 0
        <5>1. u \in 1 .. DIRECT_BLOCK_COUNT /\ ~ (m <= u)
          BY <3>3, <4>1, Parameters
        <5> QED
          BY <3>3, <5>1
      <4> QED
        BY <4>1, <4>2
    <3>6. m - 1 \in Nat
      BY <3>3, Parameters
    <3> QED
      BY <3>4, <3>5, <3>6
  <2> QED
    BY <2>1, <2>2
<1>2. \A t \in used : node.i_block[t] \in DataBlocks
  <2>1. ASSUME NEW t \in used PROVE t \in Slots /\ node.i_block[t] # 0
    BY Parameters DEF Slots
  <2> QED
    BY <2>1 DEF StoredNodes
<1>3. DirectBlocks(node) = [t \in used |-> node.i_block[t]]
  BY DEF DirectBlocks
<1> HIDE DEF used
<1>4. PICK n \in Nat : used = 1 .. n
  BY <1>1
<1>5. DirectBlocks(node) \in [1 .. n -> DataBlocks]
  BY <1>2, <1>3, <1>4
<1> QED
  BY <1>4, <1>5, SeqDef

LEMMA PointersOfNode ==
  ASSUME NEW vol \in Volumes, NEW p \in DataBlocks \cup {0}
  PROVE  Pointers(vol, p) \in Seq(DataBlocks)
  BY PointersTyped DEF Pointers, PointerSeqs, DataBlocks

LEMMA LeavesTyped ==
  ASSUME NEW vol \in Volumes, NEW p \in DataBlocks \cup {0}
  PROVE  LeavesOf(vol, p) \in Seq(DataBlocks)
<1> DEFINE leaves == [k \in 1 .. Len(Pointers(vol, p)) |-> Pointers(vol, Pointers(vol, p)[k])]
<1>1. Pointers(vol, p) \in Seq(DataBlocks)
  BY PointersOfNode
<1>2. Len(Pointers(vol, p)) \in Nat
  BY <1>1, LenProperties
<1>3. \A k \in 1 .. Len(Pointers(vol, p)) : Pointers(vol, Pointers(vol, p)[k]) \in Seq(DataBlocks)
  BY <1>1, PointersOfNode
<1>4. leaves \in Seq(Seq(DataBlocks))
  BY <1>2, <1>3, IsASeq
<1> HIDE DEF leaves
<1>5. FlattenSeq(leaves) \in Seq(DataBlocks)
  BY <1>4, FlattenTyped
<1> QED
  BY <1>5 DEF LeavesOf, leaves

LEMMA RootsOfNode ==
  ASSUME NEW node \in StoredNodes
  PROVE  /\ node.i_block[Slot(1)] \in DataBlocks \cup {0}
         /\ node.i_block[Slot(2)] \in DataBlocks \cup {0}
  BY Parameters DEF StoredNodes, Slots, Slot

LEMMA ContentBlocksTyped ==
  ASSUME NEW vol \in Volumes, NEW node \in StoredNodes
  PROVE  ContentBlocks(vol, node) \in Seq(DataBlocks)
<1> DEFINE singly == node.i_block[Slot(1)]
           indirect == IF singly = 0 THEN <<>>
                       ELSE Pointers(vol, singly) \o LeavesOf(vol, node.i_block[Slot(2)])
<1>1. indirect \in Seq(DataBlocks)
  <2>1. Pointers(vol, singly) \in Seq(DataBlocks)
    BY RootsOfNode, PointersOfNode
  <2>2. LeavesOf(vol, node.i_block[Slot(2)]) \in Seq(DataBlocks)
    BY RootsOfNode, LeavesTyped
  <2> QED
    BY <2>1, <2>2, ConcatProperties
<1>2. ContentBlocks(vol, node) = DirectBlocks(node) \o indirect
  BY DEF ContentBlocks
<1> HIDE DEF indirect
<1> QED
  BY <1>1, <1>2, DirectBlocksTyped, ConcatProperties

LEMMA TreeBlocksTyped ==
  ASSUME NEW vol \in Volumes, NEW node \in StoredNodes
  PROVE  TreeBlocks(vol, node) \in Seq(DataBlocks)
<1> DEFINE singly == node.i_block[Slot(1)]
           doubly == node.i_block[Slot(2)]
           roots == IF singly = 0 THEN <<>>
                    ELSE IF doubly = 0 THEN <<singly>> ELSE <<singly, doubly>>
<1>1. roots \in Seq(DataBlocks)
  BY RootsOfNode
<1>2. Pointers(vol, doubly) \in Seq(DataBlocks)
  BY RootsOfNode, PointersOfNode
<1>3. TreeBlocks(vol, node) = (ContentBlocks(vol, node) \o roots) \o Pointers(vol, doubly)
  BY DEF TreeBlocks
<1> HIDE DEF roots, doubly
<1>4. ContentBlocks(vol, node) \o roots \in Seq(DataBlocks)
  BY <1>1, ContentBlocksTyped, ConcatProperties
<1> QED
  BY <1>2, <1>3, <1>4, ConcatProperties

-----------------------------------------------------------------------------
\* Inodes and the counters.

LEMMA NewInodeTyped ==
  ASSUME NEW mode \in {"none", "file", "dir"}
  PROVE  NewInode(mode) \in StoredNodes
  BY DEF NewInode, StoredNodes

LEMMA FreeInode ==
  ASSUME NEW vol \in Volumes
  PROVE  allocate_node(vol) \in Inodes \cup {0}
<1> DEFINE free == {i \in Inodes \ vol.inode_bitmap :
                      vol.bg_free_inodes_count[inode_to_bgd(i)] # 0}
<1>1. free \subseteq Inodes /\ free \subseteq Nat
  BY DEF Inodes
<1>2. free # {} => Min(free) \in free
  BY <1>1, MinIn
<1> QED
  BY <1>1, <1>2 DEF allocate_node

LEMMA SyncNodeTyped ==
  ASSUME NEW vol \in Volumes, NEW node \in StoredNodes, NEW i \in Inodes
  PROVE  sync_node(vol, node, i) \in Volumes
<1> DEFINE marked == vol.inode_bitmap \cup {i}
           table == [vol.inode_table EXCEPT ![i] = node]
           count == [vol.bg_free_inodes_count EXCEPT ![inode_to_bgd(i)] = (@ - 1) % UINT16]
<1>1. marked \in SUBSET Inodes /\ table \in [Inodes -> StoredNodes]
  BY VolumeParts
<1>2. count \in Counters
  BY VolumeParts, CounterMoved
<1>3. sync_node(vol, node, i) =
        [vol EXCEPT !.inode_bitmap = marked, !.inode_table = table, !.bg_free_inodes_count = count]
  BY DEF sync_node, Volumes
<1> HIDE DEF marked, table, count
<1> QED
  BY <1>1, <1>2, <1>3 DEF Volumes

LEMMA DeallocateTyped ==
  ASSUME NEW vol \in Volumes, NEW i \in Inodes \cup {0}
  PROVE  deallocate_node(vol, i) \in Volumes
<1>1. CASE i = 0
  BY <1>1 DEF deallocate_node
<1>2. CASE i # 0
  <2> DEFINE freed == TreeBlocks(vol, vol.inode_table[i])
             freedIn(g) == Cardinality({k \in DOMAIN freed : block_to_bgd(freed[k]) = g})
             marked == vol.block_bitmap \ ToSet(freed)
             nodes == vol.inode_bitmap \ {i}
             blocks == [g \in Groups |-> (vol.bg_free_blocks_count[g] + freedIn(g)) % UINT16]
             inodes == [vol.bg_free_inodes_count EXCEPT ![inode_to_bgd(i)] = (@ + 1) % UINT16]
  <2>1. freed \in Seq(DataBlocks)
    BY <1>2, VolumeParts, TreeBlocksTyped
  <2>2. marked \in {m \in SUBSET Blocks : Tables \subseteq m}
    <3>1. ToSet(freed) \subseteq DataBlocks
      BY <2>1 DEF ToSet
    <3> QED
      BY <3>1, VolumeParts DEF DataBlocks
  <2>3. blocks \in Counters
    <3>1. ASSUME NEW g \in Groups
          PROVE  (vol.bg_free_blocks_count[g] + freedIn(g)) % UINT16 \in 0 .. (UINT16 - 1)
      <4>1. DOMAIN freed = 1 .. Len(freed) /\ Len(freed) \in Nat
        BY <2>1, LenProperties
      <4>2. IsFiniteSet(1 .. Len(freed))
        BY <4>1, FS_Interval
      <4>3. IsFiniteSet({k \in DOMAIN freed : block_to_bgd(freed[k]) = g})
        BY <4>1, <4>2, FS_Subset
      <4>4. freedIn(g) \in Nat
        BY <4>3, FS_CardinalityType
      <4>5. vol.bg_free_blocks_count[g] \in Nat
        BY VolumeParts, Parameters DEF Counters
      <4> HIDE DEF freedIn
      <4> QED
        BY <4>4, <4>5, CounterWraps
    <3> HIDE DEF freedIn
    <3> QED
      BY <3>1 DEF Counters
  <2>4. inodes \in Counters
    BY VolumeParts, CounterMoved
  <2>5. deallocate_node(vol, i) =
          [vol EXCEPT !.block_bitmap = marked, !.inode_bitmap = nodes,
                      !.bg_free_blocks_count = blocks, !.bg_free_inodes_count = inodes]
    BY <1>2 DEF deallocate_node, Volumes
  <2>6. nodes \in SUBSET Inodes
    BY VolumeParts
  <2> HIDE DEF marked, nodes, blocks, inodes
  <2> QED
    BY <2>2, <2>3, <2>4, <2>5, <2>6 DEF Volumes
<1> QED
  BY <1>1, <1>2

LEMMA DescriptorsTyped ==
  ASSUME NEW vol \in Volumes
  PROVE  update_bgdt(vol) \in Volumes /\ load_bgdt(vol) \in Volumes
  BY DEF update_bgdt, load_bgdt, Volumes

-----------------------------------------------------------------------------
\* Directories: a list of entries, of whatever kind, keeps to its blocks.

LEMMA DivisionBelow ==
  ASSUME NEW a \in Nat, NEW n \in Nat, NEW c \in Nat, c > 0, a < n * c
  PROVE  a \div c \in 0 .. (n - 1) /\ a % c \in 0 .. (c - 1)
<1> DEFINE q == a \div c
           r == a % c
<1>1. q \in Nat /\ r \in 0 .. (c - 1) /\ a = q * c + r
  OBVIOUS
<1> HIDE DEF q, r
<1>2. ~ (n <= q)
  BY <1>1, TimesMonotonic
<1>3. q \in 0 .. (n - 1) /\ r \in 0 .. (c - 1)
  BY <1>1, <1>2
<1> QED
  BY <1>3 DEF q, r

LEMMA EntryAtTyped ==
  ASSUME NEW vol \in Volumes, NEW blocks \in Seq(DataBlocks), NEW a \in Addresses(blocks)
  PROVE  a \in Nat /\ EntryAt(vol, blocks, a) \in Entries
<1>1. Len(blocks) \in Nat /\ \A k \in 1 .. Len(blocks) : blocks[k] \in DataBlocks
  BY LenProperties
<1>2. a \in Nat /\ a < Len(blocks) * BLOCK_SIZE
  BY <1>1, Parameters, TimesMonotonic DEF Addresses
<1>3. a \div BLOCK_SIZE \in 0 .. (Len(blocks) - 1) /\ Offset(a) \in 0 .. (BLOCK_SIZE - 1)
  BY <1>1, <1>2, Parameters, DivisionBelow DEF Offset
<1>4. a \div BLOCK_SIZE + 1 \in 1 .. Len(blocks)
  BY <1>1, <1>3
<1>5. vol.blocks[BlockAt(blocks, a)] \in BlockRecords
  BY <1>1, <1>4, VolumeParts DEF BlockAt, DataBlocks
<1> QED
  BY <1>2, <1>3, <1>5 DEF EntryAt, BlockRecords

\* Storing an entry; an address that lies in no block changes nothing.
LEMMA SetEntryTyped ==
  ASSUME NEW vol \in Volumes, NEW blocks, NEW a, NEW entry \in Entries
  PROVE  SetEntry(vol, blocks, a, entry) \in Volumes
<1> DEFINE p == BlockAt(blocks, a)
           old == vol.blocks[p]
           content == [old EXCEPT !.entries = [old.entries EXCEPT ![Offset(a)] = entry]]
<1>1. p \in Blocks => content \in BlockRecords
  <2>1. SUFFICES ASSUME p \in Blocks PROVE content \in BlockRecords
    OBVIOUS
  <2>2. old \in BlockRecords
    BY <2>1, VolumeParts
  <2> HIDE DEF old
  <2>3. [old.entries EXCEPT ![Offset(a)] = entry] \in [0 .. (BLOCK_SIZE - 1) -> Entries]
    BY <2>2 DEF BlockRecords
  <2> QED
    BY <2>2, <2>3 DEF BlockRecords
<1>2. SetEntry(vol, blocks, a, entry) = [vol EXCEPT !.blocks[p] = content]
  BY DEF SetEntry
<1> HIDE DEF content, old, p
<1> QED
  BY <1>1, <1>2, StoreTyped

Links == [at : Nat, entry : Entries]

\* The recursive function of ChainIn exists, since every step of the list leads
\* to a higher address, and what it computes is a sequence of links.
LEMMA ChainInTyped ==
  ASSUME NEW vol \in Volumes, NEW blocks \in Seq(DataBlocks)
  PROVE  ChainIn(vol, blocks) \in Seq(Links)
<1> DEFINE size == Len(blocks) * BLOCK_SIZE
           e(a) == EntryAt(vol, blocks, a)
           link(a) == [at |-> a, entry |-> e(a)]
           next(a, g) == IF a \notin Addresses(blocks) THEN <<>>
                         ELSE IF e(a).rec_len = 0 THEN <<link(a)>>
                         ELSE <<link(a)>> \o g[a + e(a).rec_len]
           inModel(a, g) == IF a \notin Addresses(blocks) THEN <<>>
                            ELSE Only({IF x.rec_len = 0 THEN <<[at |-> a, entry |-> x]>>
                                       ELSE <<[at |-> a, entry |-> x]>> \o g[a + x.rec_len] :
                                         x \in {EntryAt(vol, blocks, a)}})
           from == CHOOSE f : f = [a \in Nat |-> inModel(a, f)]
           Lists == [Nat -> Seq(Links)]
<1>1. ChainIn(vol, blocks) = from[0]
  BY DEF ChainIn
<1>2. size \in Nat /\ Addresses(blocks) = 0 .. (size - 1)
  BY LenProperties, Parameters, TimesMonotonic DEF Addresses
<1>3. ASSUME NEW a, NEW g PROVE inModel(a, g) = next(a, g)
  <2> DEFINE taken(x) == IF x.rec_len = 0 THEN <<[at |-> a, entry |-> x]>>
                         ELSE <<[at |-> a, entry |-> x]>> \o g[a + x.rec_len]
  <2>1. {taken(x) : x \in {e(a)}} = {taken(e(a))}
    OBVIOUS
  <2>2. Only({taken(x) : x \in {e(a)}}) = taken(e(a))
    BY <2>1, OnlyIn
  <2> QED
    BY <2>2
<1>4. ASSUME NEW a \in Addresses(blocks)
      PROVE  a \in Nat /\ e(a).rec_len \in Nat /\ a + e(a).rec_len \in Nat /\ link(a) \in Links
  <2>1. a \in Nat /\ e(a) \in Entries
    BY EntryAtTyped
  <2> HIDE DEF e
  <2>2. e(a).rec_len \in Nat
    BY <2>1 DEF Entries
  <2>3. link(a) \in Links
    BY <2>1 DEF Links
  <2> QED
    BY <2>1, <2>2, <2>3
<1> HIDE DEF size, e, link, inModel
<1>5. ASSUME NEW a \in Nat, NEW g,
             (a \in Addresses(blocks) /\ e(a).rec_len # 0) => (g[a + e(a).rec_len] \in Seq(Links))
      PROVE  next(a, g) \in Seq(Links)
  <2>1. ASSUME a \in Addresses(blocks) PROVE <<link(a)>> \in Seq(Links)
    BY <1>4, <2>1
  <2> QED
    BY <1>5, <2>1, ConcatProperties
<1>6. ASSUME NEW a, NEW g, NEW h,
             (a \in Addresses(blocks) /\ e(a).rec_len # 0) =>
               (g[a + e(a).rec_len] = h[a + e(a).rec_len])
      PROVE  next(a, g) = next(a, h)
  BY <1>6
<1>7. ASSUME NEW a \in Nat, NEW k \in Nat, a + (k + 1) >= size,
             a \in Addresses(blocks), e(a).rec_len # 0
      PROVE  a + e(a).rec_len \in Nat /\ (a + e(a).rec_len) + k >= size
  BY <1>2, <1>4, <1>7
<1>8. ASSUME NEW a \in Nat, a >= size, NEW g PROVE next(a, g) = <<>>
  BY <1>2, <1>8
<1> HIDE DEF next, Lists
<1> DEFINE base == [a \in Nat |-> <<>>]
           step == [x \in (1 .. size + 1) \X Lists |-> [a \in Nat |-> next(a, x[2])]]
<1>9. ASSUME NEW k \in 1 .. size + 1, NEW g \in Lists
      PROVE  step[<<k, g>>] = [a \in Nat |-> next(a, g)] /\ step[<<k, g>>] \in Lists
  <2>1. \A a \in Nat : next(a, g) \in Seq(Links)
    BY <1>4, <1>5 DEF Lists
  <2> QED
    BY <2>1 DEF Lists
<1>10. base \in Lists
  BY DEF Lists
<1> HIDE DEF base, step
<1>11. PICK h \in [0 .. size + 1 -> Lists] : Follows(h, size + 1, base, step)
  <2>1. Stays(step, size + 1, Lists)
    BY <1>9 DEF Stays
  <2>2. size + 1 \in Nat
    BY <1>2
  <2> QED
    BY <1>10, <2>1, <2>2, Recursion
<1>12. ASSUME NEW k \in 0 .. size
       PROVE  h[k + 1] = [a \in Nat |-> next(a, h[k])]
  <2>1. k + 1 \in 1 .. size + 1 /\ (k + 1) - 1 = k /\ k \in 0 .. size + 1
    BY <1>2
  <2>2. h[k] \in Lists
    BY <1>11, <2>1
  <2>3. h[k + 1] = step[<<k + 1, h[k]>>]
    BY <1>11, <2>1 DEF Follows
  <2> QED
    BY <1>9, <2>1, <2>2, <2>3
<1> DEFINE Settled == {k \in Nat : k <= size =>
                         \A a \in Nat : a + k >= size => h[k + 1][a] = h[k][a]}
<1>13. 0 \in Settled
  <2>1. \A a \in Nat : h[0][a] = <<>>
    BY <1>11 DEF Follows, base
  <2>2. 0 \in 0 .. size
    BY <1>2
  <2>3. ASSUME NEW a \in Nat, a >= size PROVE h[0 + 1][a] = <<>>
    <3>1. h[0 + 1][a] = next(a, h[0])
      BY <1>12, <2>2
    <3> QED
      BY <1>8, <2>3, <3>1
  <2> QED
    BY <2>1, <2>3
<1>14. ASSUME NEW k \in Nat, k \in Settled PROVE k + 1 \in Settled
  <2>1. SUFFICES ASSUME k + 1 <= size, NEW a \in Nat, a + (k + 1) >= size
                 PROVE  h[(k + 1) + 1][a] = h[k + 1][a]
    OBVIOUS
  <2>2. k \in 0 .. size /\ k + 1 \in 0 .. size /\ k <= size
    BY <1>2, <2>1
  <2>3. h[(k + 1) + 1][a] = next(a, h[k + 1]) /\ h[k + 1][a] = next(a, h[k])
    BY <1>12, <2>2
  <2>4. ASSUME a \in Addresses(blocks), e(a).rec_len # 0
        PROVE  h[k + 1][a + e(a).rec_len] = h[k][a + e(a).rec_len]
    BY <1>7, <1>14, <2>1, <2>2, <2>4
  <2> QED
    BY <1>6, <2>3, <2>4
<1> HIDE DEF Settled
<1>15. size \in Settled
  BY <1>2, <1>13, <1>14, Induction
<1>16. h[size] = [a \in Nat |-> inModel(a, h[size])]
  <2>1. size \in 0 .. size /\ size \in 0 .. size + 1
    BY <1>2
  <2>2. h[size] = [a \in Nat |-> h[size][a]]
    BY <1>11, <2>1 DEF Lists
  <2>3. ASSUME NEW a \in Nat PROVE h[size][a] = inModel(a, h[size])
    <3>1. a + size >= size
      BY <1>2
    <3>2. h[size + 1][a] = h[size][a]
      BY <1>2, <1>15, <3>1 DEF Settled
    <3> QED
      BY <1>3, <1>12, <2>1, <3>2
  <2> QED
    BY <2>2, <2>3
<1>17. from = [a \in Nat |-> inModel(a, from)]
  BY <1>16
<1> HIDE DEF from
<1>18. \A a \in Nat : from[a] = next(a, from)
  BY <1>3, <1>17
<1> DEFINE Good == {k \in Nat : \A a \in Nat : a + k >= size => from[a] \in Seq(Links)}
<1>19. 0 \in Good
  <2>1. ASSUME NEW a \in Nat, a + 0 >= size PROVE from[a] \in Seq(Links)
    <3>1. a >= size
      BY <1>2, <2>1
    <3>2. from[a] = <<>>
      BY <1>8, <1>18, <3>1
    <3> QED
      BY <3>2
  <2> QED
    BY <2>1
<1>20. ASSUME NEW k \in Nat, k \in Good PROVE k + 1 \in Good
  <2>1. SUFFICES ASSUME NEW a \in Nat, a + (k + 1) >= size PROVE from[a] \in Seq(Links)
    OBVIOUS
  <2>2. ASSUME a \in Addresses(blocks), e(a).rec_len # 0
        PROVE  from[a + e(a).rec_len] \in Seq(Links)
    BY <1>7, <1>20, <2>1, <2>2
  <2> QED
    BY <1>5, <1>18, <2>2
<1> HIDE DEF Good
<1>21. size \in Good
  BY <1>2, <1>19, <1>20, Induction
<1>22. 0 + size >= size
  BY <1>2
<1> QED
  BY <1>1, <1>21, <1>22 DEF Good

LEMMA ChainTyped ==
  ASSUME NEW vol \in Volumes, NEW node \in StoredNodes
  PROVE  Chain(vol, node) \in Seq(Links)
<1>1. Chain(vol, node) = ChainIn(vol, ContentBlocks(vol, node))
  BY OnlyIn DEF Chain
<1> QED
  BY <1>1, ContentBlocksTyped, ChainInTyped

NamedEntries == {e \in Entries : e.inode # 0}

\* A name is looked up to an entry that names an inode, or to none.
LEMMA LookupTyped ==
  ASSUME NEW chain \in Seq(Links), NEW name, NEW type
  PROVE  Lookup(chain, name, type) \in NamedEntries \cup {ZeroEntry}
<1> DEFINE hits == {c \in ToSet(chain) : correct_request_entry(c.entry, name, type)}
           first == CHOOSE c \in hits : \A d \in hits : c.at <= d.at
<1>1. \A c \in hits : c \in Links /\ c.entry.inode # 0
  BY DEF ToSet, correct_request_entry
<1>2. CASE hits # {}
  <2>1. {c.at : c \in hits} \subseteq Nat /\ {c.at : c \in hits} # {}
    BY <1>1, <1>2 DEF Links
  <2>2. PICK m \in {c.at : c \in hits} : \A n \in {c.at : c \in hits} : m <= n
    BY <2>1, Least
  <2> HIDE DEF hits
  <2>3. first \in hits
    BY <2>2
  <2>4. first.entry \in NamedEntries
    BY <1>1, <2>3 DEF Links, NamedEntries
  <2> QED
    BY <1>2, <2>4 DEF Lookup, hits
<1>3. CASE hits = {}
  BY <1>3 DEF Lookup
<1> QED
  BY <1>2, <1>3

\* What adding an entry leaves.
Additions == [code : {-1, 0, 1, 2}, vol : Volumes, node : StoredNodes, entry : NamedEntries]

LEMMA AppendEntryTyped ==
  ASSUME NEW vol \in Volumes, NEW node \in StoredNodes, NEW entry \in NamedEntries,
         NEW end \in Links
  PROVE  AppendEntry(vol, node, entry, end) \in Additions
<1> DEFINE blocks == ContentBlocks(vol, node)
           linked(v, rec_len) == SetEntry(v, blocks, end.at, [end.entry EXCEPT !.rec_len = rec_len])
           inside == [code |-> 0, node |-> node, entry |-> entry,
                      vol |-> SetEntry(linked(vol, 1), blocks, end.at + 1, entry)]
           content == [ZeroBlock EXCEPT !.entries[0] = entry]
           far == BLOCK_SIZE - Offset(end.at)
           grow(x) ==
             IF x.block = 0 THEN [code |-> 2, vol |-> x.vol, node |-> x.node, entry |-> entry]
             ELSE [code |-> 1, node |-> x.node, entry |-> entry,
                   vol |-> [linked(x.vol, far) EXCEPT !.blocks[x.block] = content]]
           more == allocate_additional_block(vol, node, block_to_bgd(node.i_block[1]))
<1>1. AppendEntry(vol, node, entry, end) =
        IF Offset(end.at) + 2 <= BLOCK_SIZE THEN inside ELSE Only({grow(x) : x \in {more}})
  BY DEF AppendEntry
<1>2. more \in Results
  BY AdditionalBlockTyped
<1>3. far \in Nat
  <2>1. end.at \in Nat
    BY DEF Links
  <2>2. end.at % BLOCK_SIZE \in 0 .. (BLOCK_SIZE - 1)
    BY <2>1, Parameters
  <2> QED
    BY <2>2, Parameters DEF Offset
<1>4. entry \in Entries
  BY DEF NamedEntries
<1>5. ASSUME NEW v \in Volumes, NEW d \in Nat PROVE linked(v, d) \in Volumes
  <2>1. [end.entry EXCEPT !.rec_len = d] \in Entries
    BY DEF Links, Entries
  <2> QED
    BY <2>1, SetEntryTyped
<1>6. content \in BlockRecords
  BY <1>4, ZeroBlockTyped DEF BlockRecords
<1> HIDE DEF blocks, linked, content, far, more
<1>7. inside \in Additions
  BY <1>4, <1>5, SetEntryTyped DEF Additions
<1>8. ASSUME NEW x \in Results PROVE grow(x) \in Additions
  BY <1>3, <1>5, <1>6, StoreTyped DEF Results, Additions
<1> HIDE DEF grow, inside
<1>9. Only({grow(x) : x \in {more}}) = grow(more)
  BY OnlyIn
<1> QED
  BY <1>1, <1>2, <1>7, <1>8, <1>9

LEMMA AddEntryTyped ==
  ASSUME NEW vol \in Volumes, NEW node \in StoredNodes, NEW entry \in NamedEntries
  PROVE  add_directory_entry(vol, node, entry) \in Additions
<1> DEFINE add(chain, old) ==
             IF old # ZeroEntry THEN [code |-> 2, vol |-> vol, node |-> node, entry |-> old]
             ELSE IF RunsOut(chain) THEN [code |-> -1, vol |-> vol, node |-> node, entry |-> entry]
             ELSE AppendEntry(vol, node, entry, Last(chain))
           into(chain) == add(chain, Lookup(chain, entry.name, entry.file_type))
<1>1. add_directory_entry(vol, node, entry) = Only({into(chain) : chain \in {Chain(vol, node)}})
  BY DEF add_directory_entry
<1>2. ASSUME NEW chain \in Seq(Links), NEW old \in NamedEntries \cup {ZeroEntry}
      PROVE  add(chain, old) \in Additions
  <2>1. ASSUME ~ RunsOut(chain) PROVE Last(chain) \in Links
    <3>1. chain # << >>
      BY <2>1 DEF RunsOut
    <3>2. Len(chain) \in 1 .. Len(chain)
      BY <3>1, EmptySeq, LenProperties
    <3> QED
      BY <3>2, ElementOfSeq DEF Last
  <2> QED
    BY <2>1, AppendEntryTyped DEF Additions
<1> HIDE DEF add
<1>3. into(Chain(vol, node)) \in Additions
  BY <1>2, ChainTyped, LookupTyped
<1> HIDE DEF into
<1>4. Only({into(chain) : chain \in {Chain(vol, node)}}) = into(Chain(vol, node))
  BY OnlyIn
<1> QED
  BY <1>1, <1>3, <1>4

LEMMA UnlinkTyped ==
  ASSUME NEW vol \in Volumes, NEW blocks, NEW prev \in Links, NEW deleted \in Links
  PROVE  Unlink(vol, blocks, prev, deleted) \in Volumes
<1> DEFINE home == prev.at - Offset(prev.at)
           seen == EntryAt(vol, blocks, home + Offset(deleted.at))
           rec_len == IF seen.rec_len = 0 THEN 0 ELSE prev.entry.rec_len + deleted.entry.rec_len
           unused == SetEntry(vol, blocks, deleted.at, [deleted.entry EXCEPT !.inode = 0])
<1>1. Unlink(vol, blocks, prev, deleted) =
        SetEntry(unused, blocks, prev.at, [prev.entry EXCEPT !.rec_len = rec_len])
  BY DEF Unlink
<1>2. rec_len \in Nat
  <2>1. prev.entry.rec_len \in Nat /\ deleted.entry.rec_len \in Nat
    BY DEF Links, Entries
  <2> HIDE DEF seen
  <2> QED
    BY <2>1
<1>3. [deleted.entry EXCEPT !.inode = 0] \in Entries
  BY DEF Links, Entries
<1>4. unused \in Volumes
  BY <1>3, SetEntryTyped
<1> HIDE DEF rec_len, unused
<1>5. [prev.entry EXCEPT !.rec_len = rec_len] \in Entries
  BY <1>2 DEF Links, Entries
<1> QED
  BY <1>1, <1>4, <1>5, SetEntryTyped

\* What deleting an entry leaves; the inode is what the entry named.
Removals == [code : {0, 1, 2}, vol : Volumes, inode : Inodes \cup {0}]

LEMMA DeleteEntryTyped ==
  ASSUME NEW vol \in Volumes, NEW node \in StoredNodes, NEW name, NEW type
  PROVE  delete_directory_entry(vol, node, name, type) \in Removals
<1> DEFINE hits(chain) ==
             {k \in 2 .. Len(chain) :
                /\ correct_request_entry(chain[k].entry, name, type)
                /\ Offset(chain[k].at) + chain[k].entry.rec_len < BLOCK_SIZE}
           remove(prev, deleted) ==
             IF type = "dir" /\ ~is_directory_empty(vol, deleted.entry.inode)
             THEN [code |-> 2, vol |-> vol, inode |-> 0]
             ELSE [code |-> 0, vol |-> Unlink(vol, ContentBlocks(vol, node), prev, deleted),
                   inode |-> deleted.entry.inode]
           search(chain) ==
             IF hits(chain) = {} THEN [code |-> 1, vol |-> vol, inode |-> 0]
             ELSE remove(chain[Min(hits(chain)) - 1], chain[Min(hits(chain))])
<1>1. delete_directory_entry(vol, node, name, type) =
        Only({search(chain) : chain \in {Chain(vol, node)}})
  BY DEF delete_directory_entry
<1>2. ASSUME NEW prev \in Links, NEW deleted \in Links PROVE remove(prev, deleted) \in Removals
  BY UnlinkTyped DEF Removals, Links, Entries
<1>3. ASSUME NEW chain \in Seq(Links), hits(chain) # {}
      PROVE  chain[Min(hits(chain)) - 1] \in Links /\ chain[Min(hits(chain))] \in Links
  <2> DEFINE m == Min(hits(chain))
  <2>1. hits(chain) \subseteq 2 .. Len(chain) /\ Len(chain) \in Nat
    BY LenProperties
  <2> HIDE DEF hits
  <2>2. m \in 2 .. Len(chain)
    BY <1>3, <2>1, MinIn
  <2> HIDE DEF m
  <2>3. m - 1 \in 1 .. Len(chain) /\ m \in 1 .. Len(chain)
    BY <2>1, <2>2
  <2> QED
    BY <2>3, ElementOfSeq DEF m
<1> HIDE DEF hits, remove
<1>4. search(Chain(vol, node)) \in Removals
  BY <1>2, <1>3, ChainTyped DEF Removals
<1> HIDE DEF search
<1>5. Only({search(chain) : chain \in {Chain(vol, node)}}) = search(Chain(vol, node))
  BY OnlyIn
<1> QED
  BY <1>1, <1>4, <1>5

-----------------------------------------------------------------------------
\* The calls.

LEMMA DirectoryTableTyped ==
  ASSUME NEW i \in Inodes, NEW parent \in Inodes
  PROVE  init_directory_table(i, parent) \in BlockRecords
<1> DEFINE dot(name, inode, rec_len) ==
             [inode |-> inode, rec_len |-> rec_len, name |-> name, file_type |-> "dir"]
<1>1. dot(".", i, 1) \in Entries /\ dot("..", parent, 0) \in Entries
  BY DEF Entries
<1>2. init_directory_table(i, parent) =
        [ZeroBlock EXCEPT !.entries[0] = dot(".", i, 1), !.entries[1] = dot("..", parent, 0)]
  BY DEF init_directory_table
<1> HIDE DEF dot
<1> DEFINE entries == [ZeroBlock.entries EXCEPT ![0] = dot(".", i, 1), ![1] = dot("..", parent, 0)]
<1>3. entries \in [0 .. (BLOCK_SIZE - 1) -> Entries]
  BY <1>1, ZeroBlockTyped DEF BlockRecords
<1>4. init_directory_table(i, parent) = [ZeroBlock EXCEPT !.entries = entries]
  BY <1>2 DEF ZeroBlock
<1> HIDE DEF entries
<1> QED
  BY <1>3, <1>4, ZeroBlockTyped DEF BlockRecords

LEMMA ContentsTyped ==
  ASSUME NEW data \in Buffers \cup {<<>>}
  PROVE  [k \in DOMAIN data |-> DataBlock(data[k])] \in Seq(BlockRecords)
<1>1. data \in Seq(STRING)
  <2>1. CASE data \in Buffers
    BY <2>1, Ext2Assumption
  <2>2. CASE data = <<>>
    BY <2>2, EmptySeq
  <2> QED
    BY <2>1, <2>2
<1>2. DOMAIN data = 1 .. Len(data) /\ Len(data) \in Nat
  BY <1>1, LenProperties
<1>3. ASSUME NEW k \in DOMAIN data PROVE DataBlock(data[k]) \in BlockRecords
  <2>1. data \in Buffers
    BY <1>2, <1>3
  <2>2. data[k] \in Tokens
    <3>1. data[k] \in ToSet(data)
      BY DEF ToSet
    <3> QED
      BY <2>1, <3>1 DEF Tokens
  <2> QED
    BY <2>2, ZeroBlockTyped DEF DataBlock, BlockRecords
<1> QED
  BY <1>2, <1>3, IsASeq

LEMMA WriteNodeTyped ==
  ASSUME NEW parent \in Inodes, NEW type \in {"file", "dir"}, NEW data \in Buffers \cup {<<>>},
         NEW add \in Additions
  PROVE  WriteNode(parent, type, data, add).vol \in Volumes
<1> DEFINE target == add.entry.inode
           emptied == IF add.code = 2
                      THEN [vol |-> deallocate_node(add.vol, target),
                            node |-> [add.vol.inode_table[target] EXCEPT
                                        !.i_block = NewInode(type).i_block]]
                      ELSE [vol |-> add.vol, node |-> NewInode(type)]
           contents == IF type = "dir" THEN <<init_directory_table(target, parent)>>
                       ELSE [k \in DOMAIN data |-> DataBlock(data[k])]
           preferred == inode_to_bgd(IF type = "dir" THEN target ELSE parent)
           sync(w) == sync_node(sync_node(w.vol, w.node, target), add.node, parent)
           written == allocate_node_blocks(emptied.vol, emptied.node, preferred, contents)
<1>1. WriteNode(parent, type, data, add).vol
        = Only({update_bgdt(sync(w)) : w \in {written}})
  BY DEF WriteNode
<1>2. target \in Inodes /\ add.vol \in Volumes /\ add.node \in StoredNodes
  BY DEF Additions, NamedEntries, Entries
<1> HIDE DEF target
<1>3. emptied.vol \in Volumes /\ emptied.node \in StoredNodes
  <2>1. NewInode(type) \in StoredNodes
    BY NewInodeTyped
  <2>2. deallocate_node(add.vol, target) \in Volumes
    BY <1>2, DeallocateTyped
  <2>3. [add.vol.inode_table[target] EXCEPT !.i_block = NewInode(type).i_block] \in StoredNodes
    <3>1. add.vol.inode_table[target] \in StoredNodes
      BY <1>2, VolumeParts
    <3> QED
      BY <2>1, <3>1 DEF StoredNodes
  <2> QED
    BY <1>2, <2>1, <2>2, <2>3
<1>4. contents \in Seq(BlockRecords)
  BY <1>2, DirectoryTableTyped, ContentsTyped
<1> HIDE DEF emptied, contents
<1>5. written \in Writings
  BY <1>3, <1>4, NodeBlocksTyped
<1>6. \A w \in Writings : update_bgdt(sync(w)) \in Volumes
  <2>1. ASSUME NEW w \in Writings PROVE sync(w) \in Volumes
    BY <1>2, SyncNodeTyped DEF Writings
  <2> HIDE DEF sync
  <2> QED
    BY <2>1, DescriptorsTyped
<1> HIDE DEF sync, written
<1>7. Only({update_bgdt(sync(w)) : w \in {written}}) = update_bgdt(sync(written))
  BY OnlyIn
<1> QED
  BY <1>1, <1>5, <1>6, <1>7

\* Whatever becomes of a write, it leaves a volume.
LEMMA WriteTyped ==
  ASSUME NEW vol \in Volumes, NEW parent \in Inodes, NEW name \in Names,
         NEW type \in {"file", "dir"}, NEW data \in Buffers \cup {<<>>}
  PROVE  write(vol, parent, name, type, data).vol \in Volumes
<1> DEFINE node == vol.inode_table[parent]
           free == allocate_node(vol)
           entry == [inode |-> free, rec_len |-> 0, name |-> name, file_type |-> type]
           finish(x) ==
             IF x.code = -1 THEN [code |-> -1, vol |-> vol]
             ELSE IF x.code = 2 /\ type = "dir" THEN [code |-> 1, vol |-> x.vol]
             ELSE WriteNode(parent, type, data, x)
           add == add_directory_entry(vol, node, entry)
<1>1. write(vol, parent, name, type, data) =
        IF node.i_mode # "dir" THEN [code |-> 2, vol |-> vol]
        ELSE IF ~exists_n_free_blocks(vol, Len(data)) \/ free = 0 THEN [code |-> -1, vol |-> vol]
        ELSE Only({finish(x) : x \in {add}})
  BY DEF write
<1>2. node \in StoredNodes
  BY VolumeParts
<1>3. ASSUME free # 0 PROVE add \in Additions
  <2>1. free \in Inodes
    BY <1>3, FreeInode
  <2>2. entry \in NamedEntries
    BY <1>3, <2>1 DEF NamedEntries, Entries
  <2> HIDE DEF entry
  <2> QED
    BY <1>2, <2>2, AddEntryTyped
<1>4. ASSUME NEW x \in Additions PROVE finish(x).vol \in Volumes
  BY WriteNodeTyped DEF Additions
<1> HIDE DEF node, free, finish, add
<1>5. Only({finish(x) : x \in {add}}) = finish(add)
  BY OnlyIn
<1> QED
  BY <1>1, <1>3, <1>4, <1>5

LEMMA DeleteTyped ==
  ASSUME NEW vol \in Volumes, NEW parent \in Inodes, NEW name, NEW type
  PROVE  delete(vol, parent, name, type).vol \in Volumes
<1> DEFINE node == vol.inode_table[parent]
           finish(x) ==
             IF x.code # 0 THEN [code |-> x.code, vol |-> vol]
             ELSE [code |-> 0, vol |-> update_bgdt(deallocate_node(x.vol, x.inode))]
           removal == delete_directory_entry(vol, node, name, type)
<1>1. delete(vol, parent, name, type) =
        IF node.i_mode # "dir" THEN [code |-> 3, vol |-> vol]
        ELSE Only({finish(x) : x \in {removal}})
  BY DEF delete
<1>2. removal \in Removals
  BY VolumeParts, DeleteEntryTyped
<1>3. ASSUME NEW x \in Removals PROVE finish(x).vol \in Volumes
  BY DeallocateTyped, DescriptorsTyped DEF Removals
<1> HIDE DEF node, finish, removal
<1>4. Only({finish(x) : x \in {removal}}) = finish(removal)
  BY OnlyIn
<1> QED
  BY <1>1, <1>2, <1>3, <1>4

-----------------------------------------------------------------------------
\* The formatted volume.

LEMMA RootIsInode ==
  RootInode \in Inodes
<1>1. INODES_PER_GROUP <= GROUPS_COUNT * INODES_PER_GROUP
  <2>1. 1 * INODES_PER_GROUP <= GROUPS_COUNT * INODES_PER_GROUP
    BY Parameters, TimesMonotonic
  <2>2. 1 * INODES_PER_GROUP = INODES_PER_GROUP
    BY Parameters
  <2> QED
    BY <2>1, <2>2
<1>2. GROUPS_COUNT * INODES_PER_GROUP \in Nat
  BY Parameters, TimesMonotonic
<1> QED
  BY <1>1, <1>2, Parameters DEF RootInode, Inodes

LEMMA EmptyTyped ==
  EmptyVolume \in Volumes
<1> DEFINE blocks == [g \in Groups |-> Cardinality(BlocksOf(g) \ Tables)]
           inodes == [g \in Groups |-> INODES_PER_GROUP]
<1>1. ASSUME NEW g \in Groups PROVE Cardinality(BlocksOf(g) \ Tables) \in 0 .. (UINT16 - 1)
  <2> DEFINE low == g * BLOCKS_PER_GROUP
             high == (g + 1) * BLOCKS_PER_GROUP - 1
  <2>1. g \in Nat /\ low \in Nat
    BY Parameters, TimesMonotonic DEF Groups
  <2>2. high = low + BLOCKS_PER_GROUP - 1
    BY <2>1, Parameters
  <2> HIDE DEF low, high
  <2>3. Cardinality(low .. high) = BLOCKS_PER_GROUP
    BY <2>1, <2>2, FS_Interval, Parameters
  <2>4. IsFiniteSet(low .. high)
    BY <2>1, <2>2, FS_Interval, Parameters
  <2>5. BlocksOf(g) = low .. high
    BY DEF BlocksOf, low, high
  <2>6. /\ Cardinality(BlocksOf(g) \ Tables) \in Nat
        /\ Cardinality(BlocksOf(g) \ Tables) <= BLOCKS_PER_GROUP
    BY <2>3, <2>4, <2>5, FS_Subset, FS_CardinalityType
  <2> QED
    BY <2>6, Parameters
<1>2. blocks \in Counters
  BY <1>1 DEF Counters
<1>3. inodes \in Counters
  BY Parameters DEF Counters
<1>4. [i \in Inodes |-> NewInode("none")] \in [Inodes -> StoredNodes]
  BY NewInodeTyped
<1>5. [b \in Blocks |-> ZeroBlock] \in [Blocks -> BlockRecords]
  BY ZeroBlockTyped
<1>6. EmptyVolume =
        [block_bitmap |-> Tables, inode_bitmap |-> {},
         inode_table |-> [i \in Inodes |-> NewInode("none")],
         blocks |-> [b \in Blocks |-> ZeroBlock],
         bg_free_blocks_count |-> blocks, bg_free_inodes_count |-> inodes,
         bgdt |-> [blocks |-> blocks, inodes |-> inodes]]
  BY DEF EmptyVolume, VolumeWith
<1> HIDE DEF blocks, inodes
<1> QED
  BY <1>2, <1>3, <1>4, <1>5, <1>6, TablesInBlocks DEF Volumes

LEMMA FormattedTyped ==
  FormattedVolume \in Volumes
<1> DEFINE stored == update_bgdt(sync_node(EmptyVolume, NewInode("dir"), RootInode))
           contents == <<init_directory_table(RootInode, RootInode)>>
           root == allocate_node_blocks(stored, NewInode("dir"), 0, contents)
<1>1. FormattedVolume = sync_node(root.vol, root.node, RootInode)
  BY DEF FormattedVolume
<1>2. stored \in Volumes
  BY EmptyTyped, NewInodeTyped, RootIsInode, SyncNodeTyped, DescriptorsTyped
<1>3. contents \in Seq(BlockRecords)
  BY RootIsInode, DirectoryTableTyped
<1> HIDE DEF stored, contents
<1>4. root \in Writings
  BY <1>2, <1>3, NewInodeTyped, NodeBlocksTyped
<1> HIDE DEF root
<1> QED
  BY <1>1, <1>4, RootIsInode, SyncNodeTyped DEF Writings

-----------------------------------------------------------------------------
\* The invariant: every volume that a program can bring about is well formed,
\* whatever it writes and deletes, in whatever order, and whenever the machine
\* restarts between calls.
THEOREM VolumeInvariance ==
  Spec => []IInv
<1>1. Init => IInv
  BY FormattedTyped DEF Init, IInv
<1>2. IInv /\ [Next]_vars => IInv'
  <2>1. SUFFICES ASSUME IInv, [Next]_vars PROVE IInv'
    OBVIOUS
  <2>2. ASSUME NEW i \in LiveDirectories, NEW name \in Names, NEW data \in Buffers,
               WriteFile(i, name, data)
        PROVE  IInv'
    BY <2>1, <2>2, WriteTyped DEF IInv, WriteFile, LiveDirectories
  <2>3. ASSUME NEW i \in LiveDirectories, NEW name \in Names, MakeDirectory(i, name)
        PROVE  IInv'
    BY <2>1, <2>3, WriteTyped DEF IInv, MakeDirectory, LiveDirectories
  <2>4. ASSUME NEW i \in LiveDirectories, NEW name \in Names, NEW type \in {"file", "dir"},
               Delete(i, name, type)
        PROVE  IInv'
    BY <2>1, <2>4, DeleteTyped DEF IInv, Delete, LiveDirectories
  <2>5. CASE Restart
    BY <2>1, <2>5, DescriptorsTyped DEF IInv, Restart
  <2>6. CASE UNCHANGED vars
    BY <2>1, <2>6 DEF IInv, vars
  <2> QED
    BY <2>1, <2>2, <2>3, <2>4, <2>5, <2>6 DEF Next
<1> QED
  BY <1>1, <1>2, PTL DEF Spec

\* The volume is well formed (Ext2.TypeOK; ext2.h: the structures on the disk).
THEOREM TypeCorrectness ==
  Spec => []TypeOK
  BY VolumeInvariance, IInvImplies, PTL

\* Nothing that is written or freed can reach the blocks of the file system's own
\* tables (create_ext2, find_free_in_bgd, deallocate_block).
THEOREM TablesStayReserved ==
  Spec => []TablesReserved
  BY VolumeInvariance, IInvImplies, PTL
=============================================================================
