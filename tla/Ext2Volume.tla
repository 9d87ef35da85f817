----------------------------- MODULE Ext2Volume -----------------------------
(***************************************************************************)
(* The volume that src/src/ext2.c keeps on the disk, and its allocators.   *)
(* A volume is a record: the two bitmaps as the sets of what is marked, the *)
(* inode table, the blocks, the two counters of each group descriptor that *)
(* the program reads, and the copy of those counters that is on the disk.  *)
(*                                                                         *)
(* Abstracted: the counters nothing reads (the superblock's, i_blocks and  *)
(* bg_used_dirs_count), the backup descriptor tables, and the byte layout. *)
(* A block of file data is one token, a pointer block the sequence of its  *)
(* nonzero pointers, a directory block an array of BLOCK_SIZE entries, all *)
(* of one length; i_size counts blocks.                                    *)
(***************************************************************************)
EXTENDS Integers, FiniteSets, SequencesExt

CONSTANTS
  GROUPS_COUNT,              \* block groups
  BLOCKS_PER_GROUP,          \* blocks, and bits of a block bitmap, per group
  INODES_PER_GROUP,          \* inodes per group
  INODES_TABLE_BLOCK_COUNT,  \* blocks an inode table takes
  DIRECT_BLOCK_COUNT,        \* direct pointers of an inode (12)
  POINTERS_PER_BLOCK,        \* pointers a pointer block holds (128)
  BLOCK_SIZE,                \* directory entries a block holds
  UINT16                     \* modulus of the uint16_t counters (65536)

ASSUME VolumeAssumption ==
  /\ {GROUPS_COUNT, INODES_TABLE_BLOCK_COUNT, DIRECT_BLOCK_COUNT} \subseteq Nat \ {0}
  /\ INODES_PER_GROUP \in Nat \ {0, 1}      \* the root is inode 2, of group 0
  /\ POINTERS_PER_BLOCK \in Nat \ {0, 1}
  /\ BLOCK_SIZE \in Nat /\ BLOCK_SIZE >= 3  \* "." and ".." leave room
  /\ BLOCKS_PER_GROUP \in Nat /\ BLOCKS_PER_GROUP > 5 + INODES_TABLE_BLOCK_COUNT
  /\ UINT16 \in Nat /\ UINT16 > BLOCKS_PER_GROUP /\ UINT16 > INODES_PER_GROUP

\* The element of a singleton: Only({F(x) : x \in {e}}) is F(e), and TLC
\* computes e once; it computes a LET in an action at each use.
Only(S) == CHOOSE x \in S : TRUE

Groups == 0 .. (GROUPS_COUNT - 1)
Blocks == 0 .. (GROUPS_COUNT * BLOCKS_PER_GROUP - 1)
Inodes == 1 .. (GROUPS_COUNT * INODES_PER_GROUP)
RootInode == 2

block_to_bgd(b) == b \div BLOCKS_PER_GROUP
inode_to_bgd(i) == (i - 1) \div INODES_PER_GROUP

BlocksOf(g) == (g * BLOCKS_PER_GROUP) .. ((g + 1) * BLOCKS_PER_GROUP - 1)

\* Signature and superblock in group 0; then in every group the descriptor
\* table, the two bitmaps and the inode table.
Metadata(g) ==
  {g * BLOCKS_PER_GROUP + k :
     k \in 0 .. ((IF g = 0 THEN 5 ELSE 3) + INODES_TABLE_BLOCK_COUNT - 1)}
Tables == UNION {Metadata(g) : g \in Groups}

-----------------------------------------------------------------------------
\* Contents of the disk.

ZeroEntry == [inode |-> 0, rec_len |-> 0, name |-> "", file_type |-> ""]
ZeroBlock ==
  [data |-> "", pointers |-> <<>>,
   entries |-> [o \in 0 .. (BLOCK_SIZE - 1) |-> ZeroEntry]]
DataBlock(token) == [ZeroBlock EXCEPT !.data = token]
PointerBlock(pointers) == [ZeroBlock EXCEPT !.pointers = pointers]

\* i_block[DIRECT_BLOCK_COUNT + 1] is the singly indirect pointer (i_block[12]
\* in C), the next the doubly indirect one; 0 is no block.  The triply indirect
\* pointer is never set.
Slots == 1 .. (DIRECT_BLOCK_COUNT + 2)
Slot(depth) == DIRECT_BLOCK_COUNT + depth
NewInode(mode) ==
  [i_mode |-> mode, i_size |-> 0, i_block |-> [s \in Slots |-> 0]]

Pointers(vol, p) == IF p = 0 THEN <<>> ELSE vol.blocks[p].pointers

\* The direct blocks of a node; the program stops at the first zero.
DirectBlocks(node) ==
  [s \in {t \in 1 .. DIRECT_BLOCK_COUNT : \A u \in 1 .. t : node.i_block[u] # 0} |->
     node.i_block[s]]

\* mutant: only the first of the pointer blocks below is read
FirstLeaf(vol, p) ==
  IF Pointers(vol, p) = <<>> THEN <<>> ELSE Pointers(vol, Head(Pointers(vol, p)))

LeavesOf(vol, p) ==
  FlattenSeq([k \in 1 .. Len(Pointers(vol, p)) |-> Pointers(vol, Pointers(vol, p)[k])])

\* The blocks of a node's contents in the order load_inode_data and
\* load_inode_next_block visit them.
ContentBlocks(vol, node) ==
  LET singly == node.i_block[Slot(1)]
  IN  DirectBlocks(node) \o
        IF singly = 0 THEN <<>>
        ELSE Pointers(vol, singly) \o LeavesOf(vol, node.i_block[Slot(2)])

\* mutant: the pointer blocks are not freed
TreeWithoutPointers(vol, node) == ContentBlocks(vol, node)

\* Those and the pointer blocks above them: what deallocate_node visits.
TreeBlocks(vol, node) ==
  LET singly == node.i_block[Slot(1)]
      doubly == node.i_block[Slot(2)]
      roots == IF singly = 0 THEN <<>> ELSE IF doubly = 0 THEN <<singly>> ELSE <<singly, doubly>>
  IN  ContentBlocks(vol, node) \o roots \o Pointers(vol, doubly)

-----------------------------------------------------------------------------
\* Blocks.

exists_n_free_blocks(vol, n) == Cardinality(Blocks \ vol.block_bitmap) >= n

\* The block find_free_in_bgd would return; 0 for none.
find_free_in_bgd(vol, g) ==
  LET free == BlocksOf(g) \ vol.block_bitmap
  IN  IF vol.bg_free_blocks_count[g] = 0 \/ free = {} THEN 0 ELSE Min(free)

find_free_anywhere(vol, preferred) ==
  LET groups == {g \in Groups : find_free_in_bgd(vol, g) # 0}
  IN  IF groups = {} THEN 0
      ELSE find_free_in_bgd(vol, IF preferred \in groups THEN preferred ELSE Min(groups))

\* mutant: the bit of a block that is handed out is not set
TakeUnmarked(vol, b) ==
  [vol EXCEPT !.bg_free_blocks_count[block_to_bgd(b)] = (@ - 1) % UINT16]

\* mutant: the counter is not changed
TakeUncounted(vol, b) == [vol EXCEPT !.block_bitmap = @ \cup {b}]

\* mutant: the counter of the first group is changed, whatever the block
TakeCountedInFirstGroup(vol, b) ==
  [vol EXCEPT !.block_bitmap = @ \cup {b}, !.bg_free_blocks_count[0] = (@ - 1) % UINT16]

\* The bit and the counter that find_free_in_bgd changes when it returns b.
TakeBlock(vol, b) ==
  [vol EXCEPT !.block_bitmap = @ \cup {b},
              !.bg_free_blocks_count[block_to_bgd(b)] = (@ - 1) % UINT16]

\* A new pointer block whose only pointer is the block of below, a record of a
\* volume and a block, and its number; the number is 0 if there is none.
NewPointerBlock(below, preferred) ==
  Only({[block |-> p,
         vol |-> IF p = 0 THEN below.vol
                 ELSE [TakeBlock(below.vol, p) EXCEPT !.blocks[p] = PointerBlock(<<below.block>>)]] :
          p \in {find_free_anywhere(below.vol, preferred)}})

\* The first block of a level: as many pointer blocks as the level is deep.
PlantTree(vol, node, preferred, b, depth) ==
  LET above(leaf) == IF depth = 1 \/ leaf.block = 0 THEN leaf ELSE NewPointerBlock(leaf, preferred)
      planted(top) ==
        IF top.block = 0 THEN [vol |-> top.vol, node |-> node, block |-> 0]
        ELSE [vol |-> top.vol, block |-> b,
              node |-> [node EXCEPT !.i_block[Slot(depth)] = top.block]]
  IN  Only({planted(top) : top \in
        {above(leaf) : leaf \in {NewPointerBlock([vol |-> vol, block |-> b], preferred)}}})

AppendPointer(vol, p, b) ==
  [vol EXCEPT !.blocks[p] = PointerBlock(Append(Pointers(vol, p), b))]

\* Another block: into the last pointer block, or into a new one; the last
\* slot of the doubly indirect block is never used, the code gives up there.
ExtendTree(vol, node, preferred, b, depth) ==
  LET root == node.i_block[Slot(depth)]
      last == IF depth = 1 THEN root ELSE Last(Pointers(vol, root))
      result(v, block) == [vol |-> v, node |-> node, block |-> block]
      grow(leaf) == IF leaf.block = 0 THEN result(vol, 0)
                    ELSE result(AppendPointer(leaf.vol, root, leaf.block), b)
  IN  IF Len(Pointers(vol, last)) < POINTERS_PER_BLOCK
      THEN result(AppendPointer(vol, last, b), b)
      ELSE IF depth = 2 /\ Len(Pointers(vol, root)) < POINTERS_PER_BLOCK - 1
      THEN Only({grow(leaf) : leaf \in {NewPointerBlock([vol |-> vol, block |-> b], preferred)}})
      ELSE result(vol, 0)

allocate_additional_indirect_block(vol, node, preferred, b, depth) ==
  IF node.i_block[Slot(depth)] = 0
  THEN PlantTree(vol, node, preferred, b, depth)
  ELSE ExtendTree(vol, node, preferred, b, depth)

\* A place in the node for a block: a direct pointer, or the first of the two
\* levels that takes it; the block stays marked if none does.
PlaceBlock(vol, node, preferred, b) ==
  LET unset == {s \in 1 .. DIRECT_BLOCK_COUNT : node.i_block[s] = 0}
      second(first) ==
        IF first.block # 0 THEN first
        ELSE allocate_additional_indirect_block(first.vol, first.node, preferred, b, 2)
  IN  IF unset # {}
      THEN [vol |-> vol, block |-> b, node |-> [node EXCEPT !.i_block[Min(unset)] = b]]
      ELSE Only({second(first) : first \in
                   {allocate_additional_indirect_block(vol, node, preferred, b, 1)}})

\* One more block for a node: the block, or 0.
allocate_additional_block(vol, node, preferred) ==
  LET add(b) == IF ~exists_n_free_blocks(vol, 4) \/ b = 0
                THEN [vol |-> vol, node |-> node, block |-> 0]
                ELSE PlaceBlock(TakeBlock(vol, b), [node EXCEPT !.i_size = @ + 1], preferred, b)
  IN  Only({add(b) : b \in {find_free_anywhere(vol, preferred)}})

\* Write contents, a sequence of blocks, as the contents of a node; the
\* first failure ends it without a word to the caller.
allocate_node_blocks(vol, node, preferred, contents) ==
  LET write(next, content) ==
        IF next.block = 0 THEN next
        ELSE [next EXCEPT !.vol.blocks[next.block] = content]
      written[k \in 0 .. Len(contents)] ==
        IF k = 0
        THEN [vol |-> vol, node |-> [node EXCEPT !.i_size = 0], stopped |-> FALSE]
        ELSE Only({IF r.stopped THEN r
                   ELSE Only({[vol |-> w.vol, node |-> w.node, stopped |-> w.block = 0] :
                                w \in {write(n, contents[k]) :
                                         n \in {allocate_additional_block(r.vol, r.node, preferred)}}}) :
                     r \in {written[k - 1]}})
  IN  written[Len(contents)]

-----------------------------------------------------------------------------
\* Inodes.

\* The first unmarked inode of a group whose counter is not 0; 0 for none.
allocate_node(vol) ==
  LET free == {i \in Inodes \ vol.inode_bitmap :
                 vol.bg_free_inodes_count[inode_to_bgd(i)] # 0}
  IN  IF free = {} THEN 0 ELSE Min(free)

\* mutant: the node goes, its blocks stay marked
FreeNodeOnly(vol, i) ==
  IF i = 0 THEN vol
  ELSE [vol EXCEPT !.inode_bitmap = @ \ {i},
                   !.bg_free_inodes_count[inode_to_bgd(i)] = (@ + 1) % UINT16]

\* Free a node's blocks and its bit; the inode table keeps the old node.
deallocate_node(vol, i) ==
  LET freed == TreeBlocks(vol, vol.inode_table[i])
      freedIn(g) == Cardinality({k \in DOMAIN freed : block_to_bgd(freed[k]) = g})
  IN  IF i = 0 THEN vol
      ELSE [vol EXCEPT
              !.block_bitmap = @ \ ToSet(freed),
              !.inode_bitmap = @ \ {i},
              !.bg_free_blocks_count =
                 [g \in Groups |-> (vol.bg_free_blocks_count[g] + freedIn(g)) % UINT16],
              !.bg_free_inodes_count[inode_to_bgd(i)] = (@ + 1) % UINT16]

\* mutant: the counter is an int
SyncUnwrapped(vol, node, i) ==
  [vol EXCEPT !.inode_bitmap = @ \cup {i},
              !.inode_table[i] = node,
              !.bg_free_inodes_count[inode_to_bgd(i)] = @ - 1]

\* Mark and store a node; the free inode counter goes down each time, also
\* for a node that was already marked.
sync_node(vol, node, i) ==
  [vol EXCEPT !.inode_bitmap = @ \cup {i},
              !.inode_table[i] = node,
              !.bg_free_inodes_count[inode_to_bgd(i)] = (@ - 1) % UINT16]

\* Copy the group descriptors to the disk, and back at boot.
update_bgdt(vol) ==
  [vol EXCEPT !.bgdt = [blocks |-> vol.bg_free_blocks_count,
                        inodes |-> vol.bg_free_inodes_count]]
load_bgdt(vol) ==
  [vol EXCEPT !.bg_free_blocks_count = vol.bgdt.blocks,
              !.bg_free_inodes_count = vol.bgdt.inodes]
=============================================================================
