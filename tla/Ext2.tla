-------------------------------- MODULE Ext2 --------------------------------
(***************************************************************************)
(* The file system calls of src/src/ext2.c (system calls 0, 2, 3 and 12 of *)
(* interrupt.c) on a volume that create_ext2 has formatted, with restarts  *)
(* of the machine between calls.  A system call runs with interrupts off,  *)
(* so a call is one step.                                                  *)
(*                                                                         *)
(* Callers are assumed to name a directory that exists as the parent, and  *)
(* names other than "." and "..".                                          *)
(***************************************************************************)
EXTENDS Ext2Directory

CONSTANTS
  Names,     \* names of files and directories
  Buffers    \* what a caller writes to a file: sequences of blocks

ASSUME Ext2Assumption == Buffers \subseteq Seq(STRING)

VARIABLE volume

vars == <<volume>>

-----------------------------------------------------------------------------
\* An empty volume on which some blocks are marked.
VolumeWith(used) ==
  LET blocks == [g \in Groups |-> Cardinality(BlocksOf(g) \ used)]
      inodes == [g \in Groups |-> INODES_PER_GROUP]
  IN  [block_bitmap |-> used,
       inode_bitmap |-> {},
       inode_table |-> [i \in Inodes |-> NewInode("none")],
       blocks |-> [b \in Blocks |-> ZeroBlock],
       bg_free_blocks_count |-> blocks,
       bg_free_inodes_count |-> inodes,
       bgdt |-> [blocks |-> blocks, inodes |-> inodes]]

\* mutant: a block of the inode table is not marked
ShortVolume == VolumeWith(Tables \ {Max(Metadata(0))})

\* create_ext2: the root directory is stored twice, and the counters of the
\* second time stay in memory.
EmptyVolume == VolumeWith(Tables)

FormattedVolume ==
  LET stored == update_bgdt(sync_node(EmptyVolume, NewInode("dir"), RootInode))
      root == allocate_node_blocks(stored, NewInode("dir"), 0,
                                   <<init_directory_table(RootInode, RootInode)>>)
  IN  sync_node(root.vol, root.node, RootInode)

\* read: code 0 and the contents, or why not.
read(vol, parent, name) ==
  LET node == vol.inode_table[parent]
      load(blocks) == [code |-> 0, data |-> [k \in DOMAIN blocks |-> vol.blocks[blocks[k]].data]]
      open(entry) == IF entry = ZeroEntry THEN [code |-> 3, data |-> <<>>]
                     ELSE Only({load(blocks) : blocks \in
                                  {ContentBlocks(vol, vol.inode_table[entry.inode])}})
  IN  IF node.i_mode # "dir" THEN [code |-> 4, data |-> <<>>]
      ELSE Only({open(entry) : entry \in {find_directory_entry(vol, node, name, "file")}})

\* The second half of write, once the entry is added or found: a file that is
\* there is freed and written again under its inode.
WriteNode(parent, type, data, add) ==
  LET target == add.entry.inode
      emptied == IF add.code = 2
                 THEN [vol |-> deallocate_node(add.vol, target),
                       node |-> [add.vol.inode_table[target] EXCEPT
                                   !.i_block = NewInode(type).i_block]]
                 ELSE [vol |-> add.vol, node |-> NewInode(type)]
      contents == IF type = "dir" THEN <<init_directory_table(target, parent)>>
                  ELSE [k \in DOMAIN data |-> DataBlock(data[k])]
      preferred == inode_to_bgd(IF type = "dir" THEN target ELSE parent)
      sync(written) == sync_node(sync_node(written.vol, written.node, target), add.node, parent)
  IN  [code |-> IF add.code = 2 THEN 1 ELSE 0,
       vol |-> Only({update_bgdt(sync(written)) : written \in
                       {allocate_node_blocks(emptied.vol, emptied.node, preferred, contents)}})]

\* write: make a directory, or a file that holds data.
write(vol, parent, name, type, data) ==
  LET node == vol.inode_table[parent]
      free == allocate_node(vol)
      finish(add) ==
        IF add.code = -1 THEN [code |-> -1, vol |-> vol]
        ELSE IF add.code = 2 /\ type = "dir" THEN [code |-> 1, vol |-> add.vol]
        ELSE WriteNode(parent, type, data, add)
  IN  IF node.i_mode # "dir" THEN [code |-> 2, vol |-> vol]
      ELSE IF ~exists_n_free_blocks(vol, Len(data)) \/ free = 0 THEN [code |-> -1, vol |-> vol]
      ELSE Only({finish(add) : add \in
                   {add_directory_entry(vol, node,
                      [inode |-> free, rec_len |-> 0, name |-> name, file_type |-> type])}})

\* delete: unlink the entry, then free what it named.
delete(vol, parent, name, type) ==
  LET node == vol.inode_table[parent]
      finish(entry) ==
        IF entry.code # 0 THEN [code |-> entry.code, vol |-> vol]
        ELSE [code |-> 0, vol |-> update_bgdt(deallocate_node(entry.vol, entry.inode))]
  IN  IF node.i_mode # "dir" THEN [code |-> 3, vol |-> vol]
      ELSE Only({finish(entry) : entry \in {delete_directory_entry(vol, node, name, type)}})

-----------------------------------------------------------------------------
\* The tree below the root, as the program's own lookups see it: the pairs of
\* a path and the inode it leads to.

ChildrenOf(vol, d) ==
  {<<Append(d[1], name),
     find_directory_entry(vol, vol.inode_table[d[2]], name, "dir").inode>> : name \in Names}

DirectoriesOf(vol) ==
  LET below[d \in Seq(Names) \X Inodes] ==
        IF Len(d[1]) >= Cardinality(Inodes) THEN {d}
        ELSE {d} \cup UNION {below[c] : c \in {e \in ChildrenOf(vol, d) : e[2] # 0}}
  IN  below[<<<<>>, RootInode>>]

LiveDirectories == Inodes \cap {d[2] : d \in DirectoriesOf(volume)}

Init == volume = FormattedVolume

WriteFile(i, name, data) == volume' = write(volume, i, name, "file", data).vol

MakeDirectory(i, name) == volume' = write(volume, i, name, "dir", <<>>).vol

Delete(i, name, type) == volume' = delete(volume, i, name, type).vol

\* initialize_filesystem_ext2 on a volume that is formatted.
Restart == volume' = load_bgdt(volume)

Next ==
  \/ \E i \in LiveDirectories, name \in Names :
       \/ \E data \in Buffers : WriteFile(i, name, data)
       \/ MakeDirectory(i, name)
       \/ \E type \in {"file", "dir"} : Delete(i, name, type)
  \/ Restart

Spec == Init /\ [][Next]_vars

-----------------------------------------------------------------------------
Entries == [inode : Inodes \cup {0}, rec_len : Nat, name : Names \cup {"", ".", ".."},
            file_type : {"", "file", "dir"}]

Nodes == [i_mode : {"none", "file", "dir"}, i_size : Nat, i_block : [Slots -> Blocks]]

\* The volume is well formed (ext2.h: the structures on the disk).
TypeOK ==
  /\ volume.block_bitmap \subseteq Blocks
  /\ volume.inode_bitmap \subseteq Inodes
  /\ \A i \in Inodes : volume.inode_table[i] \in Nodes
  /\ \A b \in Blocks :
       /\ volume.blocks[b].pointers \in Seq(Blocks \ {0})
       /\ Len(volume.blocks[b].pointers) <= POINTERS_PER_BLOCK
       /\ \A o \in 0 .. (BLOCK_SIZE - 1) : volume.blocks[b].entries[o] \in Entries
  /\ volume.bg_free_blocks_count \in [Groups -> 0 .. (UINT16 - 1)]
  /\ volume.bg_free_inodes_count \in [Groups -> 0 .. (UINT16 - 1)]

\* The entries of a directory that are in use.
UsedEntries(i) ==
  LET chain == Chain(volume, volume.inode_table[i])
  IN  {<<i, chain[k].entry>> : k \in {j \in DOMAIN chain : j > 2 /\ chain[j].entry.inode # 0}}

LiveEntries == UNION {UsedEntries(i) : i \in LiveDirectories}
LiveInodes == {RootInode} \cup {e[2].inode : e \in LiveEntries}

\* Directories stay a tree of well formed lists (ext2.c: add_directory_entry,
\* delete_directory_entry): every list begins with "." and ".." that name the
\* directory and its parent, ends in its last block, and every inode in use is
\* named by one entry, of its own type, and marked in the inode bitmap.
DirectoriesSound ==
  /\ \A i \in LiveDirectories :
       LET blocks == ContentBlocks(volume, volume.inode_table[i])
           chain == Chain(volume, volume.inode_table[i])
           entry(k) == chain[k].entry
       IN  /\ ~RunsOut(chain)
           /\ BlockAt(blocks, Last(chain).at) = Last(blocks)
           /\ entry(1).name = "." /\ entry(1).inode = i
           /\ entry(2).name = ".."
           /\ i # RootInode => \E e \in UsedEntries(entry(2).inode) : e[2].inode = i
  /\ \A e, f \in LiveEntries : e # f => e[2].inode # f[2].inode
  /\ \A e \in LiveEntries : volume.inode_table[e[2].inode].i_mode = e[2].file_type
  /\ volume.inode_bitmap = LiveInodes

\* No two nodes share a block, no node holds a free one, and no block is lost
\* (ext2.c: find_free_in_bgd, deallocate_node).
BlocksSound ==
  LET trees == [i \in LiveInodes |-> TreeBlocks(volume, volume.inode_table[i])]
  IN  /\ \A i \in LiveInodes : IsInjective(trees[i])
      /\ \A i, j \in LiveInodes : i # j => ToSet(trees[i]) \cap ToSet(trees[j]) = {}
      /\ volume.block_bitmap =
           Tables \cup UNION {ToSet(trees[i]) : i \in LiveInodes}

\* The blocks that hold the file system's own tables stay marked, and no inode and
\* no pointer block, in use or stale, names one of them: nothing that is written
\* or freed, in whatever order, can reach the bitmaps and the inode table
\* (create_ext2, find_free_in_bgd, deallocate_block).
TablesReserved ==
  /\ Tables \subseteq volume.block_bitmap
  /\ \A i \in Inodes, s \in Slots : volume.inode_table[i].i_block[s] \notin Tables \ {0}
  /\ \A b \in Blocks : ToSet(volume.blocks[b].pointers) \cap Tables = {}

\* The counter find_free_in_bgd trusts before it looks at the bitmap never says
\* less than the bitmap does, and at most one block more: the root directory's,
\* which create_ext2 takes after it has stored the counters.
FreeBlocksCounted ==
  \A g \in Groups :
    volume.bg_free_blocks_count[g] - Cardinality(BlocksOf(g) \ volume.block_bitmap) \in 0 .. 1

-----------------------------------------------------------------------------
\* What a program sees through find_directory_entry and read.

FilesIn(d) ==
  {<<d[1], f[1], f[2].data>> :
     f \in {r \in {<<name, read(volume, d[2], name)>> : name \in Names} : r[2].code = 0}}

Tree == INSTANCE FileTree WITH
          Contents <- Buffers,
          directories <- {d[1] : d \in DirectoriesOf(volume)},
          files <- UNION {FilesIn(d) : d \in DirectoriesOf(volume)}

\* Whatever is written, deleted and restarted, programs see a tree of files:
\* a call changes what it names and nothing else, and a file reads back as it
\* was last written.
ImplementsFileTree == Tree!Spec

-----------------------------------------------------------------------------
\* What ext2.h says of the return codes, asked of every call that could come
\* next.  write: after "0 success" the file holds what was to be written, and "1
\* file/folder already exist" is returned for no other.  delete: "1 not found"
\* is returned for no entry that is there.
ReturnCodesTrue ==
  /\ \A i \in LiveDirectories, name \in Names, data \in Buffers :
       LET w == write(volume, i, name, "file", data)
       IN  /\ w.code = 0 => read(w.vol, i, name).data = data
           /\ w.code = 1 => read(volume, i, name).code = 0
  /\ \A e \in LiveEntries : delete(volume, e[1], e[2].name, e[2].file_type).code # 1
=============================================================================
