---------------------------- MODULE Ext2Directory ----------------------------
(***************************************************************************)
(* Directories of src/src/ext2.c: a linked list of entries laid over the   *)
(* blocks of a node.  Entry k of the node's block b has address            *)
(* (b - 1) * BLOCK_SIZE + k, and rec_len is the distance to the next       *)
(* address, 0 in the last entry; an entry whose inode is 0 is unused.      *)
(*                                                                         *)
(* Abstracted: all entries have one length (get_entry_record_len is 1), and *)
(* offset does not overflow its uint16_t (a directory under 128 blocks).   *)
(***************************************************************************)
EXTENDS Ext2Volume

Offset(a) == a % BLOCK_SIZE

\* In each of these, blocks is ContentBlocks of the directory's node.
Addresses(blocks) == 0 .. (Len(blocks) * BLOCK_SIZE - 1)
BlockAt(blocks, a) == blocks[a \div BLOCK_SIZE + 1]
EntryAt(vol, blocks, a) == vol.blocks[BlockAt(blocks, a)].entries[Offset(a)]
SetEntry(vol, blocks, a, entry) ==
  [vol EXCEPT !.blocks[BlockAt(blocks, a)].entries[Offset(a)] = entry]

\* The entries visited from "." on, with their addresses.  The list runs out
\* if a rec_len leads past the last block.
ChainIn(vol, blocks) ==
  LET from[a \in Nat] ==
        IF a \notin Addresses(blocks) THEN <<>>
        ELSE Only({IF e.rec_len = 0 THEN <<[at |-> a, entry |-> e]>>
                   ELSE <<[at |-> a, entry |-> e]>> \o from[a + e.rec_len] :
                     e \in {EntryAt(vol, blocks, a)}})
  IN  from[0]

Chain(vol, node) == Only({ChainIn(vol, blocks) : blocks \in {ContentBlocks(vol, node)}})

RunsOut(chain) == chain = <<>> \/ Last(chain).entry.rec_len # 0

\* mutant: a file and a directory of one name are not told apart
MatchesName(entry, name, type) == entry.inode # 0 /\ entry.name = name

correct_request_entry(entry, name, type) ==
  /\ entry.inode # 0
  /\ entry.name = name
  /\ (type = "dir") = (entry.file_type = "dir")

\* The entry of a name in a list, or ZeroEntry.
Lookup(chain, name, type) ==
  LET hits == {c \in ToSet(chain) : correct_request_entry(c.entry, name, type)}
      first == CHOOSE c \in hits : \A d \in hits : c.at <= d.at
  IN  IF hits = {} THEN ZeroEntry ELSE first.entry

find_directory_entry(vol, node, name, type) ==
  Only({Lookup(chain, name, type) : chain \in {Chain(vol, node)}})

\* mutant: ".." names the directory itself
OrphanTable(i, parent) ==
  LET dot(name, rec_len) ==
        [inode |-> i, rec_len |-> rec_len, name |-> name, file_type |-> "dir"]
  IN  [ZeroBlock EXCEPT !.entries[0] = dot(".", 1), !.entries[1] = dot("..", 0)]

\* The first block of a directory: "." and "..".
init_directory_table(i, parent) ==
  LET dot(name, inode, rec_len) ==
        [inode |-> inode, rec_len |-> rec_len, name |-> name, file_type |-> "dir"]
  IN  [ZeroBlock EXCEPT !.entries[0] = dot(".", i, 1), !.entries[1] = dot("..", parent, 0)]

\* Put a new entry at the end of the list, in a new block if the last is full.
\* The code is 0 or 1; 2 if the name is there (entry is then the one found) or
\* if there is no block; -1 if the list runs out.
AppendEntry(vol, node, entry, end) ==
  LET blocks == ContentBlocks(vol, node)
      linked(v, rec_len) == SetEntry(v, blocks, end.at, [end.entry EXCEPT !.rec_len = rec_len])
      grow(more) ==
        IF more.block = 0
        THEN [code |-> 2, vol |-> more.vol, node |-> more.node, entry |-> entry]
        ELSE [code |-> 1, node |-> more.node, entry |-> entry,
              vol |-> [linked(more.vol, BLOCK_SIZE - Offset(end.at)) EXCEPT
                         !.blocks[more.block] = [ZeroBlock EXCEPT !.entries[0] = entry]]]
  IN  IF Offset(end.at) + 2 <= BLOCK_SIZE
      THEN [code |-> 0, node |-> node, entry |-> entry,
            vol |-> SetEntry(linked(vol, 1), blocks, end.at + 1, entry)]
      ELSE Only({grow(more) : more \in
                   {allocate_additional_block(vol, node, block_to_bgd(node.i_block[1]))}})

add_directory_entry(vol, node, entry) ==
  LET add(chain, old) ==
        IF old # ZeroEntry THEN [code |-> 2, vol |-> vol, node |-> node, entry |-> old]
        ELSE IF RunsOut(chain) THEN [code |-> -1, vol |-> vol, node |-> node, entry |-> entry]
        ELSE AppendEntry(vol, node, entry, Last(chain))
  IN  Only({add(chain, Lookup(chain, entry.name, entry.file_type)) : chain \in {Chain(vol, node)}})

\* mutant: a directory is removed with what is in it
AlwaysEmpty(vol, i) == TRUE

\* The code follows an uninitialised pointer here; this is what it computes
\* when that pointer happens to lead to unused memory.
is_directory_empty(vol, i) ==
  LET entries == vol.blocks[vol.inode_table[i].i_block[1]].entries
  IN  entries[entries[0].rec_len].rec_len = 0

\* Unlink a name.  The search starts at ".." and passes over every entry that
\* ends its block.  Whether the deleted entry was the last is read, when the
\* block changed meanwhile, at the same offset of the previous block.
Unlink(vol, blocks, prev, deleted) ==
  LET home == prev.at - Offset(prev.at)
      seen == EntryAt(vol, blocks, home + Offset(deleted.at))
      rec_len == IF seen.rec_len = 0 THEN 0 ELSE prev.entry.rec_len + deleted.entry.rec_len
  IN  SetEntry(SetEntry(vol, blocks, deleted.at, [deleted.entry EXCEPT !.inode = 0]),
               blocks, prev.at, [prev.entry EXCEPT !.rec_len = rec_len])

delete_directory_entry(vol, node, name, type) ==
  LET hits(chain) ==
        {k \in 2 .. Len(chain) :
           /\ correct_request_entry(chain[k].entry, name, type)
           /\ Offset(chain[k].at) + chain[k].entry.rec_len < BLOCK_SIZE}
      remove(prev, deleted) ==
        IF type = "dir" /\ ~is_directory_empty(vol, deleted.entry.inode)
        THEN [code |-> 2, vol |-> vol, inode |-> 0]
        ELSE [code |-> 0, vol |-> Unlink(vol, ContentBlocks(vol, node), prev, deleted),
              inode |-> deleted.entry.inode]
      search(chain) ==
        IF hits(chain) = {} THEN [code |-> 1, vol |-> vol, inode |-> 0]
        ELSE remove(chain[Min(hits(chain)) - 1], chain[Min(hits(chain))])
  IN  Only({search(chain) : chain \in {Chain(vol, node)}})
=============================================================================
