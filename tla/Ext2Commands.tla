---------------------------- MODULE Ext2Commands ----------------------------
(***************************************************************************)
(* The system calls of src/src/ext2.c that work on paths and on whole      *)
(* directories: exist_ext2, copy_cp, move_mv and the two ways to delete a  *)
(* directory with what is in it.                                           *)
(*                                                                         *)
(* A path is a sequence of names, "." and ".." among them; where it begins *)
(* and how many slashes it has is left out, as these calls leave it out.   *)
(* Left out too are names that begin with a dot but for those two, and     *)
(* files and directories that do not fit the buffers the calls read them   *)
(* to (BUFFER_BLOCKS).  A name in a listing is taken to end where it does: *)
(* one whose length is a multiple of 4 does not, and the shell's           *)
(* delete_recur_dir then looks for a longer name than there is.            *)
(***************************************************************************)
EXTENDS Ext2

CONSTANT BUFFER_BLOCKS  \* blocks in the buffers of these calls (16)

Dots == {".", ".."}

\* The names in a listing, "" for an entry that is not in use.
get_entry_pure_name(entry) == IF entry.inode = 0 THEN "" ELSE entry.name

\* A directory as a listing.  Whoever asks for a name with a dot gets the
\* parent itself, also for "..".
read_directory(vol, parent, name) ==
  LET list(i) == LET chain == Chain(vol, vol.inode_table[i])
                 IN  [code |-> 0, entries |-> [k \in DOMAIN chain |-> chain[k].entry]]
      open(entry) ==
        IF entry = ZeroEntry THEN [code |-> 2, entries |-> <<>>]
        ELSE IF vol.inode_table[entry.inode].i_mode # "dir" THEN [code |-> 1, entries |-> <<>>]
        ELSE list(entry.inode)
  IN  IF vol.inode_table[parent].i_mode # "dir" THEN [code |-> 3, entries |-> <<>>]
      ELSE IF name \in Dots THEN list(parent)
      ELSE open(find_directory_entry(vol, vol.inode_table[parent], name, "dir"))

\* mutant: a file hides a directory of its name
FileFirst(vol, i, name, last) ==
  LET found(type) == find_directory_entry(vol, vol.inode_table[i], name, type)
  IN  IF last /\ found("file") # ZeroEntry THEN found("file") ELSE found("dir")

\* One component of a path: a directory, or, where the path ends, a file.
Component(vol, i, name, last) ==
  LET found(type) == find_directory_entry(vol, vol.inode_table[i], name, type)
  IN  Only({IF dir = ZeroEntry /\ last THEN found("file") ELSE dir : dir \in {found("dir")}})

\* Where a path leads from an inode: code 0 to a directory, 1 to a file, 2
\* nowhere, 3 through something that is not a directory.
exist_ext2(vol, parent, path) ==
  LET mode(entry) == vol.inode_table[entry.inode].i_mode
      ends(entry) == [inode |-> entry.inode,
                      code |-> CASE mode(entry) = "dir" -> 0 [] mode(entry) = "file" -> 1
                                 [] OTHER -> -1]
      walk[i \in Inodes, k \in Nat] ==
        LET follow(entry) ==
              IF entry = ZeroEntry THEN [code |-> 2, inode |-> 0]
              ELSE IF k = Len(path) THEN ends(entry)
              ELSE IF mode(entry) # "dir" THEN [code |-> 3, inode |-> 0]
              ELSE walk[entry.inode, k + 1]
        IN  Only({follow(entry) : entry \in {Component(vol, i, path[k], k = Len(path))}})
  IN  IF path = <<>> THEN [code |-> -1, inode |-> 0] ELSE walk[parent, 1]

Exists(r) == r.code \in {0, 1}

\* split_path: a single name has the parent ".".
Parent(path) == IF Len(path) = 1 THEN <<".">> ELSE Front(path)
Leaf(path) == Last(path)

-----------------------------------------------------------------------------
\* Deleting a directory, the kernel's way and the shell's way; they differ in
\* the names of a listing that are skipped.

KernelSkips == Dots
ShellSkips == Dots \cup {""}

\* What is in a directory goes first, in the order of a listing read before;
\* the directory stays if something in it does.
RECURSIVE delete_recur_dir(_, _, _, _)
delete_recur_dir(vol, parent, name, skips) ==
  LET kill(v, dir, e, child) ==
        IF e.file_type = "dir" THEN delete_recur_dir(v, dir, child, skips)
        ELSE delete(v, dir, child, "file")
      next(r, dir, e) ==
        IF get_entry_pure_name(e) \in skips \/ e.file_type \notin {"dir", "file"} THEN r
        ELSE Only({[vol |-> d.vol, all |-> r.all /\ d.code = 0] :
                     d \in {kill(r.vol, dir, e, get_entry_pure_name(e))}})
      finish(r) == IF r.all THEN delete(r.vol, parent, name, "dir")
                   ELSE [code |-> 1, vol |-> r.vol]
      children(entries) ==
        LET after[k \in Nat] ==
              IF k = 0 THEN [vol |-> vol, all |-> TRUE]
              ELSE Only({next(r, entries[1].inode, entries[k]) : r \in {after[k - 1]}})
        IN  after[Len(entries)]
      opened(listing) ==
        IF listing.code # 0 THEN [code |-> 1, vol |-> vol]
        ELSE Only({finish(r) : r \in {children(listing.entries)}})
  IN  Only({opened(listing) : listing \in {read_directory(vol, parent, name)}})

-----------------------------------------------------------------------------
\* Copying a directory.

RECURSIVE recursive_move_dir_files(_, _, _, _, _)

\* One entry of a listing, under its own name (recursive_make_dir, if it is a
\* directory).  What could not be read is written as whatever the buffer held,
\* and no result is looked at.  For a directory the listing of the new one is
\* read over that of the old one before it is used, so the copy goes on from
\* the new directory to itself.  (A deleted entry that is still in the list is
\* copied under a name of stale bytes; that is not modelled.)
CopyEntry(vol, from, to, entry) ==
  LET name == get_entry_pure_name(entry)
      bytes(n) == [k \in 1 .. n |-> "garbage"]
      contents(r) == IF entry.file_type = "dir" THEN bytes(BUFFER_BLOCKS)
                     ELSE IF r.code = 0 THEN r.data
                     ELSE bytes(vol.inode_table[entry.inode].i_size)
      again(v, i) == recursive_move_dir_files(v, from, name, i, i)
  IN  IF name = "" \/ (entry.file_type = "dir" /\ read_directory(vol, from, name).code # 0)
      THEN vol
      ELSE Only({IF entry.file_type = "file" \/ w.code # 0 THEN w.vol
                 ELSE again(w.vol, read_directory(w.vol, to, name).entries[1].inode) :
                   w \in {write(vol, to, name, entry.file_type,
                                contents(read(vol, from, name)))}})

CopyEntries(vol, from, to, list) ==
  LET after[k \in Nat] ==
        IF k = 0 THEN vol
        ELSE Only({CopyEntry(v, from, to, list[k]) : v \in {after[k - 1]}})
  IN  after[Len(list)]

\* First the files of a listing, then its directories.  The caller's listing,
\* if there is none, is an uninitialised buffer; this is what it does when the
\* buffer happens to be zero.
recursive_move_dir_files(vol, src_parent, src_name, src_dir, dest_dir) ==
  LET of(type, entries) ==
        SelectSeq(entries, LAMBDA e : get_entry_pure_name(e) \notin Dots /\ e.file_type = type)
  IN  Only({CopyEntries(vol, src_dir, dest_dir, of("file", entries) \o of("dir", entries)) :
              entries \in {read_directory(vol, src_parent, src_name).entries}})

-----------------------------------------------------------------------------
\* copy_cp: where the copy goes.  A directory that is there takes it in under
\* its own name.
CopyTarget(vol, root, source, destination) ==
  LET into(there) == IF there.code = 0 THEN there
                     ELSE exist_ext2(vol, root, Parent(destination))
      target(there, dir) ==
        [code |-> IF dir.code = 1 THEN 2 ELSE dir.code, inode |-> dir.inode,
         name |-> IF there.code = 0 THEN Leaf(source) ELSE Leaf(destination)]
  IN  Only({target(there, into(there)) : there \in {exist_ext2(vol, root, destination)}})

\* copy_cp: read what is to be copied, write it at the target, and go on with
\* what is in it.
ReadSource(vol, parent, name, src) ==
  IF src.code = 1 THEN read(vol, parent, name)
  ELSE [code |-> read_directory(vol, parent, name).code,
        data |-> [k \in 1 .. vol.inode_table[src.inode].i_size |-> "listing"]]

WriteTarget(vol, parent, name, src, target, data) ==
  LET created(v) == exist_ext2(v, target.inode, <<target.name>>)
  IN  Only({IF w.code # 0 THEN [code |-> 5, vol |-> w.vol]
            ELSE IF src.code = 1 THEN [code |-> 0, vol |-> w.vol]
            ELSE IF created(w.vol).code # 0 THEN [code |-> 6, vol |-> w.vol]
            ELSE [code |-> 0,
                  vol |-> recursive_move_dir_files(w.vol, parent, name, src.inode,
                                                   created(w.vol).inode)] :
              w \in {write(vol, target.inode, target.name,
                           IF src.code = 0 THEN "dir" ELSE "file", data)}})

CopyTo(vol, parent, name, src, target) ==
  Only({IF r.code # 0 THEN [code |-> 4, vol |-> vol]
        ELSE WriteTarget(vol, parent, name, src, target, r.data) :
          r \in {ReadSource(vol, parent, name, src)}})

copy_cp(vol, root, source, destination) ==
  LET failed(code) == [code |-> code, vol |-> vol]
      parent == exist_ext2(vol, root, Parent(source)).inode
  IN  Only({IF ~Exists(src) THEN failed(IF src.code = 2 THEN 1 ELSE src.code)
            ELSE Only({IF target.code # 0 THEN failed(target.code)
                       ELSE CopyTo(vol, parent, Leaf(source), src, target) :
                         target \in {CopyTarget(vol, root, source, destination)}}) :
              src \in {exist_ext2(vol, root, source)}})

\* Copy, then delete the source: a directory where it is, a file in root, where
\* the shell is, whatever directory the source is in.
move_mv(vol, root, source, destination) ==
  LET moved(v, src) ==
        IF src.code = 0
        THEN delete_recur_dir(v, exist_ext2(v, root, Parent(source)).inode, Leaf(source),
                              KernelSkips)
        ELSE delete(v, root, Leaf(source), "file")
      copied(c, src) ==
        IF c.code # 0 THEN c
        ELSE Only({[code |-> IF d.code = 0 THEN 0 ELSE -1, vol |-> d.vol] :
                     d \in {moved(c.vol, src)}})
  IN  Only({copied(c, exist_ext2(vol, root, source)) :
              c \in {copy_cp(vol, root, source, destination)}})
=============================================================================
