------------------------------- MODULE Shell --------------------------------
(***************************************************************************)
(* The commands of src/src/user-shell.c that work on files, over the       *)
(* system calls of Ext2 and Ext2Commands.  Nothing else uses the file      *)
(* system while the shell does, so a command, with all its calls, is one   *)
(* step.                                                                   *)
(*                                                                         *)
(* Abstracted: what a command prints, and how its arguments are cut out of *)
(* the line.  Not modelled: a path of more than MAX_PATH_DEPTH levels,     *)
(* which the shell writes behind its array.                                *)
(***************************************************************************)
EXTENDS Ext2Commands

CONSTANTS
  MAX_PATH_DEPTH,  \* levels of absolute_path, with the root (8)
  Paths            \* what is given to cd and cp, and to mv as the destination

VARIABLES
  absolute_path,   \* levels 1 .. depth: names and inodes
  cwd_inode

shell == <<absolute_path, cwd_inode>>

depth == Len(absolute_path)
LevelInode(k) == IF k = 0 THEN RootInode ELSE absolute_path[k].inode_num

\* mutant: the name of the current directory is forgotten
NoName == "."

\* The name ls asks for.
cwd_name == IF depth = 0 THEN "." ELSE Last(absolute_path).name

AtRoot == absolute_path = <<>> /\ cwd_inode = RootInode

-----------------------------------------------------------------------------
\* The names of absolute_path after each component of a path.
Walk(path) ==
  LET go[k \in 0 .. Len(path)] ==
        IF k = 0 THEN [j \in 1 .. depth |-> absolute_path[j].name]
        ELSE Only({IF path[k] = "." \/ (path[k] = ".." /\ names = <<>>) THEN names
                   ELSE IF path[k] = ".." THEN Front(names)
                   ELSE Append(names, path[k]) : names \in {go[k - 1]}})
  IN  go

\* mutant: the inodes of the levels that were there are kept
UpdateLastLevel(names) ==
  [k \in DOMAIN names |->
     [name |-> names[k],
      inode_num |-> IF k <= depth THEN LevelInode(k)
                    ELSE find_directory_entry(volume, volume.inode_table[cwd_inode],
                                              names[k], "dir").inode]]

\* Every level is looked up again from the root.
updateAbsolutePath(names) ==
  LET inode[k \in 0 .. Len(names)] ==
        IF k = 0 THEN RootInode
        ELSE find_directory_entry(volume, volume.inode_table[inode[k - 1]], names[k], "dir").inode
  IN  [k \in DOMAIN names |-> [name |-> names[k], inode_num |-> inode[k]]]

\* cd without a path goes to the root.
cd(path) ==
  LET found == exist_ext2(volume, cwd_inode, path)
      names == Walk(path)
  IN  /\ UNCHANGED volume
      /\ \A k \in DOMAIN names : Len(names[k]) < MAX_PATH_DEPTH
      /\ IF path = <<>> THEN absolute_path' = <<>> /\ cwd_inode' = RootInode
         ELSE IF found.code # 0 THEN UNCHANGED shell
         ELSE absolute_path' = updateAbsolutePath(names[Len(path)]) /\ cwd_inode' = found.inode

mkdir(name) ==
  /\ volume' = write(volume, cwd_inode, name, "dir", <<>>).vol
  /\ UNCHANGED shell

\* A file of the name first, then a directory.
rm(name) ==
  LET entry(type) == find_directory_entry(volume, volume.inode_table[cwd_inode], name, type)
  IN  /\ volume' = IF entry("file") # ZeroEntry THEN delete(volume, cwd_inode, name, "file").vol
                   ELSE IF entry("dir") # ZeroEntry
                   THEN delete_recur_dir(volume, cwd_inode, name, ShellSkips).vol
                   ELSE volume
      /\ UNCHANGED shell

cp(source, destination) ==
  /\ volume' = copy_cp(volume, cwd_inode, source, destination).vol
  /\ UNCHANGED shell

mv(source, destination) ==
  /\ volume' = move_mv(volume, cwd_inode, source, destination).vol
  /\ UNCHANGED shell

\* What ls lists: the current directory, found by its name in the level above.
ls ==
  read_directory(volume, IF depth = 0 THEN RootInode ELSE LevelInode(depth - 1), cwd_name).entries

\* mutant: one entry too many is passed over
FromFourth(entries) == SubSeq(entries, 4, Len(entries))

\* "." and ".." of a listing are passed over by their place.
FromThird(entries) == SubSeq(entries, 3, Len(entries))

\* find: the paths it prints for a name, from the root.
find(name) ==
  LET search[path \in Seq(Names), i \in Inodes] ==
        UNION {(IF e.name = name THEN {Append(path, name)} ELSE {})
                 \cup (IF e.file_type = "dir" /\ e.inode # 0
                       THEN search[Append(path, e.name), e.inode] ELSE {}) :
                 e \in ToSet(FromThird(read_directory(volume, i, ".").entries))}
  IN  search[<<>>, RootInode]

\* The machine starts again, and the shell with it.
Reboot == volume' = load_bgdt(volume) /\ absolute_path' = <<>> /\ cwd_inode' = RootInode

\* A shell starts on a volume that earlier commands have filled.
CONSTANT Filled
SessionInit == volume = Filled /\ AtRoot

\* A careful session: what is removed or moved is a name in the current
\* directory, nothing is copied from "..", and nothing is moved into itself.
ChangeDirectory == \E path \in Paths : cd(path)
NewDirectory == \E name \in Names : mkdir(name)
RemoveName == \E name \in Names : rm(name)
CopyPath ==
  \E source, destination \in Paths \ {<<>>} : Leaf(source) # ".." /\ cp(source, destination)
MoveName ==
  LET reached(path) == exist_ext2(volume, cwd_inode, path)
  IN  \E name \in Names, destination \in Paths \ {<<>>} :
        /\ \A k \in DOMAIN destination :
             reached(SubSeq(destination, 1, k)) # reached(<<name>>)
        /\ mv(<<name>>, destination)

SessionNext ==
  ChangeDirectory \/ NewDirectory \/ RemoveName \/ CopyPath \/ MoveName \/ Reboot

SessionSpec == SessionInit /\ [][SessionNext]_<<volume, shell>>

-----------------------------------------------------------------------------
\* The names in the prompt lead from the root to the directory that commands
\* work on, level by level (cd, updateAbsolutePath): neither moving about nor
\* removing, moving and copying around it makes them disagree.
PathLeadsToCwd ==
  /\ \A k \in 1 .. depth :
       LET above == volume.inode_table[LevelInode(k - 1)]
       IN  find_directory_entry(volume, above, absolute_path[k].name, "dir").inode
             = LevelInode(k)
  /\ LevelInode(depth) = cwd_inode
  /\ cwd_inode \in LiveDirectories

\* ls, which looks the current directory up by its name in the directory above,
\* and in the root by ".", lists the directory commands work on.
LsListsCwd ==
  LET chain == Chain(volume, volume.inode_table[cwd_inode])
  IN  ls = [k \in DOMAIN chain |-> chain[k].entry]

FileSystem ==
  Only({[dirs |-> {d[1] : d \in dirs}, files |-> UNION {FilesIn(d) : d \in dirs}] :
          dirs \in {DirectoriesOf(volume)}})

\* find finds every file and every directory of a name, wherever it is.  (It
\* can also print an entry that was deleted and is still in a list.)
FindFindsAll ==
  \A fs \in {FileSystem}, name \in Names :
    {d \in fs.dirs : d # <<>> /\ Last(d) = name} \cup
    {Append(f[1], name) : f \in {g \in fs.files : g[2] = name}} \subseteq find(name)

Commands == INSTANCE FileCommands WITH
              Contents <- Buffers,
              tree <- FileSystem,
              cwd <- [k \in 1 .. depth |-> absolute_path[k].name]

\* Each command changes what it names, from where the prompt says the shell is,
\* and nothing else (rm, cp, mv, and what they call in ext2.c).
ImplementsFileCommands == Commands!Spec
=============================================================================
