------------------------------ MODULE FileTree ------------------------------
(***************************************************************************)
(* What a file system promises: a tree of directories, named by their      *)
(* paths from the root, and in each of them files that hold what was last  *)
(* written.  There are no blocks, no inodes and no lists here.  A file and *)
(* a directory may have the same name.                                     *)
(***************************************************************************)
EXTENDS Sequences

CONSTANTS
  Names,       \* names of files and directories
  Contents     \* what a file can hold

VARIABLES
  directories, \* paths of the directories
  files        \* <<directory, name, content>> of every file

Init == directories = {<<>>} /\ files = {}

Write(d, name) ==
  /\ UNCHANGED directories
  /\ \E others \in {{f \in files : f[1] # d \/ f[2] # name}} :
       files' \in {others \cup {<<d, name, content>>} : content \in Contents}

MakeDirectory(d, name) ==
  /\ directories' = directories \cup {Append(d, name)}
  /\ UNCHANGED files

RemoveFile(f) ==
  /\ UNCHANGED directories
  /\ files' = files \ {f}

\* Only an empty directory goes.
RemoveDirectory(d) ==
  /\ d # <<>>
  /\ directories' = directories \ {d}
  /\ \A name \in Names : Append(d, name) \notin directories
  /\ \A f \in files : f[1] # d
  /\ UNCHANGED files

Next ==
  \/ \E d \in directories, name \in Names :
        MakeDirectory(d, name) \/ Write(d, name)
  \/ \E f \in files : RemoveFile(f)
  \/ \E d \in directories : RemoveDirectory(d)

Spec == Init /\ [][Next]_<<directories, files>>
=============================================================================
