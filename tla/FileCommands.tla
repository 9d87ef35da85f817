---------------------------- MODULE FileCommands ----------------------------
(***************************************************************************)
(* What the commands of a shell promise: a tree of directories and files,  *)
(* a current directory in it, and commands that each change what they name *)
(* and nothing else.  A command may also fail and change nothing.          *)
(***************************************************************************)
EXTENDS Naturals, Sequences, SequencesExt

CONSTANTS
  Names,    \* names of files and directories
  Contents  \* what a file can hold

VARIABLES
  tree,     \* dirs: paths of the directories; files: <<directory, name, content>>
  cwd       \* path of the current directory

Below(p, set) == {q \in set : IsPrefix(p, q)}
FilesBelow(p, t) == {f \in t.files : IsPrefix(p, f[1])}

\* What is not below a directory, and what is right in it.
Outside(p, t) == [dirs |-> t.dirs \ Below(p, t.dirs), files |-> t.files \ FilesBelow(p, t)]
Inside(p, t) ==
  [dirs |-> {n \in Names : Append(p, n) \in t.dirs},
   files |-> {<<f[2], f[3]>> : f \in {g \in t.files : g[1] = p}}]

\* Some or all of what is below p is gone.
Gone(p, t, u) ==
  /\ u.dirs \subseteq t.dirs /\ t.dirs \ u.dirs \subseteq Below(p, t.dirs)
  /\ u.files \subseteq t.files /\ t.files \ u.files \subseteq FilesBelow(p, t)

At(d, name, t) == {f \in t.files : f[1] = d /\ f[2] = name}

\* The tree a session may start with: every parent is there.
IsTree(t) ==
  /\ <<>> \in t.dirs
  /\ \A d \in t.dirs \ {<<>>} : Front(d) \in t.dirs
  /\ \A f \in t.files : f[1] \in t.dirs /\ f[2] \in Names /\ f[3] \in Contents

Init == IsTree(tree) /\ cwd = <<>>

-----------------------------------------------------------------------------
\* Each is a relation between the tree before, t, and the tree after, u.

MakeDirectory(name, t, u) ==
  u = [t EXCEPT !.dirs = @ \cup {Append(cwd, name)}]

\* A file goes before a directory of its name; a directory goes with all that
\* is in it, or stays with what could not be removed.
RemoveEntry(name, t, u) ==
  IF At(cwd, name, t) # {} THEN u = [t EXCEPT !.files = @ \ At(cwd, name, t)]
  ELSE Gone(Append(cwd, name), t, u)

\* The file f appears in d under a name, in the place of one that was there.
CopyFile(f, d, name, t, u) ==
  u = [t EXCEPT !.files = (@ \ At(d, name, t)) \cup {<<d, name, f[3]>>}]

\* A new directory holds the files of s, and directories with the names of those
\* in s.  What these hold is not promised: it is not copied.
CopyDirectory(s, d, name, t, u) ==
  LET p == Append(d, name)
  IN  /\ p \notin t.dirs /\ p \in u.dirs
      /\ Outside(p, u) = t
      /\ Inside(p, u) = Inside(s, [t EXCEPT !.dirs = @ \cup {p}])

\* Nothing is overwritten by a move; a directory that could not be removed stays.
MoveFile(f, d, name, t, u) ==
  /\ At(d, name, t) = {}
  /\ u = [t EXCEPT !.files = (@ \ {f}) \cup {<<d, name, f[3]>>}]

MoveDirectory(s, d, name, t, u) ==
  LET p == Append(d, name)
  IN  /\ p \notin t.dirs /\ p \in u.dirs /\ ~IsPrefix(s, p)
      /\ Gone(s, t, Outside(p, u))
      /\ Inside(p, u) = Inside(s, t)

Changes(t, u) ==
  \/ \E name \in Names : MakeDirectory(name, t, u) \/ RemoveEntry(name, t, u)
  \/ \E d \in t.dirs, name \in Names :
       \/ \E f \in t.files : CopyFile(f, d, name, t, u)
       \/ \E f \in t.files : f[1] = cwd /\ MoveFile(f, d, name, t, u)
       \/ \E s \in t.dirs : CopyDirectory(s, d, name, t, u)
       \/ \E s \in {Append(cwd, n) : n \in Names} \cap t.dirs : MoveDirectory(s, d, name, t, u)

ChangeDirectory == cwd' \in tree.dirs /\ UNCHANGED tree

ChangeTree ==
  /\ UNCHANGED cwd
  /\ \E t \in {tree}, u \in {tree'} : Changes(t, u)

Next == ChangeDirectory \/ ChangeTree

Spec == Init /\ [][Next]_<<tree, cwd>>
=============================================================================
