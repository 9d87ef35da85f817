------------------------------ MODULE MCShell -------------------------------
EXTENDS Shell

CONSTANT MaxCalls

VARIABLE calls

MCVars == <<volume, shell, calls>>

\* As in MCExt2: what free blocks and free inodes hold makes no difference.
LiveVolume ==
  <<[volume EXCEPT
       !.blocks = [b \in Blocks |-> IF b \in volume.block_bitmap THEN volume.blocks[b]
                                    ELSE ZeroBlock],
       !.inode_table = [i \in Inodes |-> IF i \in volume.inode_bitmap
                                         THEN volume.inode_table[i] ELSE NewInode("none")]],
    shell, calls>>

TwoBuffers == {<<"x">>, <<"y">>}

MCPaths == {<<>>, <<".">>, <<"..">>, <<"a">>, <<"b">>, <<"a", "b">>, <<"..", "a">>}

\* /a, /b, /a/a and /a/b: two directories and two files.
MCFilled ==
  LET Dir(vol, i, name) == write(vol, i, name, "dir", <<>>).vol
      File(vol, i, name, data) == write(vol, i, name, "file", data).vol
      top == File(Dir(FormattedVolume, RootInode, "a"), RootInode, "b", <<"x">>)
      a == exist_ext2(top, RootInode, <<"a">>).inode
  IN  Dir(File(top, a, "a", <<"y">>), a, "b")

MCInit == SessionInit /\ calls = 0

Count == calls < MaxCalls /\ calls' = calls + 1

MCNext ==
  \/ Count /\ ChangeDirectory
  \/ Count /\ NewDirectory
  \/ Count /\ RemoveName
  \/ Count /\ CopyPath
  \/ Count /\ MoveName
  \/ Count /\ Reboot

MCSpec == MCInit /\ [][MCNext]_MCVars
=============================================================================
