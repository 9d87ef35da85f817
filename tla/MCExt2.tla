------------------------------- MODULE MCExt2 -------------------------------
(***************************************************************************)
(* Model checking of Ext2: every sequence of at most MaxCalls calls that   *)
(* change the volume.  Calls that fail change nothing and are not counted. *)
(***************************************************************************)
EXTENDS Ext2

CONSTANT MaxCalls

VARIABLE calls

MCInit == Init /\ calls = 0

Count == volume' # volume /\ calls' = calls + 1

MCWriteFile ==
  /\ calls < MaxCalls
  /\ \E i \in LiveDirectories, name \in Names, data \in Buffers : WriteFile(i, name, data)
  /\ Count

MCMakeDirectory ==
  /\ calls < MaxCalls
  /\ \E i \in LiveDirectories, name \in Names : MakeDirectory(i, name)
  /\ Count

MCDelete ==
  /\ calls < MaxCalls
  /\ \E i \in LiveDirectories, name \in Names, type \in {"file", "dir"} : Delete(i, name, type)
  /\ Count

MCRestart == calls < MaxCalls /\ Restart /\ Count

MCNext == MCWriteFile \/ MCMakeDirectory \/ MCDelete \/ MCRestart

MCSpec == MCInit /\ [][MCNext]_<<volume, calls>>

\* What is left on the disk in free blocks and free inodes is never read while
\* there is room, so states that differ only there are one state.
LiveVolume ==
  <<[volume EXCEPT
       !.blocks = [b \in Blocks |-> IF b \in volume.block_bitmap THEN volume.blocks[b]
                                    ELSE ZeroBlock],
       !.inode_table = [i \in Inodes |-> IF i \in volume.inode_bitmap
                                         THEN volume.inode_table[i] ELSE NewInode("none")]],
    calls>>

OneBuffer == {<<"x">>}

\* No block; a direct and an indirect one; up to the second doubly indirect leaf.
LongBuffers ==
  {<<>>, <<"x", "y">>, <<"x", "y", "x", "x", "y", "y", "x", "y">>}

\* On a volume with five free blocks.
TwoBlockBuffer == {<<"x", "y">>}
=============================================================================
