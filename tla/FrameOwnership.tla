--------------------------- MODULE FrameOwnership ---------------------------
(***************************************************************************)
(* What a physical memory manager promises its callers, with no bitmap, no *)
(* counter and no page table: every frame is either free, held by exactly  *)
(* one owner, or abandoned.  An owner is the place a frame is mapped at.   *)
(* A frame goes from one owner to another only by being returned first.    *)
(***************************************************************************)
EXTENDS Integers

CONSTANTS
  Frames,   \* the physical frames
  Owners    \* the places a frame can be mapped at

VARIABLES
  free,     \* the frames that may be handed out
  held      \* for each owner, the frame mapped there: {} or a singleton

ownershipVars == <<free, held>>

Init == free = Frames /\ held = [o \in Owners |-> {}]

\* An owner gets a free frame; the one it had, if any, is abandoned.
Acquire(o, f) ==
  /\ f \in free
  /\ free' = free \ {f}
  /\ held' = [held EXCEPT ![o] = {f}]

Return(o) ==
  /\ free' = free \cup held[o]
  /\ held' = [held EXCEPT ![o] = {}]

\* Some owners disappear without returning their frames.
Abandon(O) ==
  /\ held' = [o \in Owners |-> IF o \in O THEN {} ELSE held[o]]
  /\ UNCHANGED free

Next ==
  \/ \E o \in Owners, f \in Frames : Acquire(o, f)
  \/ \E o \in Owners : Return(o)
  \/ \E O \in SUBSET Owners : Abandon(O)

Spec == Init /\ [][Next]_ownershipVars
=============================================================================
