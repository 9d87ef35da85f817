---------------------------- MODULE BoundedFifo -----------------------------
(***************************************************************************)
(* What the scheduler expects of its run queue: first in, first out, at    *)
(* most Capacity items, an enqueue on a full queue and a dequeue on an     *)
(* empty one refused with no effect.                                       *)
(***************************************************************************)
EXTENDS Naturals, Sequences

CONSTANTS
  Items,      \* what is queued
  Capacity    \* how many items fit

VARIABLES
  contents,   \* the queued items, oldest first
  last        \* the item the latest successful dequeue delivered, as a tuple

fifoVars == <<contents, last>>

Init == contents = <<>> /\ last = <<>>

Enqueue(x) ==
  /\ Len(contents) < Capacity
  /\ contents' = Append(contents, x)
  /\ UNCHANGED last

Dequeue ==
  /\ contents # <<>>
  /\ contents' = Tail(contents)
  /\ last' = <<Head(contents)>>

Next == (\E x \in Items : Enqueue(x)) \/ Dequeue

Spec == Init /\ [][Next]_fifoVars
=============================================================================
