---------------------------- MODULE CommandLine -----------------------------
(***************************************************************************)
(* What a line editor with a history promises: a line that keys change one *)
(* character at a time, and the lines entered so far, each once, the most  *)
(* recent last, that can be brought back.  There is no screen and no       *)
(* cursor here, no array and no index of a slot.                           *)
(***************************************************************************)
EXTENDS Naturals, Sequences, SequencesExt

CONSTANT Char

VARIABLES
  line,     \* the line being edited
  recent,   \* the lines entered, without repetition
  viewed    \* how many of them are older than what is shown

Init == line = <<>> /\ recent = <<>> /\ viewed = 0

Type ==
  /\ \E at \in 1 .. Len(line) + 1, c \in Char : line' = InsertAt(line, at, c)
  /\ UNCHANGED <<recent, viewed>>

Erase ==
  /\ \E at \in 1 .. Len(line) : line' = RemoveAt(line, at)
  /\ UNCHANGED <<recent, viewed>>

Older ==
  /\ viewed > 0
  /\ viewed' = viewed - 1
  /\ line' = recent[viewed]
  /\ UNCHANGED recent

Newer ==
  /\ viewed < Len(recent)
  /\ viewed' = viewed + 1
  /\ line' = IF viewed' < Len(recent) THEN recent[viewed' + 1] ELSE <<>>
  /\ UNCHANGED recent

Enter ==
  /\ line # <<>>
  /\ recent' = Append(RemoveFirst(recent, line), line)
  /\ viewed' = Len(recent')
  /\ line' = <<>>

Next == Type \/ Erase \/ Older \/ Newer \/ Enter

Spec == Init /\ [][Next]_<<line, recent, viewed>>
=============================================================================
