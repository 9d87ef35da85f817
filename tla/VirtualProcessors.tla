------------------------- MODULE VirtualProcessors --------------------------
(***************************************************************************)
(* What a program may believe of a machine that it shares: it has a        *)
(* processor to itself, which stands still while another program runs.     *)
(***************************************************************************)
CONSTANTS
  Processes,  \* the programs
  Idle        \* what runs before they do

VARIABLES
  file,       \* the registers of each program
  active      \* who has the real processor

procVars == <<file, active>>

Init == active = Idle

\* The instructions of the active program change its own registers.
Compute ==
  /\ \E p \in Processes : active = p /\ \A q \in Processes \ {p} : file'[q] = file[q]
  /\ UNCHANGED active

Switch == active' \in Processes /\ UNCHANGED file

Next == Compute \/ Switch

Spec == Init /\ [][Next]_procVars
=============================================================================
