---------------------------- MODULE Multitasking ----------------------------
(***************************************************************************)
(* What the kernel promises its users (src/README.md: several processes    *)
(* under round-robin scheduling), with no queue, no process table and no   *)
(* interrupt: a growing set of live processes of which one runs at a time, *)
(* and every live process gets the processor again and again.              *)
(***************************************************************************)
CONSTANTS
  Processes,  \* everything that may become a process
  Idle        \* what runs before the first process does

VARIABLES
  live,       \* the processes that were started
  running     \* the process whose code the processor executes, or Idle

taskVars == <<live, running>>

Init == live = {} /\ running = Idle

Start(p) ==
  /\ p \notin live
  /\ live' = live \cup {p}
  /\ UNCHANGED running

Switch(p) ==
  /\ p \in live
  /\ running' = p
  /\ UNCHANGED live

Next == \E p \in Processes : Start(p) \/ Switch(p)

Spec == Init /\ [][Next]_taskVars

\* Round robin starves nobody: a live process always runs again.
EveryProcessRuns == \A p \in Processes : [](p \in live => <>(running = p))
=============================================================================
