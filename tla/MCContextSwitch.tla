-------------------------- MODULE MCContextSwitch ---------------------------
EXTENDS ContextSwitch

CONSTANT MaxInstructions

VARIABLE executed

MCInit == Init /\ executed = 0

MCNext ==
  \/ executed < MaxInstructions /\ executed' = executed + 1 /\ Instruction
  \/ UNCHANGED executed /\ Interrupt
  \/ UNCHANGED executed /\ Timer

MCSpec == MCInit /\ [][MCNext]_<<vars, executed>>
=============================================================================
