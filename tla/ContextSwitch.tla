--------------------------- MODULE ContextSwitch ----------------------------
(***************************************************************************)
(* The registers, from the instruction that is interrupted to the one that *)
(* is executed next: call_generic_handler of src/src/intsetup.s lays them  *)
(* on the kernel's stack, main_interrupt_handler reads them there as a     *)
(* struct InterruptFrame, the timer copies them to a struct Context, and   *)
(* process_context_switch of src/src/context-switch.s loads them from it.  *)
(* The assembly code counts bytes where the C code uses names.             *)
(*                                                                         *)
(* A stack is a sequence of words, the top first.  Which process comes     *)
(* next is left open; Kernel says which.                                   *)
(***************************************************************************)
EXTENDS Naturals, Sequences, SequencesExt

CONSTANTS
  Processes,
  Word,       \* what programs compute with
  Zero        \* what a cleared register holds

Boot == "boot"  \* kernel_setup, which waits for the first tick

ASSUME ContextSwitchAssumption == Zero \in Word /\ Boot \notin Processes

VARIABLES
  cpu,        \* the registers of the processor
  pcb,        \* the context of each process, as the words of its struct
  running     \* the process being executed, or Boot

vars == <<cpu, pcb, running>>

\* Selectors, and what else is no word of a program.
KernelCode == "kernel code"
KernelData == "kernel data"
UserCode == "user code"
UserData == "user data"
KernelStack == "kernel stack"
StackTop == "0xBFFFFFFC"
NoError == "no error code"

Segments == {"gs", "fs", "es", "ds"}
Programmable == {"edi", "esi", "ebp", "esp", "ebx", "edx", "ecx", "eax", "eip", "eflags"}
Registers == Segments \cup Programmable \cup {"ss", "cs", "cr3"}

-----------------------------------------------------------------------------
\* The structs, as the order of their fields.
CPURegister == <<"edi", "esi", "ebp", "esp", "ebx", "edx", "ecx", "eax", "gs", "fs", "es", "ds">>
InterruptFrame == CPURegister \o <<"int_number", "error_code", "eip", "cs", "eflags">>
Context == CPURegister \o <<"eip", "eflags", "cr3">>

Field(struct, words, name) == words[CHOOSE k \in DOMAIN struct : struct[k] = name]

\* The word at a distance from the start of a stack or a struct.
Word32(words, bytes) == words[(bytes \div 4) + 1]

\* Words pushed one after the other.
Pushed(words, stack) == Reverse(words) \o stack

\* What the processor pushes.  It changes to the stack of the TSS when it
\* leaves ring 3, and only then tells where the old one was.
InterruptStack ==
  LET left == <<cpu["eflags"], cpu["cs"], cpu["eip"]>>
  IN  Pushed(IF cpu["cs"] = UserCode THEN <<cpu["ss"], cpu["esp"]>> \o left ELSE left, <<>>)

\* mutant: esp stays what pushad found
KernelStackPointer(stack) == stack

\* mutant: it goes one word too far
NextWord(stack) ==
  IF Word32(stack, 44) = KernelData THEN stack ELSE [stack EXCEPT ![5] = Word32(stack, 68)]

\* interprivilege_interrupt: two words, flags and eax, lie on the stack while
\* the data segment is looked at and esp put into the frame.
UserStackPointer(stack) ==
  LET borrowed == Pushed(<<cpu["eflags"], cpu["eax"]>>, stack)
      corrected == IF Word32(borrowed, 52) = KernelData THEN borrowed
                   ELSE [borrowed EXCEPT ![(20 \div 4) + 1] = Word32(borrowed, 76)]
  IN  SubSeq(corrected, 3, Len(corrected))

\* call_generic_handler, up to the call: the stack is the frame.
call_generic_handler(int_number) ==
  LET segments == <<cpu["ds"], cpu["es"], cpu["fs"], cpu["gs"]>>
      pushad == <<cpu["eax"], cpu["ecx"], cpu["edx"], cpu["ebx"], KernelStack,
                  cpu["ebp"], cpu["esi"], cpu["edi"]>>
  IN  UserStackPointer(Pushed(<<NoError, int_number>> \o segments \o pushad, InterruptStack))

\* call_generic_handler after the call: popad passes over esp, the number and
\* the error code are dropped, iret takes the rest, and a stack to go back to
\* only if there is one.
Returned(stack) ==
  LET iret == SubSeq(stack, 15, Len(stack))
  IN  [r \in Registers |->
         CASE r \in Segments \cup {"edi", "esi", "ebp", "ebx", "edx", "ecx", "eax"} ->
                Field(CPURegister, stack, r)
           [] r = "eip" -> iret[1]
           [] r = "cs" -> iret[2]
           [] r = "eflags" -> iret[3]
           [] r = "esp" -> IF iret[2] = UserCode THEN iret[4] ELSE cpu[r]
           [] r = "ss" -> IF iret[2] = UserCode THEN iret[5] ELSE cpu[r]
           [] r = "cr3" -> cpu[r]]

\* process_context_switch: eax is loaded from the word of edx.
process_context_switch(ctx) ==
  [r \in Registers |->
     CASE r = "edi" -> Word32(ctx, 0)
       [] r = "esi" -> Word32(ctx, 4)
       [] r = "ebp" -> Word32(ctx, 8)
       [] r = "esp" -> Word32(ctx, 12)
       [] r = "ebx" -> Word32(ctx, 16)
       [] r \in {"edx", "eax"} -> Word32(ctx, 20)
       [] r = "ecx" -> Word32(ctx, 24)
       [] r = "gs" -> Word32(ctx, 32)
       [] r = "fs" -> Word32(ctx, 36)
       [] r = "es" -> Word32(ctx, 40)
       [] r = "ds" -> Word32(ctx, 44)
       [] r = "eip" -> Word32(ctx, 48)
       [] r = "eflags" -> Word32(ctx, 52)
       [] r = "cs" -> UserCode
       [] r = "ss" -> UserData
       [] r = "cr3" -> Field(Context, ctx, r)]

\* process_create_user_process: what it does not set is zero in a slot that was
\* never used.
FirstContext(p) ==
  [k \in DOMAIN Context |->
     CASE Context[k] \in Segments -> UserData
       [] Context[k] \in {"ebp", "esp"} -> StackTop
       [] Context[k] = "cr3" -> p
       [] OTHER -> Zero]

\* kernel_setup has created the processes and enabled the timer.
Init ==
  /\ pcb = [p \in Processes |-> FirstContext(p)]
  /\ running = Boot
  /\ \E w \in Word :
       cpu = [r \in Registers |->
                CASE r \in Segments \cup {"ss"} -> KernelData
                  [] r = "cs" -> KernelCode
                  [] r = "esp" -> KernelStack
                  [] r = "cr3" -> Boot
                  [] OTHER -> w]

-----------------------------------------------------------------------------
\* An instruction of the program that runs.
Instruction ==
  /\ running # Boot
  /\ \E r \in Programmable, w \in Word : cpu' = [cpu EXCEPT ![r] = w]
  /\ UNCHANGED <<pcb, running>>

\* The keyboard, a system call: main_interrupt_handler comes back.
Interrupt ==
  /\ \E int_number \in {"keyboard"} \cup (IF running = Boot THEN {} ELSE {"syscall"}) :
       cpu' = Returned(call_generic_handler(int_number))
  /\ UNCHANGED <<pcb, running>>

\* The registers of the frame, with the directory the process had.
InterruptedContext(frame) ==
  [k \in DOMAIN Context |->
     IF Context[k] = "cr3" THEN Field(Context, pcb[running], "cr3")
     ELSE Field(InterruptFrame, frame, Context[k])]

\* The timer: save, and leave for good with the context of the next process.
\* While kernel_setup waits, the current process is a new one, which keeps the
\* context it has.
Timer ==
  /\ pcb' = IF running = Boot THEN pcb
            ELSE [pcb EXCEPT ![running] = InterruptedContext(call_generic_handler("timer"))]
  /\ \E next \in Processes :
       /\ running' = next
       /\ cpu' = process_context_switch(pcb'[next])

Next == Instruction \/ Interrupt \/ Timer

Spec == Init /\ [][Next]_vars

-----------------------------------------------------------------------------
\* The registers of a program: in the processor, or saved.
RegistersOf(p) ==
  [r \in Segments \cup Programmable \cup {"cr3"} |->
     IF running = p THEN cpu[r] ELSE Field(Context, pcb[p], r)]

Without(r, f) == [s \in DOMAIN f \ {r} |-> f[s]]

\* A program that is interrupted, and continued any number of other programs
\* later, finds its registers as they were, all but eax: what the handler's
\* pushes and the loads of process_context_switch count in bytes is what the C
\* code between them names.
Kept == INSTANCE VirtualProcessors WITH
          Idle <- Boot, active <- running,
          file <- [p \in Processes |-> Without("eax", RegistersOf(p))]
KeepsRegisters == Kept!Spec

\* The same of all registers: "Load struct Context (CPU GP-register) then
\* jump" (context-switch.s:3).
All == INSTANCE VirtualProcessors WITH
         Idle <- Boot, active <- running,
         file <- [p \in Processes |-> RegistersOf(p)]
KeepsEveryRegister == All!Spec

\* An interrupt or a system call that switches nothing gives everything back,
\* eax included, to a program and to the kernel (call_generic_handler).
ReturnsUnchanged == [][Interrupt => UNCHANGED cpu]_vars
=============================================================================
