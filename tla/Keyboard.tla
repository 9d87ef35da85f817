------------------------------ MODULE Keyboard ------------------------------
(***************************************************************************)
(* The keyboard driver of src/src/keyboard.c: the interrupt handler that   *)
(* turns scancodes into characters, and the buffer of one character that   *)
(* system call 4 empties.  main of user-shell.c activates the driver once; *)
(* nothing deactivates it.                                                 *)
(*                                                                         *)
(* Abstracted: the control and alt flags, which nothing reads, and all but *)
(* a few keys of the two scancode tables.                                  *)
(***************************************************************************)
CONSTANTS
  Letters,  \* keys with a lower case letter: its character names the key
  Upper     \* the upper case character of each

VARIABLE keyboard_state

None == "none"   \* the character 0
Arrows == {"up", "down", "left", "right"}
ControlKeys == {"enter", "backspace"}
Characters == Letters \cup {Upper[k] : k \in Letters} \cup ControlKeys \cup Arrows

\* The bytes of the keyboard: the prefix, or a key that goes down or up.
Prefix == <<"prefix", "E0">>
Press(key) == <<"press", key>>
Release(key) == <<"release", key>>

\* What goes down and says nothing, and every key but shift that goes up, is
\* "other".  After the prefix come arrows, other keys, and the shift codes a
\* keyboard sends around an arrow when num lock is on.
Others == {Release("other")} \cup {Press("shift"), Release("shift")}
ExtendedBytes == Others \cup {Press(k) : k \in Arrows}
PlainBytes == Others \cup {Press(k) : k \in Letters \cup ControlKeys \cup {"capslock"}}

KeyboardInit ==
  keyboard_state = [read_extended_mode |-> FALSE, is_shift_pressed |-> FALSE,
                    is_caps_lock_on |-> FALSE, keyboard_buffer |-> None]

-----------------------------------------------------------------------------
\* The two tables: every release has the character 0.
keyboard_scancode_to_ascii(byte, shift, caps) ==
  LET key == byte[2]
  IN  IF byte[1] # "press" THEN None
      ELSE IF key \in Letters THEN (IF shift \/ caps THEN Upper[key] ELSE key)
      ELSE IF key \in ControlKeys THEN key ELSE None

extended_to_key(byte) == IF byte[1] = "press" /\ byte[2] \in Arrows THEN byte[2] ELSE None

\* The modifiers are read before the prefix is looked at.  Whatever the byte,
\* the buffer is overwritten: a key that goes up leaves it empty.
keyboard_isr(byte) ==
  LET st == keyboard_state
      shift == (st.is_shift_pressed \/ byte = Press("shift")) /\ byte # Release("shift")
      caps == st.is_caps_lock_on # (byte = Press("capslock"))
      ascii == IF st.read_extended_mode THEN extended_to_key(byte)
               ELSE keyboard_scancode_to_ascii(byte, shift, caps)
  IN  IF byte = Prefix THEN [st EXCEPT !.read_extended_mode = TRUE]
      ELSE [read_extended_mode |-> FALSE, is_shift_pressed |-> shift,
            is_caps_lock_on |-> caps, keyboard_buffer |-> ascii]

\* IRQ 1.
KeyboardInterrupt ==
  \E byte \in IF keyboard_state.read_extended_mode THEN ExtendedBytes
              ELSE PlainBytes \cup {Prefix} :
    keyboard_state' = keyboard_isr(byte)

\* mutant: the buffer is read and not emptied
BufferKept == keyboard_state

\* System call 4: the state after the buffer is read.
get_keyboard_buffer == [keyboard_state EXCEPT !.keyboard_buffer = None]
=============================================================================
