------------------------------ MODULE Console -------------------------------
(***************************************************************************)
(* The keyboard and the shell that polls it (main of user-shell.c): keys   *)
(* interrupt the shell at any time, the shell takes a character when it    *)
(* gets to run.  A turn of the loop, the system call and what is done with *)
(* the character, is one step: between them the interrupt handler touches  *)
(* nothing the shell uses.                                                 *)
(***************************************************************************)
EXTENDS Keyboard, LineEditor

CONSTANT MaxRow  \* how far below the screen the cursor is followed

vars == <<keyboard_state, terminal>>

Init == KeyboardInit /\ terminal_initialize

\* When the history is full the current line lies behind the array, over the
\* counters; what keys do then is not modelled.
Tracked ==
  terminal_buffer.current_line < MAX_HISTORY /\ terminal_buffer.cursor_row <= MaxRow

MainLoop ==
  /\ keyboard_state.keyboard_buffer # None
  /\ keyboard_state' = get_keyboard_buffer
  /\ Tracked
  /\ terminal_handle_input(keyboard_state.keyboard_buffer)

Interrupt == KeyboardInterrupt /\ UNCHANGED terminal

Next == Interrupt \/ MainLoop

\* The shell is a process: the scheduler lets it run again and again
\* (EveryProcessRuns of Kernel).  Nothing is assumed of the user.
Spec == Init /\ [][Next]_vars /\ WF_vars(MainLoop)

-----------------------------------------------------------------------------
Texts == Seq(Letters \cup {Upper[k] : k \in Letters})

\* The driver's and the editor's states are well formed (keyboard.h, terminal.h).
TypeOK ==
  /\ keyboard_state \in [read_extended_mode : BOOLEAN, is_shift_pressed : BOOLEAN,
                         is_caps_lock_on : BOOLEAN, keyboard_buffer : Characters \cup {None}]
  /\ \A k \in 0 .. MAX_HISTORY :
       terminal_buffer.history[k] \in Texts /\ Len(terminal_buffer.history[k]) < MAX_LINE_LENGTH
  /\ terminal_buffer.current_line = terminal_buffer.hist_length
  /\ terminal_buffer.current_line \in 0 .. MAX_HISTORY
  /\ terminal_buffer.viewed_line \in 0 .. terminal_buffer.current_line
  /\ terminal_buffer.current_line_row \in Nat /\ terminal_buffer.cursor_row \in Nat
  /\ terminal_buffer.cursor_col \in 0 .. FRAMEBUFFER_ROW_LENGTH

\* write_path has been called: before that the editor is off by one on every
\* row but the first.
PromptPlaced == terminal_buffer.current_line_col = PromptColumn

\* Wherever arrows, wrapped rows, recalled lines, commands and cleared screens
\* have left it, the cursor stands on the line or right behind it
\* (terminal_handle_input); only a line with no room left can be overrun.
CursorOnLine ==
  PromptPlaced =>
    /\ cursor_index >= 0
    /\ Len(Line(terminal_buffer)) < MAX_LINE_LENGTH - 1 => cursor_index <= Len(Line(terminal_buffer))

Before == SubSeq(Line(terminal_buffer), 1, cursor_index)
After == SubSeq(Line(terminal_buffer), cursor_index + 1, Len(Line(terminal_buffer)))

\* Nothing is in the way of a key: the line has room, the screen too, and the
\* cursor is not parked behind the end of a row.
Ready ==
  /\ PromptPlaced
  /\ Len(Line(terminal_buffer)) < MAX_LINE_LENGTH - 1
  /\ ~AtBottom(terminal_buffer)
  /\ terminal_buffer.cursor_col < FRAMEBUFFER_ROW_LENGTH

\* A key changes the text where the cursor is, and the cursor stays with the
\* text (terminal_handle_input): a character goes in before it, backspace takes
\* out what is before it, an arrow moves it by at most one.
EditsAtCursor ==
  [][LET c == keyboard_state.keyboard_buffer
     IN  MainLoop /\ Ready =>
           /\ c \notin ControlKeys \cup Arrows => Before' = Append(Before, c) /\ After' = After
           /\ c = "backspace" => Before' = SubSeq(Before, 1, Len(Before) - 1) /\ After' = After
           /\ c \in {"left", "right"} =>
                /\ Before' \o After' = Before \o After
                /\ Len(Before') - Len(Before) \in IF c = "left" THEN {-1, 0} ELSE {0, 1}]_vars

Recent(t) == [k \in 1 .. t.current_line |-> t.history[k - 1]]

Abstract == INSTANCE CommandLine WITH
              Char <- Letters \cup {Upper[k] : k \in Letters},
              line <- Line(terminal_buffer),
              recent <- Recent(terminal_buffer),
              viewed <- terminal_buffer.viewed_line

\* On the screen or off it, what is edited is a line and a list of distinct
\* lines, the most recent last, and only Enter changes the list.
ImplementsCommandLine == Abstract!Spec

\* However fast keys interrupt it, the shell comes to read a character that is
\* in the buffer, and reads it once (get_keyboard_buffer).
KeysAreTaken == []<>(keyboard_state.keyboard_buffer = None \/ ~Tracked)
=============================================================================
