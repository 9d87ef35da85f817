----------------------------- MODULE LineEditor -----------------------------
(***************************************************************************)
(* The line editor and the history of src/src/user-shell.c.  The line      *)
(* being edited is history[current_line]; where a key changes it follows   *)
(* from where the cursor is on the screen.                                 *)
(*                                                                         *)
(* Abstracted: what is drawn, and what a command does but for how far down *)
(* it moves the prompt and how long the path in the next prompt is.        *)
(***************************************************************************)
EXTENDS Integers, Sequences, SequencesExt

CONSTANTS
  FRAMEBUFFER_ROW_LENGTH,  \* characters in a row of the screen (80)
  FRAMEBUFFER_COL_LENGTH,  \* rows of the screen (25)
  MAX_LINE_LENGTH,         \* 1000
  MAX_HISTORY,             \* 64
  PROMPT_LENGTH,           \* the prompt, but for the path in it (22)
  PathLengths,             \* lengths of the path of a directory
  CommandRows              \* rows that the output of a command can take

ASSUME LineEditorAssumption ==
  /\ FRAMEBUFFER_ROW_LENGTH \in Nat /\ FRAMEBUFFER_COL_LENGTH \in Nat
  /\ PROMPT_LENGTH \in Nat /\ PROMPT_LENGTH + 1 <= FRAMEBUFFER_ROW_LENGTH
  /\ MAX_LINE_LENGTH \in Nat \ {0} /\ MAX_HISTORY \in Nat
  /\ PathLengths \subseteq Nat /\ CommandRows \subseteq Nat

VARIABLES terminal_buffer, filepath_len, path_length

terminal == <<terminal_buffer, filepath_len, path_length>>

\* The first prompt is one column longer than filepath_len says.
terminal_initialize ==
  /\ filepath_len = PROMPT_LENGTH
  /\ path_length = 1
  /\ terminal_buffer =
       [history |-> [k \in 0 .. MAX_HISTORY |-> <<>>],
        hist_length |-> 0, current_line |-> 0, viewed_line |-> 0,
        current_line_row |-> 0, current_line_col |-> PROMPT_LENGTH + 1,
        cursor_row |-> 0, cursor_col |-> PROMPT_LENGTH + 1]

Line(t) == t.history[t.current_line]

\* The column behind the prompt, as filepath_len has it.
PromptColumn == filepath_len % FRAMEBUFFER_ROW_LENGTH

\* Where a key goes, counted from the start of the line.
cursor_index ==
  LET t == terminal_buffer
  IN  IF t.cursor_row = t.current_line_row THEN t.cursor_col - t.current_line_col
      ELSE (t.cursor_row - t.current_line_row) * FRAMEBUFFER_ROW_LENGTH
             + t.cursor_col - PromptColumn

\* Rows that a line and the prompt before it take.
row_before_path(t) ==
  (Len(Line(t)) + PromptColumn + FRAMEBUFFER_ROW_LENGTH - 1)
    \div FRAMEBUFFER_ROW_LENGTH

max_row(t) ==
  t.current_line_row + ((t.current_line_col + Len(Line(t))) \div FRAMEBUFFER_ROW_LENGTH)
max_col(t) == (t.current_line_col + Len(Line(t))) % FRAMEBUFFER_ROW_LENGTH

\* mutant: the cursor stays where it was
CursorStays(t) == t

CursorAtEnd(t) == [t EXCEPT !.cursor_row = max_row(t), !.cursor_col = max_col(t)]

AtBottom(t) == t.cursor_row >= FRAMEBUFFER_COL_LENGTH - 1
flush(t) == [t EXCEPT !.current_line_row = -1]

\* The next prompt, rows further down, and the cursor behind it.
write_path(t, rows, length) ==
  LET prompt == PROMPT_LENGTH + length
      row == t.current_line_row + rows + (prompt \div FRAMEBUFFER_ROW_LENGTH)
      col == prompt % FRAMEBUFFER_ROW_LENGTH
  IN  [t EXCEPT !.current_line_row = row, !.current_line_col = col,
                !.cursor_row = row, !.cursor_col = col]

-----------------------------------------------------------------------------
\* terminal_handle_input, one action for each case of its switch.

\* Bring back the line before the one shown.  At the bottom of the screen the
\* prompt moves to the top first.
KeyUp ==
  LET t == terminal_buffer
      flushed == IF AtBottom(t) THEN write_path(flush(t), 1, path_length) ELSE t
      recalled == [flushed EXCEPT !.viewed_line = @ - 1,
                                  !.history[t.current_line] = t.history[t.viewed_line - 1]]
  IN  /\ terminal_buffer' = IF t.viewed_line > 0 THEN CursorAtEnd(recalled) ELSE flushed
      /\ filepath_len' = IF AtBottom(t) THEN PROMPT_LENGTH + path_length ELSE filepath_len
      /\ UNCHANGED path_length

\* The line after it; below the last there is an empty line.
KeyDown ==
  LET t == terminal_buffer
      next == t.viewed_line + 1
      shown == IF next < t.current_line THEN t.history[next] ELSE <<>>
  IN  /\ terminal_buffer' =
           IF t.viewed_line < t.current_line
           THEN CursorAtEnd([t EXCEPT !.viewed_line = next, !.history[t.current_line] = shown])
           ELSE t
      /\ UNCHANGED <<filepath_len, path_length>>

\* From the start of a row the cursor goes one past the end of the row above.
KeyLeft ==
  LET t == terminal_buffer
      first == IF t.cursor_row = t.current_line_row THEN t.current_line_col ELSE 0
  IN  /\ terminal_buffer' =
           IF t.cursor_col > first THEN [t EXCEPT !.cursor_col = @ - 1]
           ELSE IF t.cursor_row = t.current_line_row THEN t
           ELSE [t EXCEPT !.cursor_col = FRAMEBUFFER_ROW_LENGTH, !.cursor_row = @ - 1]
      /\ UNCHANGED <<filepath_len, path_length>>

OneRight(t) ==
  IF t.cursor_col + 1 >= FRAMEBUFFER_ROW_LENGTH
  THEN [t EXCEPT !.cursor_col = 0, !.cursor_row = @ + 1]
  ELSE [t EXCEPT !.cursor_col = @ + 1]

KeyRight ==
  LET t == terminal_buffer
  IN  /\ terminal_buffer' = IF t.cursor_row # max_row(t) THEN OneRight(t)
                            ELSE IF t.cursor_col < max_col(t) THEN [t EXCEPT !.cursor_col = @ + 1]
                            ELSE t
      /\ UNCHANGED <<filepath_len, path_length>>

\* mutant: the delete takes the character under the cursor
DeleteUnderCursor(line, index) ==
  IF index + 1 \in 0 .. Len(line) - 1 THEN RemoveAt(line, index + 2) ELSE line

terminal_line_delete_char(line, index) ==
  IF index \in 0 .. Len(line) - 1 THEN RemoveAt(line, index + 1) ELSE line

Backspace ==
  LET t == terminal_buffer
      deleted == [t EXCEPT !.history[t.current_line] =
                    terminal_line_delete_char(@, cursor_index - 1)]
      first == IF t.cursor_row = t.current_line_row THEN t.current_line_col ELSE 0
  IN  /\ terminal_buffer' =
           IF Line(t) = <<>> THEN t
           ELSE IF t.cursor_col > first THEN [deleted EXCEPT !.cursor_col = @ - 1]
           ELSE IF t.cursor_row = t.current_line_row THEN deleted
           ELSE [deleted EXCEPT !.cursor_col = FRAMEBUFFER_ROW_LENGTH - 1, !.cursor_row = @ - 1]
      /\ UNCHANGED <<filepath_len, path_length>>

\* mutant: a character goes in when the line is full
InsertsWhenFull(line, c, index) ==
  IF index \in 0 .. Len(line) THEN InsertAt(line, index + 1, c) ELSE line

terminal_line_insert_char(line, c, index) ==
  IF Len(line) < MAX_LINE_LENGTH - 1 /\ index \in 0 .. Len(line)
  THEN InsertAt(line, index + 1, c) ELSE line

\* A character.  At the bottom of the screen it is dropped, and the prompt and
\* the line move to the top.
TypeCharacter(c) ==
  LET t == terminal_buffer
      index == IF cursor_index > Len(Line(t)) THEN cursor_index - 1 ELSE cursor_index
      typed == [t EXCEPT !.history[t.current_line] = terminal_line_insert_char(@, c, index)]
      full == Len(Line(t)) >= MAX_LINE_LENGTH
  IN  /\ terminal_buffer' =
           IF full THEN t
           ELSE IF AtBottom(t) THEN CursorAtEnd(write_path(flush(t), 1, path_length))
           ELSE OneRight(typed)
      /\ filepath_len' = IF ~full /\ AtBottom(t) THEN PROMPT_LENGTH + path_length ELSE filepath_len
      /\ UNCHANGED path_length

-----------------------------------------------------------------------------
\* execute, for all it can do to the terminal: nothing for a blank line (and a
\* result nobody set), one row for an unknown command, any number for one that
\* is known, the top of the screen for clear; cd changes the length of the path.
execute(t) ==
  LET down(rows) == [t EXCEPT !.current_line_row = @ + rows]
      outcome(after, res, length) == [t |-> after, res |-> res, path_length |-> length]
      blank == {outcome(t, res, path_length) : res \in BOOLEAN}
      unknown == {outcome(down(row_before_path(t)), FALSE, path_length)}
      known == {outcome(down(e[1]), TRUE, e[2]) : e \in CommandRows \X PathLengths}
      clear == {outcome(flush(t), TRUE, path_length)}
  IN  IF Line(t) = <<>> THEN blank ELSE blank \cup unknown \cup known \cup clear

\* mutant: a line that was entered before is stored again
AlwaysNew(t) == {}

\* Earlier slots that hold the current line.
is_same_line(t) == {k \in 0 .. t.current_line - 1 : t.history[k] = Line(t)}

\* The line that was entered becomes the last of the history: the lines after
\* its earlier copy move down by one, or there is one line more.
add_line_to_history(t) ==
  LET n == t.current_line
      same == is_same_line(t)
      first == CHOOSE k \in same : \A j \in same : k <= j
      rotated == [k \in DOMAIN t.history |->
                    IF k = n - 1 THEN t.history[first]
                    ELSE IF k \in first .. n - 2 THEN t.history[k + 1]
                    ELSE IF k = n THEN <<>> ELSE t.history[k]]
  IN  IF Line(t) = <<>> THEN t
      ELSE IF same # {} THEN [t EXCEPT !.history = rotated, !.viewed_line = n]
      ELSE [t EXCEPT !.current_line = n + 1, !.hist_length = @ + 1,
                     !.viewed_line = n + 1, !.history[n + 1] = <<>>]

Enter ==
  LET t == terminal_buffer
      top == IF AtBottom(t) THEN flush(t) ELSE t
  IN  IF t.hist_length >= MAX_HISTORY THEN UNCHANGED terminal
      ELSE \E e \in execute(top) :
             /\ terminal_buffer' =
                  add_line_to_history(
                    write_path(e.t, IF e.res /\ ~AtBottom(t) THEN row_before_path(t) ELSE 1,
                               e.path_length))
             /\ filepath_len' = PROMPT_LENGTH + e.path_length
             /\ path_length' = e.path_length

terminal_handle_input(c) ==
  \/ c = "up" /\ KeyUp
  \/ c = "down" /\ KeyDown
  \/ c = "left" /\ KeyLeft
  \/ c = "right" /\ KeyRight
  \/ c = "enter" /\ Enter
  \/ c = "backspace" /\ Backspace
  \/ c \notin {"up", "down", "left", "right", "enter", "backspace"} /\ TypeCharacter(c)
=============================================================================
