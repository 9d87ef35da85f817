---------------------------- MODULE ConsoleProofs ----------------------------
(***************************************************************************)
(* Theorems about Console: the line editor keeps its cursor on the line,   *)
(* edits where the cursor is and keeps its history, for a screen of any    *)
(* width, lines of any length and a history of any size.                   *)
(***************************************************************************)
EXTENDS Console, SequenceTheorems, TLAPS

Chars == Letters \cup {Upper[k] : k \in Letters}

W == FRAMEBUFFER_ROW_LENGTH

-----------------------------------------------------------------------------
(* Rows and columns *)

\* Characters in a number of rows.
Cells(rows) == rows * W

LEMMA Width == W \in Nat \ {0} /\ W \in Int /\ W > 0
BY LineEditorAssumption DEF W

LEMMA CellsStep ==
  ASSUME NEW a \in Int
  PROVE  /\ Cells(a) \in Int
         /\ Cells(a + 1) = Cells(a) + W
         /\ Cells(a - 1) = Cells(a) - W
         /\ Cells(0) = 0
<1>1. W \in Int
  BY Width
<1> QED
  BY <1>1, SMTT(30) DEF Cells

\* More rows hold more characters.
LEMMA CellsGrow ==
  ASSUME NEW a \in Int, NEW b \in Int, a < b
  PROVE  Cells(a) + W <= Cells(b)
<1> DEFINE d == b - a
<1>1. d \in Int /\ d >= 1 /\ b = a + d
  OBVIOUS
<1>2. Cells(b) = Cells(a) + Cells(d)
  BY <1>1, Width, SMTT(30) DEF Cells
<1>3. Cells(d) >= W
  BY <1>1, Width, SMTT(30) DEF Cells
<1>4. Cells(a) \in Int /\ Cells(d) \in Int /\ W \in Int
  BY <1>1, CellsStep, Width
<1> HIDE DEF d
<1> QED
  BY <1>2, <1>3, <1>4

\* A place on the screen is its row and its column.
LEMMA Divided ==
  ASSUME NEW n \in Nat
  PROVE  /\ n \div W \in Nat
         /\ n % W \in 0 .. W - 1
         /\ n = Cells(n \div W) + (n % W)
BY Width, SMTT(30) DEF Cells
-----------------------------------------------------------------------------
(* The invariant *)

Buffers ==
  [history : [0 .. MAX_HISTORY -> Texts],
   hist_length : Int, current_line : Int, viewed_line : Int,
   current_line_row : Int, current_line_col : Int, cursor_row : Int, cursor_col : Int]

Drivers ==
  [read_extended_mode : BOOLEAN, is_shift_pressed : BOOLEAN,
   is_caps_lock_on : BOOLEAN, keyboard_buffer : Characters \cup {None}]

\* The lines entered fit in their slots and differ from each other.
HistoryKept(t) ==
  /\ \A k \in 0 .. MAX_HISTORY : Len(t.history[k]) < MAX_LINE_LENGTH
  /\ t.current_line = t.hist_length
  /\ t.current_line \in 0 .. MAX_HISTORY
  /\ t.viewed_line \in 0 .. t.current_line
  /\ \A j, k \in 0 .. t.current_line - 1 : t.history[j] = t.history[k] => j = k

\* The cursor is in no row above the prompt's, and not far right of the screen.
CursorBelow(t) ==
  /\ t.current_line_row \in Nat /\ t.current_line_col \in Nat
  /\ t.cursor_row >= t.current_line_row
  /\ t.cursor_col \in 0 .. W

\* How far behind the prompt the cursor is.
Position(t) ==
  Cells(t.cursor_row - t.current_line_row) + t.cursor_col - t.current_line_col

\* The cursor is behind the prompt, and no further than the line goes.
CursorFits(t) ==
  /\ t.cursor_row = t.current_line_row => t.cursor_col >= t.current_line_col
  /\ Len(Line(t)) < MAX_LINE_LENGTH - 1 => Position(t) <= Len(Line(t))

EditorInv ==
  /\ terminal_buffer \in Buffers
  /\ filepath_len \in Nat /\ path_length \in Nat
  /\ HistoryKept(terminal_buffer)
  /\ CursorBelow(terminal_buffer)
  /\ PromptPlaced => CursorFits(terminal_buffer)

IInv == keyboard_state \in Drivers /\ EditorInv

-----------------------------------------------------------------------------
(* The prompt and the end of the line *)

\* Nothing but the prompt and the cursor has moved.
SameText(t, u) ==
  /\ u.history = t.history
  /\ u.hist_length = t.hist_length
  /\ u.current_line = t.current_line
  /\ u.viewed_line = t.viewed_line

SamePrompt(t, u) ==
  /\ u.current_line_row = t.current_line_row
  /\ u.current_line_col = t.current_line_col

LEMMA LineType ==
  ASSUME NEW t \in Buffers, HistoryKept(t)
  PROVE  /\ Line(t) \in Texts /\ Len(Line(t)) \in Nat
         /\ Len(Line(t)) < MAX_LINE_LENGTH
<1>1. t.current_line \in 0 .. MAX_HISTORY /\ t.history \in [0 .. MAX_HISTORY -> Texts]
  BY DEF Buffers, HistoryKept
<1>2. Line(t) \in Texts /\ Len(Line(t)) < MAX_LINE_LENGTH
  BY <1>1 DEF HistoryKept, Line
<1>3. Texts = Seq(Chars)
  BY DEF Texts, Chars
<1> QED
  BY <1>2, <1>3, LenProperties

LEMMA SameTextKept ==
  ASSUME NEW t \in Buffers, NEW u \in Buffers, SameText(t, u)
  PROVE  Line(u) = Line(t) /\ (HistoryKept(t) => HistoryKept(u))
BY DEF SameText, HistoryKept, Line

\* A new prompt is on the screen, and the cursor right behind it.
LEMMA WritePath ==
  ASSUME NEW t \in Buffers, NEW rows \in Int, t.current_line_row + rows >= 0,
         NEW length \in Nat, HistoryKept(t)
  PROVE  LET u == write_path(t, rows, length) IN
         /\ u \in Buffers /\ SameText(t, u)
         /\ u.current_line_col = (PROMPT_LENGTH + length) % W
         /\ CursorBelow(u) /\ CursorFits(u) /\ Position(u) = 0
<1> DEFINE u == write_path(t, rows, length)
           p == PROMPT_LENGTH + length
           row == t.current_line_row + rows + (p \div W)
           col == p % W
<1>1. p \in Nat
  BY LineEditorAssumption
<1>2. p \div W \in Nat /\ col \in 0 .. W - 1 /\ W \in Nat \ {0}
  BY <1>1, Divided, Width
<1> HIDE DEF p
<1>3. row \in Nat /\ col \in Nat /\ row \in Int /\ col \in Int
  BY <1>2 DEF Buffers
<1>4. u = [t EXCEPT !.current_line_row = row, !.current_line_col = col,
                    !.cursor_row = row, !.cursor_col = col]
  BY DEF write_path, W, p
<1> HIDE DEF row, col, u
<1> DEFINE v == [t EXCEPT !.current_line_row = row, !.current_line_col = col,
                         !.cursor_row = row, !.cursor_col = col]
<1>10. v \in Buffers /\ SameText(t, v)
  BY <1>3 DEF Buffers, SameText
<1>5. u \in Buffers /\ SameText(t, u)
  BY <1>4, <1>10
<1>6. /\ u.current_line_row = row /\ u.current_line_col = col
      /\ u.cursor_row = row /\ u.cursor_col = col
  BY <1>3, <1>4 DEF Buffers, SameText
<1>7. Position(u) = 0
  <2>1. row - row = 0
    BY <1>3
  <2> QED
    BY <1>3, <1>6, <2>1, CellsStep DEF Position
<1>8. Len(Line(u)) \in Nat
  BY <1>5, LineType, SameTextKept
<1>9. CursorBelow(u) /\ CursorFits(u)
  BY <1>2, <1>3, <1>6, <1>7, <1>8 DEF CursorBelow, CursorFits, col
<1> QED
  BY <1>5, <1>6, <1>7, <1>9 DEF u, col, p

\* CursorAtEnd puts it right behind the line.
LEMMA AtEnd ==
  ASSUME NEW t \in Buffers, HistoryKept(t),
         t.current_line_row \in Nat, t.current_line_col \in Nat
  PROVE  LET u == CursorAtEnd(t) IN
         /\ u \in Buffers /\ SameText(t, u) /\ SamePrompt(t, u)
         /\ CursorBelow(u) /\ CursorFits(u) /\ Position(u) = Len(Line(t))
<1> DEFINE u == CursorAtEnd(t)
           e == t.current_line_col + Len(Line(t))
           down == e \div W
           col == e % W
<1>1. e \in Nat /\ Len(Line(t)) \in Nat
  BY LineType
<1>2. down \in Nat /\ col \in 0 .. W - 1 /\ e = Cells(down) + col /\ W \in Nat \ {0}
  BY <1>1, Divided, Width
<1>3. u = [t EXCEPT !.cursor_row = t.current_line_row + down, !.cursor_col = col]
  BY DEF CursorAtEnd, max_row, max_col, W
<1> HIDE DEF down, col, u, e
<1> DEFINE row == t.current_line_row + down
           v == [t EXCEPT !.cursor_row = row, !.cursor_col = col]
<1>14. row \in Int /\ col \in Int
  BY <1>2
<1>15. u = v
  BY <1>3
<1> HIDE DEF row
<1>13. v \in Buffers /\ SameText(t, v) /\ SamePrompt(t, v)
  BY <1>14 DEF Buffers, SameText, SamePrompt
<1>4. u \in Buffers /\ SameText(t, u) /\ SamePrompt(t, u)
  BY <1>13, <1>15
<1>5. u.cursor_row = t.current_line_row + down /\ u.cursor_col = col
  BY <1>2, <1>3 DEF Buffers
<1>6. Line(u) = Line(t)
  BY <1>4, SameTextKept
<1>7. u.cursor_row - u.current_line_row = down
  BY <1>2, <1>4, <1>5 DEF SamePrompt
<1>8. Cells(down) \in Int
  BY <1>2, CellsStep
<1>9. Position(u) = Len(Line(t))
  BY <1>1, <1>2, <1>4, <1>5, <1>7, <1>8 DEF Position, SamePrompt, e
<1>10. u.cursor_row = u.current_line_row => u.cursor_col >= u.current_line_col
  <2>1. SUFFICES ASSUME u.cursor_row = u.current_line_row
                 PROVE  u.cursor_col >= u.current_line_col
    OBVIOUS
  <2>2. down = 0
    BY <1>2, <1>4, <1>5, <2>1 DEF SamePrompt
  <2> QED
    <3>1. Cells(down) = 0
      BY <2>2, CellsStep
    <3> QED
      BY <1>1, <1>2, <1>4, <1>5, <3>1 DEF SamePrompt, e
<1>11. CursorBelow(u)
  BY <1>2, <1>4, <1>5 DEF CursorBelow, SamePrompt
<1>12. CursorFits(u)
  BY <1>1, <1>6, <1>9, <1>10 DEF CursorFits
<1> QED
  BY <1>4, <1>9, <1>11, <1>12 DEF u

-----------------------------------------------------------------------------
(* Moving the cursor *)

LEMMA CursorType ==
  ASSUME NEW t \in Buffers, CursorBelow(t)
  PROVE  /\ t.cursor_row \in Nat /\ t.cursor_row - t.current_line_row \in Nat
         /\ t.cursor_col \in Nat
         /\ Cells(t.cursor_row - t.current_line_row) \in Int
         /\ Position(t) \in Int
<1>1. /\ t.cursor_row \in Nat /\ t.cursor_row - t.current_line_row \in Nat
      /\ t.cursor_col \in Nat /\ t.current_line_col \in Nat
  BY Width DEF Buffers, CursorBelow
<1>2. Cells(t.cursor_row - t.current_line_row) \in Int
  BY <1>1, CellsStep
<1> QED
  BY <1>1, <1>2 DEF Position

\* A line of this length ends where CursorAtEnd looks for it.
LEMMA EndOfLine ==
  ASSUME NEW t \in Buffers, HistoryKept(t), CursorBelow(t)
  PROVE  LET down == max_row(t) - t.current_line_row IN
         /\ down \in Nat /\ down \in Int /\ max_row(t) \in Int
         /\ max_col(t) \in Int /\ 0 <= max_col(t) /\ max_col(t) < W
         /\ Cells(down) \in Int /\ Len(Line(t)) \in Int
         /\ Len(Line(t)) = Cells(down) + max_col(t) - t.current_line_col
<1> DEFINE e == t.current_line_col + Len(Line(t))
           d == e \div W
<1>1. e \in Nat /\ Len(Line(t)) \in Nat /\ t.current_line_row \in Nat /\ t.current_line_col \in Nat
  BY LineType DEF CursorBelow
<1>2. max_row(t) = t.current_line_row + d /\ max_col(t) = e % W
  BY DEF max_row, max_col, W
<1>3. d \in Nat /\ (e % W) \in 0 .. W - 1 /\ e = Cells(d) + (e % W)
  BY <1>1, Divided
<1>4. Cells(d) \in Int /\ (e % W) \in Int
  BY <1>3, CellsStep, Width
<1> DEFINE col == e % W
<1>6. /\ col \in 0 .. W - 1 /\ max_col(t) = col
      /\ t.current_line_col + Len(Line(t)) = Cells(d) + col
  BY <1>2, <1>3
<1> HIDE DEF d, e, col
<1>5. max_row(t) - t.current_line_row = d
  BY <1>1, <1>2, <1>3
<1>7. Len(Line(t)) = Cells(d) + col - t.current_line_col
  BY <1>1, <1>4, <1>6 DEF col
<1>8. d \in Int /\ max_row(t) \in Int
  BY <1>1, <1>2, <1>3
<1>9. max_col(t) \in Int /\ 0 <= max_col(t) /\ max_col(t) < W
  BY <1>6, Width
<1> QED
  BY <1>1, <1>3, <1>4, <1>5, <1>7, <1>6, <1>8, <1>9

\* Over the edge of the screen or not, one to the right is one further, except
\* from behind the last column.
LEMMA OneRightMoves ==
  ASSUME NEW t \in Buffers, CursorBelow(t)
  PROVE  LET u == OneRight(t) IN
         /\ u \in Buffers /\ SameText(t, u) /\ SamePrompt(t, u) /\ CursorBelow(u)
         /\ Position(u) = Position(t) + (IF t.cursor_col = W THEN 0 ELSE 1)
         /\ \/ u.cursor_row > u.current_line_row
            \/ u.cursor_row = t.cursor_row /\ u.cursor_col = t.cursor_col + 1
<1> DEFINE u == OneRight(t)
           d == t.cursor_row - t.current_line_row
<1>1. /\ t.cursor_row \in Int /\ t.cursor_col \in Int /\ t.current_line_row \in Nat
      /\ 0 <= t.cursor_col /\ t.cursor_col <= W /\ t.current_line_col \in Nat
      /\ d \in Nat /\ Cells(d) \in Int /\ W \in Int /\ W > 0
      /\ t.cursor_row = t.current_line_row + d
  BY CursorType, Width DEF CursorBelow
<1>4. Position(t) = Cells(d) + t.cursor_col - t.current_line_col
  BY DEF Position
<1>5. Cells(d + 1) = Cells(d) + W
  BY <1>1, CellsStep
<1> HIDE DEF d
<1>2. CASE t.cursor_col + 1 >= W
  <2> DEFINE row == t.cursor_row + 1
             col == 0
             v == [t EXCEPT !.cursor_col = col, !.cursor_row = row]
  <2>1. u = v
    BY <1>2 DEF OneRight, W
  <2>2. row \in Int /\ col \in Int
    BY <1>1
  <2> HIDE DEF row, col, u
  <2>3. v \in Buffers /\ SameText(t, v) /\ SamePrompt(t, v)
    BY <2>2 DEF Buffers, SameText, SamePrompt
  <2>4. v.cursor_row = row /\ v.cursor_col = col
    BY DEF Buffers
  <2> HIDE DEF v
  <2>9. v.current_line_row = t.current_line_row /\ v.current_line_col = t.current_line_col
    BY <2>3 DEF SamePrompt
  <2>5. v.cursor_row - v.current_line_row = d + 1
    BY <1>1, <2>4, <2>9 DEF row
  <2>6. Position(v) = Cells(d) + W - t.current_line_col
    BY <1>1, <1>5, <2>4, <2>5, <2>9 DEF Position, col
  <2>7. CursorBelow(v) /\ v.cursor_row > v.current_line_row
    BY <1>1, <2>4, <2>9 DEF CursorBelow, col, row
  <2>8. Position(v) = Position(t) + (IF t.cursor_col = W THEN 0 ELSE 1)
    BY <1>1, <1>2, <1>4, <2>6
  <2> QED
    BY <2>1, <2>3, <2>7, <2>8 DEF u
<1>3. CASE t.cursor_col + 1 < W
  <2> DEFINE col == t.cursor_col + 1
             v == [t EXCEPT !.cursor_col = col]
  <2>1. u = v
    BY <1>1, <1>3 DEF OneRight, W
  <2>2. col \in Int
    BY <1>1
  <2> HIDE DEF col, u
  <2>3. v \in Buffers /\ SameText(t, v) /\ SamePrompt(t, v)
    BY <2>2 DEF Buffers, SameText, SamePrompt
  <2>4. v.cursor_row = t.cursor_row /\ v.cursor_col = col
    BY DEF Buffers
  <2> HIDE DEF v
  <2>9. v.current_line_row = t.current_line_row /\ v.current_line_col = t.current_line_col
    BY <2>3 DEF SamePrompt
  <2>5. Position(v) = Position(t) + 1
    BY <1>1, <1>4, <2>4, <2>9 DEF Position, col, d
  <2>6. CursorBelow(v)
    BY <1>1, <1>3, <2>4, <2>9 DEF CursorBelow, col
  <2> QED
    BY <1>1, <1>3, <2>1, <2>3, <2>4, <2>5, <2>6 DEF u, col
<1> QED
  BY <1>1, <1>2, <1>3

\* A step that only moves the cursor.
LEMMA OnlyMoved ==
  ASSUME EditorInv, terminal_buffer' \in Buffers,
         SameText(terminal_buffer, terminal_buffer'),
         SamePrompt(terminal_buffer, terminal_buffer'),
         CursorBelow(terminal_buffer'),
         PromptPlaced => CursorFits(terminal_buffer'),
         UNCHANGED <<filepath_len, path_length>>
  PROVE  EditorInv'
<1>1. PromptPlaced' <=> PromptPlaced
  BY DEF PromptPlaced, PromptColumn, SamePrompt
<1>2. HistoryKept(terminal_buffer')
  BY SameTextKept DEF EditorInv
<1> QED
  BY <1>1, <1>2 DEF EditorInv

\* The prompt ends on the screen.
LEMMA PromptLeft ==
  ASSUME filepath_len \in Nat
  PROVE  PromptColumn \in Nat /\ PromptColumn < W
BY Divided, Width DEF PromptColumn, W

LEMMA KeyLeftMoves ==
  ASSUME EditorInv, KeyLeft
  PROVE  /\ EditorInv' /\ SameText(terminal_buffer, terminal_buffer')
         /\ SamePrompt(terminal_buffer, terminal_buffer')
         /\ Position(terminal_buffer') \in {Position(terminal_buffer), Position(terminal_buffer) - 1}
<1> DEFINE t == terminal_buffer
           u == terminal_buffer'
           d == t.cursor_row - t.current_line_row
           first == IF t.cursor_row = t.current_line_row THEN t.current_line_col ELSE 0
<1>1. t \in Buffers /\ HistoryKept(t) /\ CursorBelow(t) /\ UNCHANGED <<filepath_len, path_length>>
  BY DEF EditorInv, KeyLeft
<1>2. /\ t.cursor_row \in Int /\ t.cursor_col \in Int /\ t.current_line_row \in Nat
      /\ 0 <= t.cursor_col /\ t.cursor_col <= W /\ t.current_line_col \in Nat
      /\ d \in Int /\ d >= 0 /\ Cells(d) \in Int /\ W \in Int /\ W > 0
      /\ t.cursor_row = t.current_line_row + d
  BY <1>1, CursorType, Width DEF CursorBelow
<1>3. /\ Position(t) = Cells(d) + t.cursor_col - t.current_line_col
      /\ Cells(d - 1) = Cells(d) - W
      /\ Len(Line(t)) \in Int
  BY <1>1, <1>2, CellsStep, LineType DEF Position
<1>4. CASE t.cursor_col > first
  <2> DEFINE col == t.cursor_col - 1
             v == [t EXCEPT !.cursor_col = col]
  <2>1. u = v
    BY <1>4 DEF KeyLeft
  <2>2. col \in Int
    BY <1>2
  <2> HIDE DEF col, u, t
  <2>3. v \in Buffers /\ SameText(t, v) /\ SamePrompt(t, v)
    BY <1>1, <2>2 DEF Buffers, SameText, SamePrompt
  <2>4. v.cursor_row = t.cursor_row /\ v.cursor_col = col
    BY <1>1 DEF Buffers
  <2> HIDE DEF v, d
  <2>5. v.current_line_row = t.current_line_row /\ v.current_line_col = t.current_line_col
    BY <2>3 DEF SamePrompt
  <2>6. Position(v) = Position(t) - 1
    BY <1>2, <1>3, <2>4, <2>5 DEF Position, col, d
  <2>7. CursorBelow(v)
    BY <1>2, <1>4, <2>4, <2>5 DEF CursorBelow, col
  <2>8. CursorFits(t) => CursorFits(v)
    <3>1. Line(v) = Line(t)
      BY <1>1, <2>3, SameTextKept
    <3>2. v.cursor_row = v.current_line_row => v.cursor_col >= v.current_line_col
      BY <1>2, <1>4, <2>4, <2>5 DEF col
    <3>3. Position(t) \in Int /\ (Position(t) <= Len(Line(t)) => Position(v) <= Len(Line(v)))
      BY <1>2, <1>3, <2>6, <3>1
    <3> QED
      BY <3>1, <3>2, <3>3 DEF CursorFits
  <2> QED
    BY <1>1, <2>1, <2>3, <2>6, <2>7, <2>8, OnlyMoved DEF EditorInv, t, u
<1>5. CASE t.cursor_col <= first /\ t.cursor_row = t.current_line_row
  <2>1. u = t
    BY <1>2, <1>5 DEF KeyLeft
  <2>2. SameText(t, u) /\ SamePrompt(t, u)
    BY <2>1 DEF SameText, SamePrompt
  <2> QED
    BY <1>1, <2>1, <2>2, OnlyMoved DEF EditorInv
<1>6. CASE t.cursor_col <= first /\ t.cursor_row # t.current_line_row
  <2> DEFINE row == t.cursor_row - 1
             v == [t EXCEPT !.cursor_col = W, !.cursor_row = row]
  <2>1. u = v /\ t.cursor_col = 0
    BY <1>2, <1>6 DEF KeyLeft, W
  <2>2. row \in Int
    BY <1>2
  <2> HIDE DEF row, u, t
  <2>3. v \in Buffers /\ SameText(t, v) /\ SamePrompt(t, v)
    BY <1>1, <1>2, <2>2 DEF Buffers, SameText, SamePrompt
  <2>4. v.cursor_row = row /\ v.cursor_col = W
    BY <1>1 DEF Buffers
  <2> HIDE DEF v, d
  <2>5. v.current_line_row = t.current_line_row /\ v.current_line_col = t.current_line_col
    BY <2>3 DEF SamePrompt
  <2>6. v.cursor_row - v.current_line_row = d - 1 /\ d >= 1
    BY <1>2, <1>6, <2>4, <2>5 DEF row
  <2>7. Position(v) = Position(t)
    BY <1>2, <1>3, <2>1, <2>4, <2>5, <2>6 DEF Position
  <2>8. CursorBelow(v)
    BY <1>2, <2>4, <2>5, <2>6 DEF CursorBelow, row
  <2>9. CursorFits(t) /\ PromptPlaced => CursorFits(v)
    <3>1. Line(v) = Line(t)
      BY <1>1, <2>3, SameTextKept
    <3>2. PromptPlaced => t.current_line_col < W
      BY PromptLeft DEF PromptPlaced, EditorInv, t
    <3>3. PromptPlaced => v.cursor_col >= v.current_line_col
      BY <1>2, <2>4, <2>5, <3>2
    <3> QED
      BY <2>7, <3>1, <3>3 DEF CursorFits
  <2> QED
    BY <1>1, <2>1, <2>3, <2>7, <2>8, <2>9, OnlyMoved DEF EditorInv, t, u
<1>7. \/ t.cursor_col > first
      \/ t.cursor_col <= first /\ t.cursor_row = t.current_line_row
      \/ t.cursor_col <= first /\ t.cursor_row # t.current_line_row
  BY <1>2
<1> QED
  BY <1>4, <1>5, <1>6, <1>7

LEMMA KeyRightMoves ==
  ASSUME EditorInv, KeyRight
  PROVE  /\ EditorInv' /\ SameText(terminal_buffer, terminal_buffer')
         /\ SamePrompt(terminal_buffer, terminal_buffer')
         /\ Position(terminal_buffer') \in {Position(terminal_buffer), Position(terminal_buffer) + 1}
<1> DEFINE t == terminal_buffer
           u == terminal_buffer'
           d == t.cursor_row - t.current_line_row
           down == max_row(t) - t.current_line_row
           end == max_col(t)
           len == Len(Line(t))
<1>1. t \in Buffers /\ HistoryKept(t) /\ CursorBelow(t) /\ UNCHANGED <<filepath_len, path_length>>
  BY DEF EditorInv, KeyRight
<1>2. /\ t.cursor_row \in Int /\ t.cursor_col \in Int /\ t.current_line_row \in Nat
      /\ 0 <= t.cursor_col /\ t.cursor_col <= W /\ t.current_line_col \in Nat
      /\ d \in Int /\ d >= 0 /\ Cells(d) \in Int /\ W \in Int /\ W > 0
      /\ t.cursor_row = t.current_line_row + d
  BY <1>1, CursorType, Width DEF CursorBelow
<1>3. /\ down \in Int /\ end \in Int /\ 0 <= end /\ end < W
      /\ len = Cells(down) + end - t.current_line_col
      /\ Cells(down) \in Int /\ len \in Int /\ max_row(t) \in Int
  BY <1>1, EndOfLine
<1>4. t.cursor_row # max_row(t) <=> d # down
  BY <1>2, <1>3
<1>5. Position(t) = Cells(d) + t.cursor_col - t.current_line_col
  BY DEF Position
<1>6. u = IF d # down THEN OneRight(t)
          ELSE IF t.cursor_col < end THEN [t EXCEPT !.cursor_col = @ + 1] ELSE t
  BY <1>4 DEF KeyRight
<1>7. /\ d < down => Cells(d) + W <= Cells(down)
      /\ down < d => Cells(down) + W <= Cells(d)
      /\ d = down => Cells(d) = Cells(down)
  BY <1>2, <1>3, CellsGrow
<1> HIDE DEF d, down, end, len, u, t
<1>8. CASE d # down
  <2>1. /\ u \in Buffers /\ SameText(t, u) /\ SamePrompt(t, u) /\ CursorBelow(u)
        /\ Position(u) = Position(t) + (IF t.cursor_col = W THEN 0 ELSE 1)
        /\ \/ u.cursor_row > u.current_line_row
           \/ u.cursor_row = t.cursor_row /\ u.cursor_col = t.cursor_col + 1
    BY <1>1, <1>6, <1>8, OneRightMoves
  <2>2. /\ Line(u) = Line(t)
        /\ u.current_line_row = t.current_line_row /\ u.current_line_col = t.current_line_col
    BY <1>1, <2>1, SameTextKept DEF SamePrompt
  <2>3. Position(t) <= len => Position(u) <= len
    BY <1>2, <1>3, <1>5, <1>7, <1>8, <2>1
  <2>4. u.cursor_row \in Int /\ u.current_line_row \in Int
    BY <2>1 DEF Buffers
  <2>5. (t.cursor_row = t.current_line_row => t.cursor_col >= t.current_line_col)
          => (u.cursor_row = u.current_line_row => u.cursor_col >= u.current_line_col)
    BY <1>2, <2>1, <2>2, <2>4
  <2>6. CursorFits(t) => CursorFits(u)
    BY <2>2, <2>3, <2>5 DEF CursorFits, len
  <2>7. Position(u) \in {Position(t), Position(t) + 1}
    BY <1>2, <1>5, <2>1
  <2> QED
    BY <1>1, <2>1, <2>6, <2>7, OnlyMoved DEF EditorInv, t, u
<1>9. CASE d = down /\ t.cursor_col < end
  <2> DEFINE col == t.cursor_col + 1
             v == [t EXCEPT !.cursor_col = col]
  <2>1. u = v
    BY <1>6, <1>9
  <2>2. col \in Int
    BY <1>2
  <2> HIDE DEF col
  <2>3. v \in Buffers /\ SameText(t, v) /\ SamePrompt(t, v)
    BY <1>1, <2>2 DEF Buffers, SameText, SamePrompt
  <2>4. v.cursor_row = t.cursor_row /\ v.cursor_col = col
    BY <1>1 DEF Buffers
  <2> HIDE DEF v
  <2>5. /\ Line(v) = Line(t)
        /\ v.current_line_row = t.current_line_row /\ v.current_line_col = t.current_line_col
    BY <1>1, <2>3, SameTextKept DEF SamePrompt
  <2>10. Position(v) = Cells(d) + t.cursor_col + 1 - t.current_line_col
    BY <1>2, <2>4, <2>5 DEF Position, col, d
  <2>6. Position(v) = Position(t) + 1 /\ Position(v) <= len
    BY <1>2, <1>3, <1>5, <1>7, <1>9, <2>10
  <2>7. CursorBelow(v)
    BY <1>2, <1>3, <1>9, <2>4, <2>5 DEF CursorBelow, col
  <2>8. v.cursor_col > t.cursor_col
    BY <1>2, <2>4 DEF col
  <2>9. CursorFits(t) => CursorFits(v)
    BY <1>2, <2>2, <2>4, <2>5, <2>6, <2>8 DEF CursorFits, len
  <2> QED
    BY <1>1, <2>1, <2>3, <2>6, <2>7, <2>9, OnlyMoved DEF EditorInv, t, u
<1>10. CASE d = down /\ ~(t.cursor_col < end)
  <2>1. u = t
    BY <1>6, <1>10
  <2>2. SameText(t, u) /\ SamePrompt(t, u)
    BY <2>1 DEF SameText, SamePrompt
  <2> QED
    BY <1>1, <2>1, <2>2, OnlyMoved DEF EditorInv, t, u
<1> QED
  BY <1>8, <1>9, <1>10

-----------------------------------------------------------------------------
(* Changing a line *)

\* What part of a sequence holds.
LEMMA Part ==
  ASSUME NEW S, NEW s \in Seq(S), NEW i \in Int, NEW j \in Int, 1 <= i, j <= Len(s)
  PROVE  /\ SubSeq(s, i, j) \in Seq(S)
         /\ Len(SubSeq(s, i, j)) = IF i <= j THEN j - i + 1 ELSE 0
         /\ \A k \in 1 .. j - i + 1 : SubSeq(s, i, j)[k] = s[i + k - 1]
<1>1. \A k \in i .. j : k \in 1 .. Len(s)
  BY LenProperties
<1>2. \A k \in i .. j : s[k] \in S
  BY <1>1, ElementOfSeq
<1> QED
  BY <1>2, SubSeqProperties

LEMMA Inserted ==
  ASSUME NEW S, NEW s \in Seq(S), NEW i \in 1 .. Len(s) + 1, NEW c \in S
  PROVE  LET l == InsertAt(s, i, c) IN
         /\ l \in Seq(S) /\ Len(l) = Len(s) + 1
         /\ \A k \in 1 .. Len(l) : l[k] = IF k < i THEN s[k] ELSE IF k = i THEN c ELSE s[k - 1]
<1> DEFINE n == Len(s)
           a == SubSeq(s, 1, i - 1)
           b == SubSeq(s, i, n)
           m == a \o <<c>>
           l == m \o b
<1>1. n \in Nat /\ i \in Int /\ 1 <= i /\ i <= n + 1
  BY LenProperties
<1>2. /\ a \in Seq(S) /\ Len(a) = i - 1
      /\ \A k \in 1 .. i - 1 : a[k] = s[k]
  <2>1. /\ a \in Seq(S) /\ Len(a) = IF 1 <= i - 1 THEN i - 1 - 1 + 1 ELSE 0
        /\ \A k \in 1 .. i - 1 - 1 + 1 : a[k] = s[1 + k - 1]
    BY <1>1, Part
  <2> QED
    BY <1>1, <2>1
<1>3. /\ b \in Seq(S) /\ Len(b) = n - i + 1
      /\ \A k \in 1 .. n - i + 1 : b[k] = s[i + k - 1]
  <2>1. /\ b \in Seq(S) /\ Len(b) = IF i <= n THEN n - i + 1 ELSE 0
        /\ \A k \in 1 .. n - i + 1 : b[k] = s[i + k - 1]
    BY <1>1, Part
  <2> QED
    BY <1>1, <2>1
<1> HIDE DEF a, b, n
<1>4. /\ m \in Seq(S) /\ Len(m) = i
      /\ \A k \in 1 .. i : m[k] = IF k < i THEN s[k] ELSE c
  <2>1. m \in Seq(S) /\ Len(m) = Len(a) + 1
    BY <1>2
  <2>2. \A k \in 1 .. Len(a) : m[k] = a[k]
    BY <1>2
  <2>3. m[Len(a) + 1] = c
    BY <1>2
  <2> HIDE DEF m
  <2>4. Len(a) \in Int /\ Len(a) + 1 = i
    BY <1>1, <1>2
  <2>5. ASSUME NEW k \in 1 .. i PROVE m[k] = IF k < i THEN s[k] ELSE c
    <3>1. CASE k < i
      BY <1>1, <1>2, <2>2, <2>4, <3>1
    <3>2. CASE k = i
      BY <1>1, <2>3, <2>4, <3>2
    <3> QED
      BY <1>1, <3>1, <3>2
  <2> QED
    BY <2>1, <2>4, <2>5
<1> HIDE DEF m
<1>5. /\ l \in Seq(S) /\ Len(l) = Len(m) + Len(b)
      /\ \A k \in 1 .. Len(m) + Len(b) : l[k] = IF k <= Len(m) THEN m[k] ELSE b[k - Len(m)]
  BY <1>3, <1>4, ConcatProperties
<1>6. InsertAt(s, i, c) = l
  BY DEF InsertAt, a, b, m, n
<1> HIDE DEF l
<1>7. Len(l) = n + 1
  BY <1>1, <1>3, <1>4, <1>5
<1>8. ASSUME NEW k \in 1 .. n + 1
      PROVE  l[k] = IF k < i THEN s[k] ELSE IF k = i THEN c ELSE s[k - 1]
  <2>1. CASE k <= i
    BY <1>1, <1>3, <1>4, <1>5, <1>7, <2>1
  <2>2. CASE k > i
    <3>1. l[k] = b[k - i] /\ k - i \in 1 .. n - i + 1
      BY <1>1, <1>3, <1>4, <1>5, <1>7, <2>2
    <3>2. b[k - i] = s[i + (k - i) - 1] /\ i + (k - i) - 1 = k - 1
      BY <1>1, <1>3, <3>1
    <3> QED
      BY <1>1, <2>2, <3>1, <3>2
  <2> QED
    BY <1>1, <2>1, <2>2
<1> QED
  BY <1>5, <1>6, <1>7, <1>8 DEF n

LEMMA Removed ==
  ASSUME NEW S, NEW s \in Seq(S), NEW i \in 1 .. Len(s)
  PROVE  LET l == RemoveAt(s, i) IN
         /\ l \in Seq(S) /\ Len(l) = Len(s) - 1
         /\ \A k \in 1 .. Len(l) : l[k] = IF k < i THEN s[k] ELSE s[k + 1]
<1> DEFINE n == Len(s)
           a == SubSeq(s, 1, i - 1)
           b == SubSeq(s, i + 1, n)
           l == a \o b
<1>1. n \in Nat /\ i \in Int /\ 1 <= i /\ i <= n
  BY LenProperties
<1>2. /\ a \in Seq(S) /\ Len(a) = i - 1
      /\ \A k \in 1 .. i - 1 : a[k] = s[k]
  <2>1. /\ a \in Seq(S) /\ Len(a) = IF 1 <= i - 1 THEN i - 1 - 1 + 1 ELSE 0
        /\ \A k \in 1 .. i - 1 - 1 + 1 : a[k] = s[1 + k - 1]
    BY <1>1, Part
  <2> QED
    BY <1>1, <2>1
<1>3. /\ b \in Seq(S) /\ Len(b) = n - i
      /\ \A k \in 1 .. n - i : b[k] = s[i + k]
  <2> DEFINE j == i + 1
  <2>1. j \in Int /\ 1 <= j
    BY <1>1
  <2> HIDE DEF j
  <2>2. /\ SubSeq(s, j, n) \in Seq(S)
        /\ Len(SubSeq(s, j, n)) = IF j <= n THEN n - j + 1 ELSE 0
        /\ \A k \in 1 .. n - j + 1 : SubSeq(s, j, n)[k] = s[j + k - 1]
    BY <1>1, <2>1, Part
  <2> QED
    BY <1>1, <2>2 DEF j
<1> HIDE DEF a, b, n
<1>5. /\ l \in Seq(S) /\ Len(l) = Len(a) + Len(b)
      /\ \A k \in 1 .. Len(a) + Len(b) : l[k] = IF k <= Len(a) THEN a[k] ELSE b[k - Len(a)]
  BY <1>2, <1>3, ConcatProperties
<1>6. RemoveAt(s, i) = l
  BY DEF RemoveAt, a, b, n
<1> HIDE DEF l
<1>7. Len(l) = n - 1
  BY <1>1, <1>2, <1>3, <1>5
<1>8. ASSUME NEW k \in 1 .. n - 1
      PROVE  l[k] = IF k < i THEN s[k] ELSE s[k + 1]
  <2>1. CASE k < i
    BY <1>1, <1>2, <1>3, <1>5, <1>7, <2>1
  <2>2. CASE k >= i
    <3>1. l[k] = b[k - (i - 1)] /\ k - (i - 1) \in 1 .. n - i
      BY <1>1, <1>2, <1>3, <1>5, <1>7, <2>2
    <3>2. b[k - (i - 1)] = s[i + (k - (i - 1))] /\ i + (k - (i - 1)) = k + 1
      BY <1>1, <1>3, <3>1
    <3> QED
      BY <1>1, <2>2, <3>1, <3>2
  <2> QED
    BY <1>1, <2>1, <2>2
<1> QED
  BY <1>5, <1>6, <1>7, <1>8 DEF n

\* The line of a buffer is another, and another line of the history is shown.
Edited(t, u, l, v) ==
  /\ u.history = [t.history EXCEPT ![t.current_line] = l]
  /\ u.hist_length = t.hist_length
  /\ u.current_line = t.current_line
  /\ u.viewed_line = v

\* The lines entered before stay.
LEMMA EditedKept ==
  ASSUME NEW t \in Buffers, HistoryKept(t), NEW u \in Buffers, NEW l \in Texts,
         Len(l) < MAX_LINE_LENGTH, NEW v \in 0 .. t.current_line, Edited(t, u, l, v)
  PROVE  HistoryKept(u) /\ Line(u) = l /\ Recent(u) = Recent(t)
<1> DEFINE n == t.current_line
<1>1. n \in 0 .. MAX_HISTORY /\ t.history \in [0 .. MAX_HISTORY -> Texts] /\ n \in Int
  BY LineEditorAssumption DEF Buffers, HistoryKept
<1>2. u.current_line = n /\ u.hist_length = t.hist_length /\ u.viewed_line = v
  BY DEF Edited
<1>3. /\ u.history[n] = l
      /\ \A k \in 0 .. MAX_HISTORY : k # n => u.history[k] = t.history[k]
  BY <1>1 DEF Edited
<1>4. \A k \in 0 .. n - 1 : k \in 0 .. MAX_HISTORY /\ k # n
  BY <1>1, LineEditorAssumption
<1>5. \A k \in 0 .. n - 1 : u.history[k] = t.history[k]
  BY <1>3, <1>4
<1>6. HistoryKept(u)
  BY <1>2, <1>3, <1>5 DEF HistoryKept
<1>7. Recent(u) = Recent(t)
  <2>1. \A k \in 1 .. n : k - 1 \in 0 .. n - 1
    BY <1>1
  <2> QED
    BY <1>2, <1>5, <2>1 DEF Recent
<1> QED
  BY <1>2, <1>3, <1>6, <1>7 DEF Line

\* Nor does it matter where the cursor goes.
LEMMA EditedMoved ==
  ASSUME NEW t, NEW u, NEW w, NEW l, NEW v, Edited(t, u, l, v), SameText(u, w)
  PROVE  Edited(t, w, l, v)
BY DEF Edited, SameText

LEMMA LineInserted ==
  ASSUME NEW line \in Texts, Len(line) < MAX_LINE_LENGTH, NEW c \in Chars, NEW index \in Int
  PROVE  LET l == terminal_line_insert_char(line, c, index) IN
         /\ l \in Texts /\ Len(l) < MAX_LINE_LENGTH
         /\ IF Len(line) < MAX_LINE_LENGTH - 1 /\ 0 <= index /\ index <= Len(line)
              THEN l = InsertAt(line, index + 1, c) /\ Len(l) = Len(line) + 1
              ELSE l = line
<1>1. Texts = Seq(Chars) /\ Len(line) \in Nat /\ MAX_LINE_LENGTH \in Int
  BY LenProperties, LineEditorAssumption DEF Texts, Chars
<1>2. CASE Len(line) < MAX_LINE_LENGTH - 1 /\ 0 <= index /\ index <= Len(line)
  <2> DEFINE i == index + 1
             l == InsertAt(line, i, c)
  <2>1. i \in 1 .. Len(line) + 1 /\ line \in Seq(Chars)
    BY <1>1, <1>2
  <2> HIDE DEF i
  <2>4. l \in Seq(Chars) /\ Len(l) = Len(line) + 1
    BY <2>1, Inserted
  <2>2. l \in Texts /\ Len(l) = Len(line) + 1
    BY <1>1, <2>4
  <2>3. terminal_line_insert_char(line, c, index) = l
    BY <1>1, <1>2 DEF terminal_line_insert_char, i
  <2> HIDE DEF l
  <2> QED
    BY <1>1, <1>2, <2>2, <2>3 DEF l, i
<1>3. CASE ~(Len(line) < MAX_LINE_LENGTH - 1 /\ 0 <= index /\ index <= Len(line))
  BY <1>1, <1>3 DEF terminal_line_insert_char
<1> QED
  BY <1>2, <1>3

LEMMA LineDeleted ==
  ASSUME NEW line \in Texts, Len(line) < MAX_LINE_LENGTH, NEW index \in Int
  PROVE  LET l == terminal_line_delete_char(line, index) IN
         /\ l \in Texts /\ Len(l) < MAX_LINE_LENGTH
         /\ IF 0 <= index /\ index < Len(line)
              THEN l = RemoveAt(line, index + 1) /\ Len(l) = Len(line) - 1
              ELSE l = line
<1>1. Texts = Seq(Chars) /\ Len(line) \in Nat /\ MAX_LINE_LENGTH \in Int
  BY LenProperties, LineEditorAssumption DEF Texts, Chars
<1>2. CASE 0 <= index /\ index < Len(line)
  <2>1. index + 1 \in 1 .. Len(line)
    BY <1>1, <1>2
  <2> DEFINE i == index + 1
             l == RemoveAt(line, i)
  <2> HIDE DEF i
  <2>2. l \in Texts /\ Len(l) = Len(line) - 1
    BY <1>1, <2>1, Removed DEF i
  <2>3. terminal_line_delete_char(line, index) = l
    BY <1>1, <1>2 DEF terminal_line_delete_char, i
  <2> HIDE DEF l
  <2> QED
    BY <1>1, <1>2, <2>2, <2>3 DEF l, i
<1>3. CASE ~(0 <= index /\ index < Len(line))
  BY <1>1, <1>3 DEF terminal_line_delete_char
<1> QED
  BY <1>2, <1>3

\* Once the prompt is placed, the two ways to find the cursor in the line agree.
LEMMA CursorIndex ==
  ASSUME EditorInv
  PROVE  /\ cursor_index \in Int
         /\ PromptPlaced => /\ cursor_index = Position(terminal_buffer)
                            /\ CursorFits(terminal_buffer) /\ cursor_index >= 0
<1> DEFINE t == terminal_buffer
           d == t.cursor_row - t.current_line_row
<1>1. t \in Buffers /\ CursorBelow(t)
  BY DEF EditorInv
<1>2. /\ t.cursor_row \in Int /\ t.cursor_col \in Int /\ t.current_line_row \in Int
      /\ 0 <= t.cursor_col /\ t.current_line_col \in Int /\ W \in Int
      /\ d \in Int /\ d >= 0 /\ Cells(d) \in Int
  BY <1>1, CursorType, Width DEF CursorBelow
<1>3. PromptColumn \in Int /\ PromptColumn < W
  BY PromptLeft DEF EditorInv
<1>4. cursor_index = IF t.cursor_row = t.current_line_row
                       THEN t.cursor_col - t.current_line_col
                       ELSE Cells(d) + t.cursor_col - PromptColumn
  BY DEF cursor_index, Cells, W
<1>5. Cells(0) = 0 /\ (d > 0 => W <= Cells(d))
  BY <1>2, CellsStep, CellsGrow
<1>6. /\ t.cursor_row = t.current_line_row <=> d = 0
      /\ Position(t) = Cells(d) + t.cursor_col - t.current_line_col
  BY <1>2 DEF Position
<1>7. PromptPlaced => CursorFits(t)
  BY DEF EditorInv
<1>8. PromptPlaced <=> t.current_line_col = PromptColumn
  BY DEF PromptPlaced
<1>9. CursorFits(t) => (t.cursor_row = t.current_line_row => t.cursor_col >= t.current_line_col)
  BY DEF CursorFits
<1> HIDE DEF t, d
<1> QED
  BY <1>2, <1>3, <1>4, <1>5, <1>6, <1>7, <1>8, <1>9 DEF t

\* A line changes in its slot, and nothing else does.
LEMMA EditedLine ==
  ASSUME NEW t \in Buffers, HistoryKept(t), NEW l \in Texts, NEW v \in Int
  PROVE  LET u == [t EXCEPT !.viewed_line = v, !.history[t.current_line] = l] IN
         /\ u \in Buffers /\ Edited(t, u, l, v) /\ SamePrompt(t, u)
         /\ u.cursor_row = t.cursor_row /\ u.cursor_col = t.cursor_col
<1>1. t.history \in [0 .. MAX_HISTORY -> Texts] /\ t.current_line \in 0 .. MAX_HISTORY
  BY DEF Buffers, HistoryKept
<1> DEFINE h == [t.history EXCEPT ![t.current_line] = l]
           u == [t EXCEPT !.viewed_line = v, !.history[t.current_line] = l]
           w == [t EXCEPT !.viewed_line = v, !.history = h]
<1>2. h \in [0 .. MAX_HISTORY -> Texts]
  BY <1>1
<1>3. u = w
  OBVIOUS
<1>4. w.history = h
  BY DEF Buffers
<1> HIDE DEF h, u
<1>5. w \in Buffers /\ SamePrompt(t, w)
  BY <1>2 DEF Buffers, SamePrompt
<1>6. /\ w.hist_length = t.hist_length /\ w.current_line = t.current_line
      /\ w.viewed_line = v /\ w.cursor_row = t.cursor_row /\ w.cursor_col = t.cursor_col
  BY DEF Buffers
<1> HIDE DEF w
<1>7. Edited(t, w, l, v)
  BY <1>4, <1>6 DEF Edited, h
<1> QED
  BY <1>3, <1>5, <1>6, <1>7 DEF u

\* A line put back where it was is no change.
LEMMA EditedSame ==
  ASSUME NEW t \in Buffers, NEW u \in Buffers, Edited(t, u, Line(t), t.viewed_line)
  PROVE  SameText(t, u)
<1>1. u.history = [t.history EXCEPT ![t.current_line] = t.history[t.current_line]]
  BY DEF Edited, Line
<1>2. t.history \in [0 .. MAX_HISTORY -> Texts]
  BY DEF Buffers
<1>3. u.history = t.history
  BY <1>1, <1>2
<1> QED
  BY <1>3 DEF SameText, Edited

\* Where backspace leaves the cursor.
StepBack(t) ==
  IF t.cursor_col > (IF t.cursor_row = t.current_line_row THEN t.current_line_col ELSE 0)
  THEN [t EXCEPT !.cursor_col = @ - 1]
  ELSE IF t.cursor_row = t.current_line_row THEN t
  ELSE [t EXCEPT !.cursor_col = W - 1, !.cursor_row = @ - 1]

\* One back, unless the cursor is right behind the prompt.
LEMMA StepBackMoves ==
  ASSUME NEW t \in Buffers, CursorBelow(t)
  PROVE  LET u == StepBack(t) IN
         /\ u \in Buffers /\ SameText(t, u) /\ SamePrompt(t, u) /\ CursorBelow(u)
         /\ \/ Position(u) = Position(t) - 1
            \/ /\ u = t /\ t.cursor_row = t.current_line_row
               /\ t.cursor_col <= t.current_line_col
         /\ t.current_line_col < W
              => \/ u.cursor_row = u.current_line_row => u.cursor_col >= u.current_line_col
                 \/ u = t
<1> DEFINE u == StepBack(t)
           d == t.cursor_row - t.current_line_row
           first == IF t.cursor_row = t.current_line_row THEN t.current_line_col ELSE 0
<1>1. /\ t.cursor_row \in Int /\ t.cursor_col \in Int /\ t.current_line_row \in Nat
      /\ 0 <= t.cursor_col /\ t.cursor_col <= W /\ t.current_line_col \in Nat
      /\ d \in Int /\ d >= 0 /\ Cells(d) \in Int /\ W \in Int /\ W > 0
      /\ t.cursor_row = t.current_line_row + d
  BY CursorType, Width DEF CursorBelow
<1>2. Position(t) = Cells(d) + t.cursor_col - t.current_line_col
  BY DEF Position
<1>3. Cells(d - 1) = Cells(d) - W
  BY <1>1, CellsStep
<1>4. CASE t.cursor_col > first
  <2> DEFINE col == t.cursor_col - 1
             v == [t EXCEPT !.cursor_col = col]
  <2>1. u = v
    BY <1>4 DEF StepBack
  <2>2. col \in Int
    BY <1>1
  <2> HIDE DEF col, u
  <2>3. v \in Buffers /\ SameText(t, v) /\ SamePrompt(t, v)
    BY <2>2 DEF Buffers, SameText, SamePrompt
  <2>4. v.cursor_row = t.cursor_row /\ v.cursor_col = col
    BY DEF Buffers
  <2> HIDE DEF v, d
  <2>5. v.current_line_row = t.current_line_row /\ v.current_line_col = t.current_line_col
    BY <2>3 DEF SamePrompt
  <2>6. Position(v) = Position(t) - 1
    BY <1>1, <1>2, <2>4, <2>5 DEF Position, col, d
  <2>7. CursorBelow(v)
    BY <1>1, <1>4, <2>4, <2>5 DEF CursorBelow, col
  <2>8. v.cursor_row = v.current_line_row => v.cursor_col >= v.current_line_col
    BY <1>1, <1>4, <2>4, <2>5 DEF col
  <2> QED
    BY <2>1, <2>3, <2>6, <2>7, <2>8 DEF u
<1>5. CASE t.cursor_col <= first /\ t.cursor_row = t.current_line_row
  <2>1. u = t
    BY <1>1, <1>5 DEF StepBack
  <2>2. SameText(t, u) /\ SamePrompt(t, u)
    BY <2>1 DEF SameText, SamePrompt
  <2> QED
    BY <1>5, <2>1, <2>2 DEF u
<1>6. CASE t.cursor_col <= first /\ t.cursor_row # t.current_line_row
  <2> DEFINE row == t.cursor_row - 1
             col == W - 1
             v == [t EXCEPT !.cursor_col = col, !.cursor_row = row]
  <2>1. u = v /\ t.cursor_col = 0
    BY <1>1, <1>6 DEF StepBack
  <2>2. row \in Int /\ col \in Int
    BY <1>1
  <2> HIDE DEF row, col, u
  <2>3. v \in Buffers /\ SameText(t, v) /\ SamePrompt(t, v)
    BY <1>1, <2>2 DEF Buffers, SameText, SamePrompt
  <2>4. v.cursor_row = row /\ v.cursor_col = col
    BY DEF Buffers
  <2> HIDE DEF v, d
  <2>5. v.current_line_row = t.current_line_row /\ v.current_line_col = t.current_line_col
    BY <2>3 DEF SamePrompt
  <2>6. v.cursor_row - v.current_line_row = d - 1 /\ d >= 1
    BY <1>1, <1>6, <2>4, <2>5 DEF row
  <2>7. Position(v) = Position(t) - 1
    BY <1>1, <1>2, <1>3, <2>1, <2>4, <2>5, <2>6 DEF Position, col
  <2>8. CursorBelow(v)
    BY <1>1, <2>4, <2>5, <2>6 DEF CursorBelow, row, col
  <2>9. t.current_line_col < W => v.cursor_col >= v.current_line_col
    BY <1>1, <2>4, <2>5 DEF col
  <2> QED
    BY <2>1, <2>3, <2>7, <2>8, <2>9 DEF u
<1>7. \/ t.cursor_col > first
      \/ t.cursor_col <= first /\ t.cursor_row = t.current_line_row
      \/ t.cursor_col <= first /\ t.cursor_row # t.current_line_row
  BY <1>1
<1> QED
  BY <1>4, <1>5, <1>6, <1>7

\* The same, with the line shown left as it was.
LEMMA EditedHere ==
  ASSUME NEW t \in Buffers, HistoryKept(t), NEW l \in Texts
  PROVE  LET u == [t EXCEPT !.history[t.current_line] = l] IN
         /\ u \in Buffers /\ Edited(t, u, l, t.viewed_line) /\ SamePrompt(t, u)
         /\ u.cursor_row = t.cursor_row /\ u.cursor_col = t.cursor_col
<1> DEFINE v == t.viewed_line
           u == [t EXCEPT !.history[t.current_line] = l]
           w == [t EXCEPT !.viewed_line = v, !.history[t.current_line] = l]
<1>1. v \in Int
  BY DEF Buffers
<1>2. u = w
  BY DEF Buffers
<1> HIDE DEF v, u
<1>3. /\ w \in Buffers /\ Edited(t, w, l, v) /\ SamePrompt(t, w)
      /\ w.cursor_row = t.cursor_row /\ w.cursor_col = t.cursor_col
  BY <1>1, EditedLine
<1> HIDE DEF w
<1> QED
  BY <1>2, <1>3 DEF u, v

\* Behind the prompt.
LEMMA PositionSign ==
  ASSUME NEW t \in Buffers, CursorBelow(t), CursorFits(t), t.current_line_col < W
  PROVE  Position(t) >= 0
<1> DEFINE d == t.cursor_row - t.current_line_row
<1>1. /\ t.cursor_row \in Int /\ t.cursor_col \in Int /\ t.current_line_row \in Int
      /\ 0 <= t.cursor_col /\ t.current_line_col \in Int /\ W \in Int
      /\ d \in Int /\ d >= 0 /\ Cells(d) \in Int
  BY CursorType, Width DEF CursorBelow
<1>2. Cells(0) = 0 /\ (d > 0 => W <= Cells(d))
  <2>1. 0 \in Int /\ Cells(0) = 0
    BY CellsStep
  <2>2. d > 0 => Cells(0) + W <= Cells(d)
    BY <1>1, <2>1, CellsGrow
  <2> QED
    BY <1>1, <2>1, <2>2
<1>3. d = 0 => t.cursor_col >= t.current_line_col
  BY <1>1 DEF CursorFits
<1>4. Position(t) = Cells(d) + t.cursor_col - t.current_line_col
  BY DEF Position
<1> HIDE DEF d
<1> QED
  BY <1>1, <1>2, <1>3, <1>4

\* The prompt stays where it is when the text of the line changes.
LEMMA OnlyEdited ==
  ASSUME EditorInv, terminal_buffer' \in Buffers,
         HistoryKept(terminal_buffer'),
         SamePrompt(terminal_buffer, terminal_buffer'),
         CursorBelow(terminal_buffer'),
         PromptPlaced => CursorFits(terminal_buffer'),
         UNCHANGED <<filepath_len, path_length>>
  PROVE  EditorInv' /\ (PromptPlaced' <=> PromptPlaced)
<1>1. PromptPlaced' <=> PromptPlaced
  BY DEF PromptPlaced, PromptColumn, SamePrompt
<1> QED
  BY <1>1 DEF EditorInv

LEMMA BackspaceEdits ==
  ASSUME EditorInv, Backspace
  PROVE  LET t == terminal_buffer
             u == terminal_buffer'
             at == cursor_index
         IN  /\ EditorInv' /\ (PromptPlaced' <=> PromptPlaced)
             /\ \/ SameText(t, u)
                \/ at \in 1 .. Len(Line(t)) /\ Edited(t, u, RemoveAt(Line(t), at), t.viewed_line)
             /\ PromptPlaced /\ Len(Line(t)) < MAX_LINE_LENGTH - 1
                  => \/ at = 0 /\ SameText(t, u) /\ Position(u) = 0
                     \/ /\ at \in 1 .. Len(Line(t))
                        /\ Edited(t, u, RemoveAt(Line(t), at), t.viewed_line)
                        /\ Position(u) = at - 1
<1> DEFINE t == terminal_buffer
           u == terminal_buffer'
           at == cursor_index
           len == Len(Line(t))
           l == terminal_line_delete_char(Line(t), at - 1)
           e == [t EXCEPT !.history[t.current_line] = l]
<1>1. t \in Buffers /\ HistoryKept(t) /\ CursorBelow(t) /\ UNCHANGED <<filepath_len, path_length>>
  BY DEF EditorInv, Backspace
<1>2. at \in Int /\ at - 1 \in Int /\ Line(t) \in Texts /\ len \in Int /\ len >= 0
      /\ len < MAX_LINE_LENGTH /\ MAX_LINE_LENGTH \in Int
  BY <1>1, CursorIndex, LineType, LineEditorAssumption
<1>3. PromptPlaced => at = Position(t) /\ CursorFits(t) /\ at >= 0
  BY CursorIndex
<1>4. /\ l \in Texts /\ Len(l) < MAX_LINE_LENGTH
      /\ IF 0 <= at - 1 /\ at - 1 < len
           THEN l = RemoveAt(Line(t), at - 1 + 1) /\ Len(l) = len - 1
           ELSE l = Line(t)
  <2> DEFINE i == at - 1
  <2>1. i \in Int
    BY <1>2
  <2> HIDE DEF i
  <2> DEFINE k == terminal_line_delete_char(Line(t), i)
  <2>2. /\ k \in Texts /\ Len(k) < MAX_LINE_LENGTH
        /\ IF 0 <= i /\ i < len
             THEN k = RemoveAt(Line(t), i + 1) /\ Len(k) = len - 1
             ELSE k = Line(t)
    BY <1>2, <2>1, LineDeleted
  <2> QED
    BY <2>2 DEF i
<1>5. at - 1 + 1 = at
  BY <1>2
<1>6. \/ at \in 1 .. len /\ l = RemoveAt(Line(t), at) /\ Len(l) = len - 1
      \/ ~(1 <= at /\ at <= len) /\ l = Line(t)
  BY <1>2, <1>4, <1>5
<1>7. /\ e \in Buffers /\ Edited(t, e, l, t.viewed_line) /\ SamePrompt(t, e)
      /\ e.cursor_row = t.cursor_row /\ e.cursor_col = t.cursor_col
  <2> HIDE DEF l
  <2> QED
    BY <1>1, <1>4, EditedHere
<1>8. u = IF Line(t) = <<>> THEN t ELSE StepBack(e)
  <2>1. e.current_line_row = t.current_line_row /\ e.current_line_col = t.current_line_col
    BY <1>7 DEF SamePrompt
  <2>2. e = [t EXCEPT !.history[t.current_line] = terminal_line_delete_char(@, at - 1)]
    BY <1>1 DEF Line, Buffers
  <2> HIDE DEF e, l, at
  <2> QED
    BY <1>7, <2>1, <2>2 DEF Backspace, StepBack, W, at
<1>9. t.viewed_line \in 0 .. t.current_line
  BY <1>1 DEF HistoryKept
<1> HIDE DEF t, u, at, len, l, e
<1>10. HistoryKept(e) /\ Line(e) = l
  BY <1>1, <1>4, <1>7, <1>9, EditedKept
<1>11. CursorBelow(e) /\ Position(e) = Position(t)
  BY <1>1, <1>7 DEF CursorBelow, Position, SamePrompt
<1>12. Position(t) \in Int
  BY <1>1, CursorType
<1>13. PromptPlaced => t.current_line_col < W
  BY PromptLeft DEF PromptPlaced, EditorInv, t
<1>14. Len(l) \in Int
  BY <1>4, LenProperties DEF Texts
<1>15. CASE Line(t) = <<>>
  <2>1. u = t /\ len = 0
    BY <1>8, <1>15 DEF len
  <2>2. SameText(t, u) /\ SamePrompt(t, u)
    BY <2>1 DEF SameText, SamePrompt
  <2>3. PromptPlaced /\ len < MAX_LINE_LENGTH - 1 => at = 0 /\ Position(u) = 0
    BY <1>2, <1>3, <1>12, <2>1 DEF CursorFits, len
  <2>4. EditorInv' /\ (PromptPlaced' <=> PromptPlaced)
    BY <1>1, <1>3, <2>1, <2>2, OnlyEdited DEF EditorInv, t, u
  <2> QED
    BY <2>2, <2>3, <2>4 DEF t, u, at, len
<1>16. CASE Line(t) # <<>>
  <2>1. u = StepBack(e)
    BY <1>8, <1>16
  <2>2. /\ u \in Buffers /\ SameText(e, u) /\ SamePrompt(e, u) /\ CursorBelow(u)
        /\ \/ Position(u) = Position(e) - 1
           \/ /\ u = e /\ e.cursor_row = e.current_line_row
              /\ e.cursor_col <= e.current_line_col
        /\ e.current_line_col < W
             => \/ u.cursor_row = u.current_line_row => u.cursor_col >= u.current_line_col
                \/ u = e
    BY <1>7, <1>11, <2>1, StepBackMoves
  <2>3. Edited(t, u, l, t.viewed_line) /\ SamePrompt(t, u)
    BY <1>7, <2>2, EditedMoved DEF SamePrompt
  <2>4. HistoryKept(u) /\ Line(u) = l
    BY <1>7, <1>10, <2>2, SameTextKept
  <2>5. /\ e.current_line_col = t.current_line_col /\ e.current_line_row = t.current_line_row
        /\ e.cursor_row = t.cursor_row /\ e.cursor_col = t.cursor_col
    BY <1>7 DEF SamePrompt
  <2>6. \/ Position(u) = Position(t) - 1
        \/ u = e /\ t.cursor_row = t.current_line_row /\ t.cursor_col <= t.current_line_col
    BY <1>11, <2>2, <2>5
  <2>7. CursorFits(t) /\ t.current_line_col < W
          => (u.cursor_row = u.current_line_row => u.cursor_col >= u.current_line_col)
    BY <2>2, <2>5 DEF CursorFits
  <2>8. ASSUME PromptPlaced, u = e, t.cursor_row = t.current_line_row,
               t.cursor_col <= t.current_line_col
        PROVE  at = 0 /\ Position(u) = 0
    <3>1. Position(t) = 0
      <4>1. /\ t.cursor_col = t.current_line_col /\ t.cursor_col \in Int
            /\ t.cursor_row - t.current_line_row = 0
        BY <1>1, <1>3, <1>12, <2>8, CursorType DEF CursorFits, CursorBelow
      <4> QED
        BY <4>1, CellsStep DEF Position
    <3> QED
      BY <1>3, <1>11, <2>8, <3>1
  <2>9. ASSUME PromptPlaced, Len(l) < MAX_LINE_LENGTH - 1
        PROVE  Position(u) <= Len(l)
    <3>1. CASE len < MAX_LINE_LENGTH - 1
      <4>1. at <= len
        BY <1>3, <2>9, <3>1 DEF CursorFits, len
      <4> QED
        BY <1>2, <1>3, <1>6, <1>14, <2>6, <2>8, <2>9, <4>1 DEF len
    <3>2. CASE ~(len < MAX_LINE_LENGTH - 1)
      <4>1. at \in 1 .. len /\ Len(l) = len - 1
        BY <1>2, <1>6, <2>9, <3>2 DEF len
      <4> QED
        BY <1>2, <1>3, <1>14, <2>6, <2>8, <2>9, <4>1
    <3> QED
      BY <3>1, <3>2
  <2>10. PromptPlaced => CursorFits(u)
    BY <1>3, <1>13, <2>4, <2>7, <2>9 DEF CursorFits
  <2>11. EditorInv' /\ (PromptPlaced' <=> PromptPlaced)
    BY <1>1, <2>2, <2>3, <2>4, <2>10, OnlyEdited DEF t, u
  <2>12. \/ SameText(t, u)
         \/ at \in 1 .. len /\ Edited(t, u, RemoveAt(Line(t), at), t.viewed_line)
    BY <1>1, <1>6, <2>2, <2>3, EditedSame
  <2>13. ASSUME PromptPlaced, len < MAX_LINE_LENGTH - 1
         PROVE  \/ at = 0 /\ SameText(t, u) /\ Position(u) = 0
                \/ /\ at \in 1 .. len
                   /\ Edited(t, u, RemoveAt(Line(t), at), t.viewed_line)
                   /\ Position(u) = at - 1
    <3>1. at <= len /\ at >= 0 /\ at = Position(t)
      BY <1>3, <2>13 DEF CursorFits, len
    <3>2. CASE at = 0
      <4>1. SameText(t, u)
        BY <1>1, <1>2, <1>6, <2>2, <2>3, <3>2, EditedSame
      <4>2. ~(Position(u) = Position(t) - 1) => Position(u) = 0
        BY <2>6, <2>8, <2>13
      <4>3. ~(Position(u) = 0 - 1)
        <5>1. u.current_line_col < W
          BY <1>13, <2>3, <2>13 DEF SamePrompt
        <5>2. Position(u) >= 0
          BY <2>2, <2>10, <2>13, <5>1, PositionSign
        <5>3. Position(u) \in Int
          BY <2>2, CursorType
        <5> QED
          BY <5>2, <5>3
      <4> QED
        BY <3>1, <3>2, <4>1, <4>2, <4>3
    <3>3. CASE at # 0
      <4>1. at \in 1 .. len
        BY <1>2, <3>1, <3>3
      <4> QED
        BY <1>2, <1>6, <2>3, <2>6, <2>8, <2>13, <3>1, <3>3, <4>1
    <3> QED
      BY <3>2, <3>3
  <2> QED
    BY <2>11, <2>12, <2>13 DEF t, u, at, len
<1> QED
  BY <1>15, <1>16

\* The screen is cleared for what comes next: the prompt goes to its top.
LEMMA Flushed ==
  ASSUME NEW t \in Buffers, HistoryKept(t)
  PROVE  LET u == flush(t) IN
         /\ u \in Buffers /\ SameText(t, u) /\ HistoryKept(u) /\ u.current_line_row = -1
         /\ u.cursor_row = t.cursor_row
<1> DEFINE row == -1
           v == [t EXCEPT !.current_line_row = row]
<1>1. row \in Int
  OBVIOUS
<1>2. flush(t) = v
  BY DEF flush
<1> HIDE DEF row
<1>3. v \in Buffers /\ SameText(t, v)
  BY <1>1 DEF Buffers, SameText
<1>4. v.current_line_row = row /\ v.cursor_row = t.cursor_row
  BY DEF Buffers
<1> HIDE DEF v
<1>5. HistoryKept(v)
  BY <1>3, SameTextKept
<1> QED
  BY <1>2, <1>3, <1>4, <1>5 DEF row

LEMMA TopOfScreen ==
  ASSUME NEW t \in Buffers, HistoryKept(t), NEW length \in Nat
  PROVE  LET u == write_path(flush(t), 1, length) IN
         /\ u \in Buffers /\ SameText(t, u) /\ HistoryKept(u) /\ Line(u) = Line(t)
         /\ u.current_line_col = (PROMPT_LENGTH + length) % W
         /\ CursorBelow(u) /\ CursorFits(u)
<1> DEFINE f == flush(t)
           u == write_path(f, 1, length)
<1>1. f \in Buffers /\ SameText(t, f) /\ HistoryKept(f) /\ f.current_line_row = -1
  BY Flushed
<1>2. f.current_line_row + 1 >= 0 /\ 1 \in Int
  BY <1>1
<1> HIDE DEF f
<1>3. /\ u \in Buffers /\ SameText(f, u)
      /\ u.current_line_col = (PROMPT_LENGTH + length) % W
      /\ CursorBelow(u) /\ CursorFits(u)
  BY <1>1, <1>2, WritePath
<1> HIDE DEF u
<1>4. SameText(t, u)
  BY <1>1, <1>3 DEF SameText
<1>5. HistoryKept(u) /\ Line(u) = Line(t)
  BY <1>3, <1>4, SameTextKept
<1> QED
  BY <1>3, <1>4, <1>5 DEF u, f

\* A key that wraps the screen leaves the prompt in its place.
LEMMA PromptMoved ==
  ASSUME NEW t \in Buffers, HistoryKept(t), CursorBelow(t), CursorFits(t), t = terminal_buffer',
         filepath_len' \in Nat, path_length' \in Nat
  PROVE  EditorInv'
BY DEF EditorInv

LEMMA CharacterTyped ==
  ASSUME EditorInv, NEW c \in Chars, TypeCharacter(c)
  PROVE  LET t == terminal_buffer
             u == terminal_buffer'
             at == cursor_index
         IN  /\ EditorInv'
             /\ \/ SameText(t, u)
                \/ \E i \in 1 .. Len(Line(t)) + 1 :
                     Edited(t, u, InsertAt(Line(t), i, c), t.viewed_line)
             /\ Ready => /\ at \in 0 .. Len(Line(t))
                         /\ Edited(t, u, InsertAt(Line(t), at + 1, c), t.viewed_line)
                         /\ Position(u) = at + 1
                         /\ PromptPlaced'
<1> DEFINE t == terminal_buffer
           u == terminal_buffer'
           at == cursor_index
           len == Len(Line(t))
           index == IF at > len THEN at - 1 ELSE at
           l == terminal_line_insert_char(Line(t), c, index)
           e == [t EXCEPT !.history[t.current_line] = l]
<1>1. t \in Buffers /\ HistoryKept(t) /\ CursorBelow(t)
  BY DEF EditorInv
<1>2. at \in Int /\ index \in Int /\ Line(t) \in Texts /\ len \in Int /\ len >= 0
      /\ len < MAX_LINE_LENGTH /\ MAX_LINE_LENGTH \in Int
  BY <1>1, CursorIndex, LineType, LineEditorAssumption
<1>3. PromptPlaced => at = Position(t) /\ CursorFits(t) /\ at >= 0
  BY CursorIndex
<1>4. path_length \in Nat /\ filepath_len \in Nat /\ UNCHANGED path_length
      /\ PROMPT_LENGTH \in Nat
  BY LineEditorAssumption DEF EditorInv, TypeCharacter
<1>5. ~(len >= MAX_LINE_LENGTH)
  BY <1>2
<1>6. /\ u = IF AtBottom(t) THEN CursorAtEnd(write_path(flush(t), 1, path_length))
             ELSE OneRight(e)
      /\ filepath_len' = IF AtBottom(t) THEN PROMPT_LENGTH + path_length ELSE filepath_len
  <2>1. e = [t EXCEPT !.history[t.current_line] = terminal_line_insert_char(@, c, index)]
    BY <1>1 DEF Line, Buffers
  <2> HIDE DEF e, l
  <2> QED
    BY <1>5, <2>1 DEF TypeCharacter
<1>7. t.viewed_line \in 0 .. t.current_line
  BY <1>1 DEF HistoryKept
<1>8. /\ l \in Texts /\ Len(l) < MAX_LINE_LENGTH
      /\ IF len < MAX_LINE_LENGTH - 1 /\ 0 <= index /\ index <= len
           THEN l = InsertAt(Line(t), index + 1, c) /\ Len(l) = len + 1
           ELSE l = Line(t)
  <2> HIDE DEF index
  <2> QED
    BY <1>2, LineInserted
<1>9. /\ e \in Buffers /\ Edited(t, e, l, t.viewed_line) /\ SamePrompt(t, e)
      /\ e.cursor_row = t.cursor_row /\ e.cursor_col = t.cursor_col
  <2> HIDE DEF l
  <2> QED
    BY <1>1, <1>8, EditedHere
<1> HIDE DEF t, u, at, len, l, e
<1>10. CASE AtBottom(t)
  <2> DEFINE p == write_path(flush(t), 1, path_length)
  <2>1. /\ p \in Buffers /\ SameText(t, p) /\ HistoryKept(p) /\ Line(p) = Line(t)
        /\ p.current_line_col = (PROMPT_LENGTH + path_length) % W
        /\ CursorBelow(p) /\ CursorFits(p)
    BY <1>1, <1>4, TopOfScreen
  <2>2. u = CursorAtEnd(p)
    BY <1>6, <1>10
  <2> HIDE DEF p
  <2>3. p.current_line_row \in Nat /\ p.current_line_col \in Nat
    BY <2>1 DEF CursorBelow
  <2>4. u \in Buffers /\ SameText(p, u) /\ CursorBelow(u) /\ CursorFits(u)
    BY <2>1, <2>2, <2>3, AtEnd
  <2>5. SameText(t, u) /\ HistoryKept(u)
    BY <2>1, <2>4, SameTextKept DEF SameText
  <2>6. filepath_len' \in Nat /\ path_length' \in Nat
    BY <1>4, <1>6, <1>10
  <2>7. EditorInv'
    BY <2>4, <2>5, <2>6, PromptMoved DEF u
  <2>8. ~Ready
    BY <1>10 DEF Ready, t
  <2> QED
    BY <2>5, <2>7, <2>8 DEF t, u
<1>11. CASE ~AtBottom(t)
  <2>1. u = OneRight(e) /\ UNCHANGED <<filepath_len, path_length>>
    BY <1>4, <1>6, <1>11
  <2>2. HistoryKept(e) /\ Line(e) = l
    BY <1>1, <1>7, <1>8, <1>9, EditedKept
  <2>3. CursorBelow(e) /\ Position(e) = Position(t)
    BY <1>1, <1>9 DEF CursorBelow, Position, SamePrompt
  <2>4. /\ u \in Buffers /\ SameText(e, u) /\ SamePrompt(e, u) /\ CursorBelow(u)
        /\ Position(u) = Position(e) + (IF e.cursor_col = W THEN 0 ELSE 1)
        /\ \/ u.cursor_row > u.current_line_row
           \/ u.cursor_row = e.cursor_row /\ u.cursor_col = e.cursor_col + 1
    BY <1>9, <2>1, <2>3, OneRightMoves
  <2>5. Edited(t, u, l, t.viewed_line) /\ SamePrompt(t, u)
    BY <1>9, <2>4, EditedMoved DEF SamePrompt
  <2>6. HistoryKept(u) /\ Line(u) = l
    BY <1>9, <2>2, <2>4, SameTextKept
  <2>7. Position(t) \in Int /\ Len(l) \in Int
    BY <1>1, <1>8, CursorType, LenProperties DEF Texts
  <2>8. Position(u) = Position(t) + (IF t.cursor_col = W THEN 0 ELSE 1)
    BY <1>9, <2>3, <2>4
  <2>9. CursorFits(t) => (u.cursor_row = u.current_line_row => u.cursor_col >= u.current_line_col)
    <3>1. /\ t.cursor_row \in Int /\ t.cursor_col \in Int /\ t.current_line_col \in Int
          /\ u.cursor_row \in Int /\ u.current_line_row \in Int
      BY <1>1, <2>4 DEF Buffers
    <3>2. u.current_line_row = t.current_line_row /\ u.current_line_col = t.current_line_col
      BY <2>5 DEF SamePrompt
    <3>3. \/ u.cursor_row > u.current_line_row
          \/ u.cursor_row = t.cursor_row /\ u.cursor_col = t.cursor_col + 1
      BY <1>9, <2>4
    <3> QED
      BY <3>1, <3>2, <3>3 DEF CursorFits
  <2>10. ASSUME PromptPlaced, len < MAX_LINE_LENGTH - 1
         PROVE  at \in 0 .. len /\ index = at /\ l = InsertAt(Line(t), at + 1, c)
                /\ Len(l) = len + 1
    <3>1. at <= len /\ 0 <= at
      BY <1>3, <2>10 DEF CursorFits, len
    <3>2. index = at
      BY <1>2, <3>1
    <3> QED
      BY <1>2, <1>8, <2>10, <3>1, <3>2
  <2>11. ASSUME PromptPlaced, Len(l) < MAX_LINE_LENGTH - 1
         PROVE  Position(u) <= Len(l)
    <3>1. len < MAX_LINE_LENGTH - 1
      BY <1>2, <1>8, <2>7, <2>11 DEF len
    <3>2. at \in 0 .. len /\ Len(l) = len + 1
      BY <2>10, <2>11, <3>1
    <3> QED
      BY <1>2, <1>3, <2>7, <2>8, <2>11, <3>2
  <2>12. PromptPlaced => CursorFits(u)
    BY <1>3, <2>6, <2>9, <2>11 DEF CursorFits
  <2>13. EditorInv' /\ (PromptPlaced' <=> PromptPlaced)
    BY <2>1, <2>4, <2>5, <2>6, <2>12, OnlyEdited DEF t, u
  <2>14. \/ SameText(t, u)
         \/ \E i \in 1 .. len + 1 : Edited(t, u, InsertAt(Line(t), i, c), t.viewed_line)
    <3>1. CASE len < MAX_LINE_LENGTH - 1 /\ 0 <= index /\ index <= len
      <4>1. index + 1 \in 1 .. len + 1 /\ l = InsertAt(Line(t), index + 1, c)
        BY <1>2, <1>8, <3>1
      <4> HIDE DEF index
      <4> QED
        BY <2>5, <4>1
    <3>2. CASE ~(len < MAX_LINE_LENGTH - 1 /\ 0 <= index /\ index <= len)
      BY <1>1, <1>8, <2>4, <2>5, <3>2, EditedSame
    <3> QED
      BY <3>1, <3>2
  <2>15. ASSUME Ready
         PROVE  /\ at \in 0 .. len /\ Edited(t, u, InsertAt(Line(t), at + 1, c), t.viewed_line)
                /\ Position(u) = at + 1 /\ PromptPlaced'
    <3>1. PromptPlaced /\ len < MAX_LINE_LENGTH - 1 /\ t.cursor_col # W
      BY <1>1, <2>15, Width DEF Ready, t, len, CursorBelow, W
    <3> QED
      BY <1>3, <2>5, <2>7, <2>8, <2>10, <2>13, <3>1
  <2> QED
    BY <2>13, <2>14, <2>15 DEF t, u, at, len
<1> QED
  BY <1>10, <1>11

-----------------------------------------------------------------------------
(* Recalling a line *)

\* A line of the history takes the place of the line, the cursor behind it.
LEMMA Recalled ==
  ASSUME NEW t \in Buffers, HistoryKept(t), CursorBelow(t),
         NEW l \in Texts, Len(l) < MAX_LINE_LENGTH, NEW v \in 0 .. t.current_line
  PROVE  LET u == CursorAtEnd([t EXCEPT !.viewed_line = v, !.history[t.current_line] = l]) IN
         /\ u \in Buffers /\ HistoryKept(u) /\ Edited(t, u, l, v) /\ SamePrompt(t, u)
         /\ CursorBelow(u) /\ CursorFits(u)
<1> DEFINE e == [t EXCEPT !.viewed_line = v, !.history[t.current_line] = l]
           u == CursorAtEnd(e)
<1>1. v \in Int
  OBVIOUS
<1>2. e \in Buffers /\ Edited(t, e, l, v) /\ SamePrompt(t, e)
  BY <1>1, EditedLine
<1> HIDE DEF e
<1>3. HistoryKept(e) /\ e.current_line_row \in Nat /\ e.current_line_col \in Nat
  BY <1>2, EditedKept DEF SamePrompt, CursorBelow
<1>4. /\ u \in Buffers /\ SameText(e, u) /\ SamePrompt(e, u)
      /\ CursorBelow(u) /\ CursorFits(u)
  BY <1>2, <1>3, AtEnd
<1> HIDE DEF u
<1>5. HistoryKept(u) /\ Edited(t, u, l, v) /\ SamePrompt(t, u)
  BY <1>2, <1>3, <1>4, SameTextKept, EditedMoved DEF SamePrompt
<1> QED
  BY <1>4, <1>5 DEF u, e

\* A line of the history is a line.
LEMMA SlotType ==
  ASSUME NEW t \in Buffers, HistoryKept(t), NEW k \in 0 .. MAX_HISTORY
  PROVE  t.history[k] \in Texts /\ Len(t.history[k]) < MAX_LINE_LENGTH
BY DEF Buffers, HistoryKept

LEMMA EmptyType == <<>> \in Texts /\ Len(<<>>) = 0 /\ Len(<<>>) < MAX_LINE_LENGTH
BY LineEditorAssumption DEF Texts

LEMMA KeyUpRecalls ==
  ASSUME EditorInv, KeyUp
  PROVE  LET t == terminal_buffer
             u == terminal_buffer'
         IN  /\ EditorInv'
             /\ \/ SameText(t, u)
                \/ /\ t.viewed_line > 0
                   /\ Edited(t, u, t.history[t.viewed_line - 1], t.viewed_line - 1)
<1> DEFINE t == terminal_buffer
           u == terminal_buffer'
           f == IF AtBottom(t) THEN write_path(flush(t), 1, path_length) ELSE t
           v == t.viewed_line - 1
           l == t.history[v]
<1>1. t \in Buffers /\ HistoryKept(t) /\ CursorBelow(t)
  BY DEF EditorInv
<1>2. path_length \in Nat /\ filepath_len \in Nat /\ UNCHANGED path_length
      /\ PROMPT_LENGTH \in Nat
  BY LineEditorAssumption DEF EditorInv, KeyUp
<1>3. filepath_len' \in Nat /\ path_length' \in Nat
  BY <1>2 DEF KeyUp
<1>4. f \in Buffers /\ SameText(t, f) /\ HistoryKept(f) /\ CursorBelow(f)
  <2>1. CASE AtBottom(t)
    BY <1>1, <1>2, <2>1, TopOfScreen
  <2>2. CASE ~AtBottom(t)
    BY <1>1, <2>2 DEF SameText
  <2> QED
    BY <2>1, <2>2
<1>5. f.current_line = t.current_line /\ f.viewed_line = t.viewed_line /\ f.history = t.history
  BY <1>4 DEF SameText
<1>6. /\ t.viewed_line \in Int /\ t.viewed_line >= 0 /\ t.viewed_line <= t.current_line
      /\ t.current_line \in Int /\ t.current_line <= MAX_HISTORY /\ MAX_HISTORY \in Int
  BY <1>1, LineEditorAssumption DEF HistoryKept
<1>7. CASE t.viewed_line > 0
  <2>1. v \in 0 .. t.current_line /\ v \in 0 .. MAX_HISTORY
    BY <1>6, <1>7
  <2>2. l \in Texts /\ Len(l) < MAX_LINE_LENGTH
    <3> HIDE DEF v
    <3> QED
      BY <1>1, <2>1, SlotType
  <2>3. u = CursorAtEnd([f EXCEPT !.viewed_line = v, !.history[f.current_line] = l])
    <3>1. u = CursorAtEnd([f EXCEPT !.viewed_line = @ - 1, !.history[t.current_line] = l])
      BY <1>7 DEF KeyUp
    <3> HIDE DEF f, l
    <3> QED
      BY <1>5, <3>1
  <2> HIDE DEF f, l, u, t, v
  <2>4. /\ u \in Buffers /\ HistoryKept(u) /\ Edited(f, u, l, v)
        /\ CursorBelow(u) /\ CursorFits(u)
    BY <1>4, <1>5, <2>1, <2>2, <2>3, Recalled
  <2>5. Edited(t, u, l, v)
    BY <1>4, <2>4 DEF Edited, SameText
  <2>6. EditorInv'
    BY <1>3, <2>4, PromptMoved DEF u
  <2> QED
    BY <1>7, <2>5, <2>6 DEF t, u, v, l
<1>8. CASE ~(t.viewed_line > 0)
  <2>1. u = f
    BY <1>8 DEF KeyUp
  <2>2. SameText(t, u)
    BY <1>4, <2>1
  <2>3. CASE AtBottom(t)
    <3>1. CursorFits(f)
      BY <1>1, <1>2, <2>3, TopOfScreen
    <3> HIDE DEF f
    <3>2. EditorInv'
      BY <1>3, <1>4, <2>1, <3>1, PromptMoved
    <3> QED
      BY <2>2, <3>2
  <2>4. CASE ~AtBottom(t)
    <3>1. UNCHANGED <<terminal_buffer, filepath_len, path_length>>
      BY <1>2, <2>1, <2>4 DEF KeyUp
    <3>2. EditorInv'
      BY <3>1 DEF EditorInv, PromptPlaced, PromptColumn
    <3> QED
      BY <2>2, <3>2
  <2> QED
    BY <2>3, <2>4
<1> QED
  BY <1>7, <1>8

LEMMA KeyDownRecalls ==
  ASSUME EditorInv, KeyDown
  PROVE  LET t == terminal_buffer
             u == terminal_buffer'
             next == t.viewed_line + 1
         IN  /\ EditorInv'
             /\ \/ SameText(t, u)
                \/ /\ t.viewed_line < t.current_line
                   /\ Edited(t, u, IF next < t.current_line THEN t.history[next] ELSE <<>>, next)
<1> DEFINE t == terminal_buffer
           u == terminal_buffer'
           v == t.viewed_line + 1
           l == IF v < t.current_line THEN t.history[v] ELSE <<>>
<1>1. t \in Buffers /\ HistoryKept(t) /\ CursorBelow(t)
  BY DEF EditorInv
<1>2. filepath_len' \in Nat /\ path_length' \in Nat /\ UNCHANGED <<filepath_len, path_length>>
  BY DEF EditorInv, KeyDown
<1>3. /\ t.viewed_line \in Int /\ t.viewed_line >= 0 /\ t.viewed_line <= t.current_line
      /\ t.current_line \in Int /\ t.current_line <= MAX_HISTORY /\ MAX_HISTORY \in Int
  BY <1>1, LineEditorAssumption DEF HistoryKept
<1>4. CASE t.viewed_line < t.current_line
  <2>1. v \in 0 .. t.current_line /\ v \in 0 .. MAX_HISTORY
    BY <1>3, <1>4
  <2>2. l \in Texts /\ Len(l) < MAX_LINE_LENGTH
    <3> HIDE DEF v
    <3> QED
      BY <1>1, <2>1, SlotType, EmptyType
  <2>3. u = CursorAtEnd([t EXCEPT !.viewed_line = v, !.history[t.current_line] = l])
    BY <1>4 DEF KeyDown
  <2> HIDE DEF l, u, t, v
  <2>4. /\ u \in Buffers /\ HistoryKept(u) /\ Edited(t, u, l, v)
        /\ CursorBelow(u) /\ CursorFits(u)
    BY <1>1, <2>1, <2>2, <2>3, Recalled
  <2>5. EditorInv'
    BY <1>2, <2>4, PromptMoved DEF u
  <2> QED
    BY <1>4, <2>4, <2>5 DEF t, u, v, l
<1>5. CASE ~(t.viewed_line < t.current_line)
  <2>1. UNCHANGED <<terminal_buffer, filepath_len, path_length>>
    BY <1>2, <1>5 DEF KeyDown
  <2>2. EditorInv' /\ SameText(t, u)
    BY <2>1 DEF EditorInv, PromptPlaced, PromptColumn, SameText
  <2> QED
    BY <2>2
<1> QED
  BY <1>4, <1>5

-----------------------------------------------------------------------------
(* Entering a line *)

\* The lines entered are a sequence.
LEMMA RecentType ==
  ASSUME NEW t \in Buffers, HistoryKept(t)
  PROVE  /\ Recent(t) \in Seq(Texts) /\ Len(Recent(t)) = t.current_line
         /\ \A k \in 1 .. t.current_line : Recent(t)[k] = t.history[k - 1]
<1>1. /\ t.history \in [0 .. MAX_HISTORY -> Texts]
      /\ t.current_line \in Nat /\ t.current_line <= MAX_HISTORY /\ MAX_HISTORY \in Int
  BY LineEditorAssumption DEF Buffers, HistoryKept
<1>2. \A k \in 1 .. t.current_line : k - 1 \in 0 .. MAX_HISTORY
  BY <1>1
<1>3. Recent(t) \in [1 .. t.current_line -> Texts]
  BY <1>1, <1>2 DEF Recent
<1>4. Recent(t) \in Seq(Texts)
  BY <1>1, <1>3
<1>5. Len(Recent(t)) = t.current_line
  BY <1>1, <1>3, <1>4, LenProperties
<1> QED
  BY <1>4, <1>5 DEF Recent

\* In a sequence that holds it in one place, the first is the only one.
LEMMA OnlyOne ==
  ASSUME NEW S, NEW s \in Seq(S), NEW i \in 1 .. Len(s),
         \A j \in 1 .. Len(s) : s[j] = s[i] => j = i
  PROVE  RemoveFirst(s, s[i]) = RemoveAt(s, i)
<1> DEFINE e == s[i]
           I == {j \in 1 .. Len(s) : s[j] = e}
<1>1. I = {i}
  OBVIOUS
<1>2. i \in Int
  BY LenProperties
<1>3. SelectInSeq(s, LAMBDA v : v = e) = IF I # {} THEN Min(I) ELSE 0
  BY DEF SelectInSeq
<1>4. Min(I) = i
  <2>1. Min({i}) = i
    BY <1>2 DEF Min
  <2> QED
    BY <1>1, <2>1
<1>5. SelectInSeq(s, LAMBDA v : v = e) = i
  BY <1>1, <1>3, <1>4
<1>6. \E j \in 1 .. Len(s) : s[j] = e
  OBVIOUS
<1> QED
  BY <1>5, <1>6 DEF RemoveFirst

\* The lines behind slot i close up, and its line is the last.
ClosedUp(t, i, h) ==
  /\ \A k \in 0 .. i - 1 : h[k] = t.history[k]
  /\ \A k \in i .. t.current_line - 2 : h[k] = t.history[k + 1]
  /\ h[t.current_line - 1] = t.history[i]
  /\ h[t.current_line] = <<>>
  /\ \A k \in t.current_line + 1 .. MAX_HISTORY : h[k] = t.history[k]

\* A line that was entered before moves to the end.
LEMMA AgainEntered ==
  ASSUME NEW t \in Buffers, HistoryKept(t), NEW i \in 0 .. t.current_line - 1,
         t.history[i] = Line(t), NEW h, ClosedUp(t, i, h),
         NEW u \in Buffers, u.history = h, u.current_line = t.current_line,
         u.hist_length = t.hist_length, u.viewed_line = t.current_line
  PROVE  /\ HistoryKept(u) /\ Line(u) = <<>>
         /\ Recent(u) = Append(RemoveFirst(Recent(t), Line(t)), Line(t))
<1> DEFINE n == t.current_line
<1>1. /\ n \in Int /\ n <= MAX_HISTORY /\ MAX_HISTORY \in Int /\ i \in Int /\ 0 <= i /\ i < n
      /\ t.history \in [0 .. MAX_HISTORY -> Texts]
  BY LineEditorAssumption DEF Buffers, HistoryKept
<1>3. /\ \A k \in 0 .. i - 1 : h[k] = t.history[k]
      /\ \A k \in i .. n - 2 : h[k] = t.history[k + 1]
      /\ h[n - 1] = t.history[i] /\ h[n] = <<>>
      /\ \A k \in n + 1 .. MAX_HISTORY : h[k] = t.history[k]
  BY DEF ClosedUp
<1>21. /\ u.history = h /\ u.current_line = n /\ u.hist_length = t.hist_length
       /\ u.viewed_line = n /\ t.hist_length = n
  BY DEF HistoryKept
<1>4. \A j, k \in 0 .. n - 1 : t.history[j] = t.history[k] => j = k
  BY DEF HistoryKept
<1> DEFINE from(k) == IF k < i THEN k ELSE IF k <= n - 2 THEN k + 1 ELSE i
<1>5. \A k \in 0 .. n - 1 : h[k] = t.history[from(k)] /\ from(k) \in 0 .. n - 1
  BY <1>1, <1>3
<1>6. \A j, k \in 0 .. n - 1 : from(j) = from(k) => j = k
  <2> SUFFICES ASSUME NEW j \in 0 .. n - 1, NEW k \in 0 .. n - 1, from(j) = from(k)
               PROVE  j = k
    OBVIOUS
  <2> HIDE DEF n
  <2>1. j \in Int /\ k \in Int /\ j <= n - 1 /\ k <= n - 1
    BY <1>1
  <2> QED
    BY <1>1, <2>1
<1>7. \A j, k \in 0 .. n - 1 : h[j] = h[k] => j = k
  <2> HIDE DEF from, n
  <2> QED
    BY <1>4, <1>5, <1>6
<1>8. \A k \in 0 .. MAX_HISTORY : Len(h[k]) < MAX_LINE_LENGTH
  <2>1. \A k \in 0 .. MAX_HISTORY : Len(t.history[k]) < MAX_LINE_LENGTH
    BY DEF HistoryKept
  <2>2. Len(h[n]) < MAX_LINE_LENGTH
    BY <1>3, EmptyType
  <2>3. ASSUME NEW k \in 0 .. n - 1 PROVE Len(h[k]) < MAX_LINE_LENGTH
    <3>1. from(k) \in 0 .. MAX_HISTORY
      BY <1>1, <1>5
    <3> HIDE DEF from
    <3> QED
      BY <1>5, <2>1, <3>1
  <2>4. ASSUME NEW k \in n + 1 .. MAX_HISTORY PROVE Len(h[k]) < MAX_LINE_LENGTH
    BY <1>1, <1>3, <2>1
  <2> QED
    BY <1>1, <2>2, <2>3, <2>4
<1>22. i \in 0 .. n - 1
  OBVIOUS
<1> HIDE DEF n, from
<1>9. HistoryKept(u)
  <2>1. n \in 0 .. n /\ n \in 0 .. MAX_HISTORY
    BY <1>1
  <2> QED
    BY <1>7, <1>8, <1>21, <2>1 DEF HistoryKept
<1>10. Line(u) = <<>>
  BY <1>3, <1>21 DEF Line
<1> DEFINE s == Recent(t)
           r == RemoveAt(s, i + 1)
           p == Recent(u)
<1>11. /\ s \in Seq(Texts) /\ Len(s) = n
       /\ \A k \in 1 .. n : s[k] = t.history[k - 1]
  BY RecentType DEF n
<1>12. /\ p \in Seq(Texts) /\ Len(p) = n
       /\ \A k \in 1 .. n : p[k] = h[k - 1]
  BY <1>9, <1>21, RecentType
<1>13. i + 1 \in 1 .. Len(s) /\ s[i + 1] = Line(t)
  BY <1>1, <1>11
<1>14. \A j \in 1 .. Len(s) : s[j] = s[i + 1] => j = i + 1
  <2> SUFFICES ASSUME NEW j \in 1 .. n, s[j] = s[i + 1]
               PROVE  j = i + 1
    BY <1>11
  <2>1. j - 1 \in 0 .. n - 1 /\ j \in Int
    BY <1>1
  <2>2. t.history[j - 1] = t.history[i]
    BY <1>11, <1>13
  <2>3. j - 1 = i
    BY <1>4, <1>22, <2>1, <2>2
  <2> QED
    BY <1>1, <2>1, <2>3
<1> DEFINE m == i + 1
<1>15. RemoveFirst(s, Line(t)) = r
  <2> HIDE DEF s, m
  <2>1. m \in 1 .. Len(s) /\ \A j \in 1 .. Len(s) : s[j] = s[m] => j = m
    BY <1>13, <1>14 DEF m
  <2>2. RemoveFirst(s, s[m]) = RemoveAt(s, m)
    BY <1>11, <2>1, OnlyOne
  <2> QED
    BY <1>13, <2>2 DEF m
<1>16. /\ r \in Seq(Texts) /\ Len(r) = n - 1
       /\ \A k \in 1 .. n - 1 : r[k] = IF k < i + 1 THEN s[k] ELSE s[k + 1]
  <2> HIDE DEF s, m
  <2>1. /\ RemoveAt(s, m) \in Seq(Texts) /\ Len(RemoveAt(s, m)) = Len(s) - 1
        /\ \A k \in 1 .. Len(RemoveAt(s, m)) :
             RemoveAt(s, m)[k] = IF k < m THEN s[k] ELSE s[k + 1]
    BY <1>11, <1>13, Removed DEF m
  <2> QED
    BY <1>11, <2>1 DEF m
<1> DEFINE a == Append(r, Line(t))
<1>17. Line(t) \in Texts
  BY LineType
<1> HIDE DEF s, r, p, m
<1>18. /\ a \in Seq(Texts) /\ Len(a) = n
       /\ \A k \in 1 .. n - 1 : a[k] = r[k]
       /\ a[n] = Line(t)
  <2>1. /\ a \in Seq(Texts) /\ Len(a) = n - 1 + 1
        /\ \A k \in 1 .. n - 1 : a[k] = r[k]
        /\ a[n - 1 + 1] = Line(t)
    BY <1>16, <1>17, AppendProperties
  <2>2. n - 1 + 1 = n
    BY <1>1
  <2> QED
    BY <2>1, <2>2
<1> HIDE DEF a
<1>19. ASSUME NEW k \in 1 .. n PROVE p[k] = a[k]
  <2>1. CASE k = n
    BY <1>1, <1>3, <1>12, <1>18, <2>1
  <2>2. CASE k < i + 1
    <3>1. p[k] = h[k - 1] /\ k - 1 \in 0 .. i - 1
      BY <1>1, <1>12, <2>2
    <3>2. a[k] = r[k] /\ r[k] = s[k] /\ s[k] = t.history[k - 1]
      BY <1>1, <1>11, <1>16, <1>18, <2>2
    <3> QED
      BY <1>3, <3>1, <3>2
  <2>3. CASE i + 1 <= k /\ k < n
    <3>1. p[k] = h[k - 1] /\ k - 1 \in i .. n - 2
      BY <1>1, <1>12, <2>3
    <3>2. a[k] = r[k] /\ r[k] = s[k + 1] /\ s[k + 1] = t.history[k + 1 - 1]
      BY <1>1, <1>11, <1>16, <1>18, <2>3
    <3>3. k + 1 - 1 = k - 1 + 1
      BY <1>1
    <3> QED
      BY <1>3, <3>1, <3>2, <3>3
  <2> QED
    BY <1>1, <2>1, <2>2, <2>3
<1>20. p = a
  BY <1>12, <1>18, <1>19, SeqEqual
<1> QED
  BY <1>9, <1>10, <1>15, <1>20 DEF p, a, s

\* A line that was not comes behind those that were.
LEMMA FirstEntered ==
  ASSUME NEW t \in Buffers, HistoryKept(t), t.current_line < MAX_HISTORY,
         \A k \in 0 .. t.current_line - 1 : t.history[k] # Line(t),
         NEW u \in Buffers, u.history = [t.history EXCEPT ![t.current_line + 1] = <<>>],
         u.current_line = t.current_line + 1, u.hist_length = t.hist_length + 1,
         u.viewed_line = t.current_line + 1
  PROVE  /\ HistoryKept(u) /\ Line(u) = <<>>
         /\ Recent(u) = Append(RemoveFirst(Recent(t), Line(t)), Line(t))
<1> DEFINE n == t.current_line
           m == n + 1
           h == u.history
<1>1. /\ n \in Nat /\ n \in Int /\ n < MAX_HISTORY /\ MAX_HISTORY \in Int
      /\ m \in Int /\ m \in 0 .. MAX_HISTORY /\ m \in 0 .. m
      /\ t.history \in [0 .. MAX_HISTORY -> Texts] /\ t.hist_length = n
  BY LineEditorAssumption DEF Buffers, HistoryKept
<1>2. /\ h[m] = <<>>
      /\ \A k \in 0 .. MAX_HISTORY : k # m => h[k] = t.history[k]
  BY <1>1
<1>3. \A k \in 0 .. n : k \in 0 .. MAX_HISTORY /\ k # m
  BY <1>1
<1>4. \A k \in 0 .. n : h[k] = t.history[k]
  BY <1>2, <1>3
<1>5. \A j, k \in 0 .. n - 1 : t.history[j] = t.history[k] => j = k
  BY DEF HistoryKept
<1>6. t.history[n] = Line(t) /\ \A k \in 0 .. n - 1 : t.history[k] # t.history[n]
  BY DEF Line
<1>7. \A k \in 0 .. MAX_HISTORY : Len(h[k]) < MAX_LINE_LENGTH
  <2>1. \A k \in 0 .. MAX_HISTORY : Len(t.history[k]) < MAX_LINE_LENGTH
    BY DEF HistoryKept
  <2> QED
    BY <1>2, <2>1, EmptyType
<1>8. u.current_line = m /\ u.viewed_line = m /\ u.hist_length = m /\ u.history = h
  BY <1>1
<1> HIDE DEF n, h
<1>9. \A j, k \in 0 .. m - 1 : h[j] = h[k] => j = k
  <2> SUFFICES ASSUME NEW j \in 0 .. n, NEW k \in 0 .. n, t.history[j] = t.history[k]
               PROVE  j = k
    BY <1>1, <1>4
  <2>1. j \in 0 .. n - 1 \/ j = n
    BY <1>1
  <2>2. k \in 0 .. n - 1 \/ k = n
    BY <1>1
  <2> QED
    BY <1>5, <1>6, <2>1, <2>2
<1> HIDE DEF m
<1>10. HistoryKept(u)
  BY <1>1, <1>7, <1>8, <1>9 DEF HistoryKept
<1>11. Line(u) = <<>>
  BY <1>2, <1>8 DEF Line
<1> DEFINE s == Recent(t)
           a == Append(s, Line(t))
           p == Recent(u)
<1>12. /\ s \in Seq(Texts) /\ Len(s) = n
       /\ \A k \in 1 .. n : s[k] = t.history[k - 1]
  BY RecentType DEF n
<1>13. /\ p \in Seq(Texts) /\ Len(p) = m
       /\ \A k \in 1 .. m : p[k] = h[k - 1]
  BY <1>8, <1>10, RecentType
<1>14. Line(t) \in Texts
  BY LineType
<1> HIDE DEF s, p
<1>15. ~(\E k \in 1 .. Len(s) : s[k] = Line(t))
  <2> SUFFICES ASSUME NEW k \in 1 .. n, s[k] = Line(t)
               PROVE  FALSE
    BY <1>12
  <2>1. k - 1 \in 0 .. n - 1
    BY <1>1
  <2> QED
    BY <1>6, <1>12, <2>1
<1>16. RemoveFirst(s, Line(t)) = s
  BY <1>15 DEF RemoveFirst
<1>17. /\ a \in Seq(Texts) /\ Len(a) = n + 1
       /\ \A k \in 1 .. n : a[k] = s[k]
       /\ a[n + 1] = Line(t)
  BY <1>12, <1>14, AppendProperties
<1> HIDE DEF a
<1>18. ASSUME NEW k \in 1 .. m PROVE p[k] = a[k]
  <2>1. CASE k = m
    <3>1. k - 1 = n /\ n \in 0 .. n
      BY <1>1, <2>1 DEF m
    <3> QED
      BY <1>4, <1>6, <1>13, <1>17, <2>1, <3>1 DEF m
  <2>2. CASE k # m
    <3>1. k \in 1 .. n /\ k - 1 \in 0 .. n
      BY <1>1, <2>2 DEF m
    <3> QED
      BY <1>4, <1>12, <1>13, <1>17, <3>1
  <2> QED
    BY <2>1, <2>2
<1>19. p = a
  <2>1. Len(a) = m
    BY <1>17 DEF m
  <2> QED
    BY <1>13, <1>17, <1>18, <2>1, SeqEqual
<1> QED
  BY <1>10, <1>11, <1>16, <1>19 DEF s, p, a

\* A line that was entered is in the history once, and last.
LEMMA LineEntered ==
  ASSUME NEW t \in Buffers, HistoryKept(t), t.current_line < MAX_HISTORY
  PROVE  LET u == add_line_to_history(t) IN
         /\ u \in Buffers /\ HistoryKept(u) /\ SamePrompt(t, u)
         /\ u.cursor_row = t.cursor_row /\ u.cursor_col = t.cursor_col
         /\ IF Line(t) = <<>> THEN SameText(t, u)
            ELSE /\ Line(u) = <<>> /\ u.viewed_line = u.current_line
                 /\ Recent(u) = Append(RemoveFirst(Recent(t), Line(t)), Line(t))
<1> DEFINE u == add_line_to_history(t)
           n == t.current_line
           same == is_same_line(t)
<1>1. /\ n \in Int /\ 0 <= n /\ n < MAX_HISTORY /\ MAX_HISTORY \in Int
      /\ t.history \in [0 .. MAX_HISTORY -> Texts] /\ t.hist_length \in Int
  BY LineEditorAssumption DEF Buffers, HistoryKept
<1>2. CASE Line(t) = <<>>
  <2>1. u = t
    BY <1>2 DEF add_line_to_history
  <2> QED
    BY <1>2, <2>1 DEF SameText, SamePrompt
<1>3. CASE Line(t) # <<>> /\ same = {}
  <2> DEFINE m == n + 1
             l == t.hist_length + 1
             h == [t.history EXCEPT ![n + 1] = <<>>]
             v == [t EXCEPT !.current_line = m, !.hist_length = l,
                            !.viewed_line = m, !.history = h]
  <2>1. u = v
    BY <1>3 DEF add_line_to_history
  <2>2. m \in Int /\ l \in Int /\ h \in [0 .. MAX_HISTORY -> Texts]
    BY <1>1, EmptyType
  <2> HIDE DEF m, l, h, u
  <2>3. v \in Buffers /\ SamePrompt(t, v)
    BY <2>2 DEF Buffers, SamePrompt
  <2>4. /\ v.current_line = m /\ v.hist_length = l /\ v.viewed_line = m
        /\ v.cursor_row = t.cursor_row /\ v.cursor_col = t.cursor_col
    BY DEF Buffers
  <2>5. v.history = h
    BY DEF Buffers
  <2> HIDE DEF v
  <2>6. \A k \in 0 .. t.current_line - 1 : t.history[k] # Line(t)
    BY <1>3 DEF is_same_line
  <2>7. /\ HistoryKept(v) /\ Line(v) = <<>>
        /\ Recent(v) = Append(RemoveFirst(Recent(t), Line(t)), Line(t))
    BY <2>3, <2>4, <2>5, <2>6, FirstEntered DEF m, l, h
  <2> QED
    BY <1>3, <2>1, <2>3, <2>4, <2>7 DEF u
<1>4. CASE Line(t) # <<>> /\ same # {}
  <2> DEFINE i == CHOOSE k \in same : \A j \in same : k <= j
             h == [k \in DOMAIN t.history |->
                     IF k = n - 1 THEN t.history[i]
                     ELSE IF k \in i .. n - 2 THEN t.history[k + 1]
                     ELSE IF k = n THEN <<>> ELSE t.history[k]]
             v == [t EXCEPT !.history = h, !.viewed_line = n]
  <2>1. u = v
    BY <1>4 DEF add_line_to_history
  <2>2. i \in 0 .. n - 1 /\ t.history[i] = Line(t)
    <3>1. PICK k \in 0 .. n - 1 : k \in same /\ t.history[k] = Line(t)
      BY <1>4 DEF is_same_line
    <3>2. \A j \in same : j = k
      BY <3>1 DEF is_same_line, HistoryKept
    <3>3. k <= k
      BY <1>1
    <3>4. i \in same
      BY <3>1, <3>2, <3>3
    <3> QED
      BY <3>1, <3>2, <3>4
  <2> HIDE DEF i, u, same
  <2>3. DOMAIN t.history = 0 .. MAX_HISTORY
    BY <1>1
  <2>4. i \in Int /\ 0 <= i /\ i < n
    BY <1>1, <2>2
  <2>5. ASSUME NEW k \in 0 .. MAX_HISTORY
        PROVE  /\ h[k] = IF k = n - 1 THEN t.history[i]
                         ELSE IF k \in i .. n - 2 THEN t.history[k + 1]
                         ELSE IF k = n THEN <<>> ELSE t.history[k]
    BY <2>3
  <2>6. DOMAIN h = 0 .. MAX_HISTORY /\ h = [k \in DOMAIN h |-> h[k]]
    BY <2>3
  <2> HIDE DEF h, n
  <2>7. ClosedUp(t, i, h)
    <3>1. ASSUME NEW k \in 0 .. i - 1 PROVE h[k] = t.history[k]
      BY <1>1, <2>4, <2>5
    <3>2. ASSUME NEW k \in i .. n - 2 PROVE h[k] = t.history[k + 1]
      BY <1>1, <2>4, <2>5
    <3>3. h[n - 1] = t.history[i] /\ h[n] = <<>>
      BY <1>1, <2>4, <2>5
    <3>4. ASSUME NEW k \in n + 1 .. MAX_HISTORY PROVE h[k] = t.history[k]
      BY <1>1, <2>4, <2>5
    <3> QED
      BY <3>1, <3>2, <3>3, <3>4 DEF ClosedUp, n
  <2>8. h \in [0 .. MAX_HISTORY -> Texts]
    <3>1. ASSUME NEW k \in 0 .. MAX_HISTORY PROVE h[k] \in Texts
      <4>1. k \in i .. n - 2 => k + 1 \in 0 .. MAX_HISTORY
        BY <1>1, <2>4
      <4>2. i \in 0 .. MAX_HISTORY
        BY <1>1, <2>4
      <4> QED
        BY <1>1, <2>5, <4>1, <4>2, EmptyType
    <3> QED
      BY <2>6, <3>1
  <2>9. v \in Buffers /\ SamePrompt(t, v)
    BY <1>1, <2>8 DEF Buffers, SamePrompt
  <2>10. /\ v.current_line = n /\ v.hist_length = t.hist_length /\ v.viewed_line = n
         /\ v.cursor_row = t.cursor_row /\ v.cursor_col = t.cursor_col
    BY DEF Buffers, n
  <2>11. v.history = h
    BY DEF Buffers
  <2> HIDE DEF v
  <2>12. /\ HistoryKept(v) /\ Line(v) = <<>>
         /\ Recent(v) = Append(RemoveFirst(Recent(t), Line(t)), Line(t))
    BY <2>2, <2>7, <2>9, <2>10, <2>11, AgainEntered DEF n
  <2> QED
    BY <1>4, <2>1, <2>9, <2>10, <2>12 DEF u, n
<1> QED
  BY <1>2, <1>3, <1>4

\* A line with a character in it takes at least one row.
LEMMA LineTakesRows ==
  ASSUME NEW t \in Buffers, HistoryKept(t), filepath_len \in Nat
  PROVE  /\ row_before_path(t) \in Nat
         /\ Line(t) # <<>> => row_before_path(t) >= 1
<1> DEFINE len == Len(Line(t))
           n == len + PromptColumn + W - 1
           q == n \div W
<1>1. len \in Nat /\ PromptColumn \in Nat /\ W \in Int /\ W > 0 /\ Line(t) \in Texts
  BY LineType, PromptLeft, Width
<1>2. n \in Nat /\ row_before_path(t) = q
  BY <1>1 DEF row_before_path, W
<1>3. len = 0 => Line(t) = <<>>
  BY <1>1, EmptySeq DEF Texts
<1> HIDE DEF n
<1>4. q \in Nat /\ (n % W) \in 0 .. W - 1 /\ n = Cells(q) + (n % W)
  BY <1>2, Divided
<1> DEFINE r == n % W
<1>5. r \in Int /\ r < W /\ n = Cells(q) + r
  BY <1>1, <1>4
<1> HIDE DEF q, r, len
<1>6. ASSUME len # 0 PROVE q >= 1
  <2>1. n >= W
    BY <1>1, <1>6 DEF n
  <2>2. q = 0 => Cells(q) = 0
    BY CellsStep
  <2> QED
    BY <1>1, <1>2, <1>4, <1>5, <2>1, <2>2
<1> QED
  BY <1>2, <1>3, <1>4, <1>6 DEF q, len

\* A command moves the prompt down, or to the top of the screen, where it is
\* when the screen was full; and a row at least comes before the next one.
LEMMA CommandMoves ==
  ASSUME NEW t \in Buffers, HistoryKept(t), CursorBelow(t), filepath_len \in Nat,
         path_length \in Nat,
         NEW top, top = IF AtBottom(t) THEN flush(t) ELSE t,
         NEW e \in execute(top)
  PROVE  LET rows == IF e.res /\ ~AtBottom(t) THEN row_before_path(t) ELSE 1 IN
         /\ e.t \in Buffers /\ SameText(t, e.t) /\ e.path_length \in Nat
         /\ rows \in Int /\ e.t.current_line_row + rows >= 0
<1> DEFINE down(rows) == [top EXCEPT !.current_line_row = @ + rows]
           outcome(after, res, length) == [t |-> after, res |-> res, path_length |-> length]
           rows == IF e.res /\ ~AtBottom(t) THEN row_before_path(t) ELSE 1
<1>1. /\ top \in Buffers /\ SameText(t, top) /\ HistoryKept(top)
      /\ top.current_line_row \in Int /\ top.current_line_row >= -1
      /\ ~AtBottom(t) => top.current_line_row >= 0
  <2>1. CASE AtBottom(t)
    BY <2>1, Flushed
  <2>2. CASE ~AtBottom(t)
    BY <2>2 DEF SameText, CursorBelow
  <2> QED
    BY <2>1, <2>2
<1>2. Line(top) = Line(t)
  BY <1>1, SameTextKept
<1>3. row_before_path(t) \in Nat /\ (Line(t) # <<>> => row_before_path(t) >= 1)
  BY LineTakesRows
<1>4. row_before_path(top) = row_before_path(t)
  BY <1>2 DEF row_before_path
<1>5. rows \in Int /\ rows >= 0
  BY <1>3
<1>6. \/ \E res \in BOOLEAN : e = outcome(top, res, path_length)
      \/ e = outcome(down(row_before_path(top)), FALSE, path_length)
      \/ \E r \in CommandRows, length \in PathLengths : e = outcome(down(r), TRUE, length)
      \/ e = outcome(flush(top), TRUE, path_length) /\ Line(top) # <<>>
  <2> DEFINE blank == {outcome(top, res, path_length) : res \in BOOLEAN}
             unknown == {outcome(down(row_before_path(top)), FALSE, path_length)}
             known == {outcome(down(p[1]), TRUE, p[2]) : p \in CommandRows \X PathLengths}
             clear == {outcome(flush(top), TRUE, path_length)}
  <2>1. execute(top) = IF Line(top) = <<>> THEN blank
                       ELSE blank \cup unknown \cup known \cup clear
    BY DEF execute
  <2> HIDE DEF blank, unknown, known, clear
  <2>2. \/ e \in blank
        \/ e \in unknown
        \/ e \in known
        \/ e \in clear /\ Line(top) # <<>>
    BY <2>1
  <2> HIDE DEF outcome, down
  <2>3. e \in blank => \E res \in BOOLEAN : e = outcome(top, res, path_length)
    BY DEF blank
  <2>4. e \in unknown => e = outcome(down(row_before_path(top)), FALSE, path_length)
    BY DEF unknown
  <2>5. e \in known => \E r \in CommandRows, length \in PathLengths :
                          e = outcome(down(r), TRUE, length)
    BY DEF known
  <2>6. e \in clear => e = outcome(flush(top), TRUE, path_length)
    BY DEF clear
  <2> QED
    BY <2>2, <2>3, <2>4, <2>5, <2>6
<1>7. ASSUME NEW r \in Nat
      PROVE  LET d == down(r) IN
             d \in Buffers /\ SameText(top, d) /\ d.current_line_row = top.current_line_row + r
  <2> DEFINE row == top.current_line_row + r
             v == [top EXCEPT !.current_line_row = row]
  <2>1. row \in Int /\ down(r) = v
    BY <1>1
  <2> HIDE DEF row
  <2>2. v \in Buffers /\ SameText(top, v)
    BY <1>1, <2>1 DEF Buffers, SameText
  <2>3. v.current_line_row = row
    BY <1>1 DEF Buffers
  <2> HIDE DEF v
  <2> QED
    BY <2>1, <2>2, <2>3 DEF row
<1> DEFINE Moved(a) == a \in Buffers /\ SameText(t, a)
<1>8. CASE \E res \in BOOLEAN : e = outcome(top, res, path_length)
  <2>1. PICK res \in BOOLEAN : e = outcome(top, res, path_length)
    BY <1>8
  <2>2. e.t = top /\ e.path_length = path_length /\ e.res = res
    BY <2>1
  <2> HIDE DEF rows
  <2>3. e.t.current_line_row + rows >= 0
    <3>1. AtBottom(t) => rows = 1
      BY DEF rows
    <3> QED
      BY <1>1, <1>5, <2>2, <3>1
  <2> QED
    BY <1>1, <1>5, <2>2, <2>3 DEF rows
<1>9. ASSUME NEW r \in Nat, NEW res \in BOOLEAN, NEW length \in Nat,
             e = outcome(down(r), res, length)
      PROVE  e.t \in Buffers /\ SameText(t, e.t) /\ e.path_length \in Nat
             /\ e.t.current_line_row + rows >= 0
  <2>1. e.t = down(r) /\ e.path_length = length
    BY <1>9
  <2>2. /\ e.t \in Buffers /\ SameText(top, e.t)
        /\ e.t.current_line_row = top.current_line_row + r
    BY <1>7, <2>1
  <2>3. SameText(t, e.t)
    BY <1>1, <2>2 DEF SameText
  <2>4. AtBottom(t) => rows = 1
    OBVIOUS
  <2> HIDE DEF rows
  <2>5. e.t.current_line_row + rows >= 0
    BY <1>1, <1>5, <2>2, <2>4
  <2> QED
    BY <2>1, <2>2, <2>3, <2>5
<1>10. CASE e = outcome(down(row_before_path(top)), FALSE, path_length)
  BY <1>3, <1>4, <1>5, <1>9, <1>10
<1>11. CASE \E r \in CommandRows, length \in PathLengths : e = outcome(down(r), TRUE, length)
  <2>1. PICK r \in CommandRows, length \in PathLengths : e = outcome(down(r), TRUE, length)
    BY <1>11
  <2>2. r \in Nat /\ length \in Nat
    BY LineEditorAssumption
  <2> QED
    BY <1>5, <1>9, <2>1, <2>2
<1>12. CASE e = outcome(flush(top), TRUE, path_length) /\ Line(top) # <<>>
  <2>1. e.t = flush(top) /\ e.path_length = path_length /\ e.res = TRUE
    BY <1>12
  <2>2. e.t \in Buffers /\ SameText(top, e.t) /\ e.t.current_line_row = -1
    BY <1>1, <2>1, Flushed
  <2>3. SameText(t, e.t)
    BY <1>1, <2>2 DEF SameText
  <2>4. rows >= 1
    BY <1>2, <1>3, <1>12
  <2> HIDE DEF rows
  <2>5. e.t.current_line_row + rows >= 0
    BY <1>5, <2>2, <2>4
  <2> QED
    BY <1>5, <2>1, <2>2, <2>3, <2>5 DEF rows
<1> QED
  BY <1>6, <1>8, <1>10, <1>11, <1>12

LEMMA EnterKeeps ==
  ASSUME EditorInv, Enter
  PROVE  LET t == terminal_buffer
             u == terminal_buffer'
         IN  /\ EditorInv'
             /\ \/ SameText(t, u)
                \/ /\ Line(t) # <<>> /\ Line(u) = <<>> /\ u.viewed_line = u.current_line
                   /\ Recent(u) = Append(RemoveFirst(Recent(t), Line(t)), Line(t))
<1> DEFINE t == terminal_buffer
           u == terminal_buffer'
           top == IF AtBottom(t) THEN flush(t) ELSE t
<1>1. /\ t \in Buffers /\ HistoryKept(t) /\ CursorBelow(t)
      /\ filepath_len \in Nat /\ path_length \in Nat /\ PROMPT_LENGTH \in Nat
  BY LineEditorAssumption DEF EditorInv
<1>2. CASE t.hist_length >= MAX_HISTORY
  <2>1. UNCHANGED <<terminal_buffer, filepath_len, path_length>>
    BY <1>2 DEF Enter, terminal
  <2> QED
    BY <2>1 DEF EditorInv, PromptPlaced, PromptColumn, SameText
<1>3. CASE ~(t.hist_length >= MAX_HISTORY)
  <2>1. PICK e \in execute(top) :
          /\ u = add_line_to_history(
                   write_path(e.t, IF e.res /\ ~AtBottom(t) THEN row_before_path(t) ELSE 1,
                              e.path_length))
          /\ filepath_len' = PROMPT_LENGTH + e.path_length
          /\ path_length' = e.path_length
    BY <1>3 DEF Enter
  <2> DEFINE rows == IF e.res /\ ~AtBottom(t) THEN row_before_path(t) ELSE 1
             w == write_path(e.t, rows, e.path_length)
  <2> HIDE DEF top
  <2>2. /\ e.t \in Buffers /\ SameText(t, e.t) /\ e.path_length \in Nat
        /\ rows \in Int /\ e.t.current_line_row + rows >= 0
    BY <1>1, CommandMoves DEF top
  <2>3. HistoryKept(e.t)
    BY <1>1, <2>2, SameTextKept
  <2>4. u = add_line_to_history(w)
    BY <2>1
  <2> HIDE DEF rows
  <2>5. w \in Buffers /\ SameText(e.t, w) /\ CursorBelow(w) /\ CursorFits(w) /\ Position(w) = 0
    BY <2>2, <2>3, WritePath
  <2> HIDE DEF w, u
  <2>6. SameText(t, w)
    BY <2>2, <2>5 DEF SameText
  <2>7. HistoryKept(w) /\ Line(w) = Line(t)
    BY <1>1, <2>5, <2>6, SameTextKept
  <2>8. w.current_line < MAX_HISTORY
    <3>1. t.hist_length < MAX_HISTORY
      BY <1>1, <1>3, LineEditorAssumption DEF Buffers
    <3> QED
      BY <2>6, <2>7, <3>1 DEF SameText, HistoryKept
  <2>9. /\ u \in Buffers /\ HistoryKept(u) /\ SamePrompt(w, u)
        /\ u.cursor_row = w.cursor_row /\ u.cursor_col = w.cursor_col
        /\ IF Line(w) = <<>> THEN SameText(w, u)
           ELSE /\ Line(u) = <<>> /\ u.viewed_line = u.current_line
                /\ Recent(u) = Append(RemoveFirst(Recent(w), Line(w)), Line(w))
    BY <2>4, <2>5, <2>7, <2>8, LineEntered
  <2>10. Position(u) = 0 /\ CursorBelow(u)
    BY <2>5, <2>9 DEF Position, CursorBelow, SamePrompt
  <2>11. CursorFits(u)
    <3>1. Len(Line(u)) \in Nat
      BY <2>9, LineType
    <3>2. u.cursor_row = u.current_line_row => u.cursor_col >= u.current_line_col
      BY <2>5, <2>9 DEF SamePrompt, CursorFits
    <3> QED
      BY <2>10, <3>1, <3>2 DEF CursorFits
  <2>12. filepath_len' \in Nat /\ path_length' \in Nat
    BY <1>1, <2>1, <2>2
  <2>13. EditorInv'
    BY <2>9, <2>10, <2>11, <2>12, PromptMoved DEF u
  <2>14. Recent(w) = Recent(t)
    BY <2>6 DEF Recent, SameText
  <2>15. Line(t) = <<>> => SameText(t, u)
    BY <2>6, <2>7, <2>9 DEF SameText
  <2> QED
    BY <2>7, <2>9, <2>13, <2>14, <2>15 DEF u
<1> QED
  BY <1>2, <1>3

-----------------------------------------------------------------------------
(* The invariant holds *)

LEMMA DriverType ==
  ASSUME keyboard_state \in Drivers
  PROVE  /\ KeyboardInterrupt => keyboard_state' \in Drivers
         /\ keyboard_state' = get_keyboard_buffer => keyboard_state' \in Drivers
<1>1. ASSUME NEW byte PROVE keyboard_isr(byte) \in Drivers
  <2> DEFINE st == keyboard_state
             shift == (st.is_shift_pressed \/ byte = Press("shift")) /\ byte # Release("shift")
             caps == st.is_caps_lock_on # (byte = Press("capslock"))
             ascii == IF st.read_extended_mode THEN extended_to_key(byte)
                      ELSE keyboard_scancode_to_ascii(byte, shift, caps)
  <2>1. shift \in BOOLEAN /\ caps \in BOOLEAN
    OBVIOUS
  <2>2. extended_to_key(byte) \in Characters \cup {None}
    BY DEF extended_to_key, Characters
  <2>3. keyboard_scancode_to_ascii(byte, shift, caps) \in Characters \cup {None}
    <3> HIDE DEF shift, caps
    <3> QED
      BY DEF keyboard_scancode_to_ascii, Characters
  <2>4. ascii \in Characters \cup {None}
    BY <2>2, <2>3
  <2>5. CASE byte = Prefix
    BY <2>5 DEF keyboard_isr, Drivers
  <2>6. CASE byte # Prefix
    <3>1. keyboard_isr(byte) = [read_extended_mode |-> FALSE, is_shift_pressed |-> shift,
                                is_caps_lock_on |-> caps, keyboard_buffer |-> ascii]
      BY <2>6 DEF keyboard_isr
    <3> HIDE DEF shift, caps, ascii
    <3> QED
      BY <2>1, <2>4, <3>1 DEF Drivers
  <2> QED
    BY <2>5, <2>6
<1>2. get_keyboard_buffer \in Drivers
  BY DEF get_keyboard_buffer, Drivers
<1> QED
  BY <1>1, <1>2 DEF KeyboardInterrupt

LEMMA InitiallyIInv ==
  ASSUME Init
  PROVE  IInv
<1>1. keyboard_state \in Drivers
  BY DEF Init, KeyboardInit, Drivers
<1> DEFINE t == terminal_buffer
           h == [k \in 0 .. MAX_HISTORY |-> <<>>]
           col == PROMPT_LENGTH + 1
<1>2. /\ filepath_len \in Nat /\ path_length \in Nat
      /\ col \in Int /\ col \in 0 .. W /\ MAX_HISTORY \in Nat
      /\ W \in Nat \ {0} /\ 0 \in 0 .. MAX_HISTORY
  BY LineEditorAssumption, Width DEF Init, terminal_initialize, W
<1>3. h \in [0 .. MAX_HISTORY -> Texts]
  BY EmptyType
<1>4. t = [history |-> h, hist_length |-> 0, current_line |-> 0, viewed_line |-> 0,
           current_line_row |-> 0, current_line_col |-> col,
           cursor_row |-> 0, cursor_col |-> col]
  BY DEF Init, terminal_initialize
<1> HIDE DEF h, col
<1>5. t \in Buffers
  BY <1>2, <1>3, <1>4 DEF Buffers
<1>6. /\ t.history = h /\ t.hist_length = 0 /\ t.current_line = 0 /\ t.viewed_line = 0
      /\ t.current_line_row = 0 /\ t.current_line_col = col
      /\ t.cursor_row = 0 /\ t.cursor_col = col
  BY <1>4
<1> HIDE DEF t
<1>7. HistoryKept(t)
  <2>1. \A k \in 0 .. MAX_HISTORY : t.history[k] = <<>>
    BY <1>6 DEF h
  <2> QED
    BY <1>2, <1>6, <2>1, EmptyType DEF HistoryKept
<1>8. CursorBelow(t)
  BY <1>2, <1>6 DEF CursorBelow
<1>9. CursorFits(t)
  <2>1. Len(Line(t)) = 0
    BY <1>2, <1>6, EmptyType DEF Line, h
  <2>2. t.cursor_row - t.current_line_row = 0
    BY <1>6
  <2>3. Position(t) = 0
    BY <1>2, <1>6, <2>2, CellsStep DEF Position
  <2> QED
    BY <1>2, <1>6, <2>1, <2>3 DEF CursorFits
<1> QED
  BY <1>1, <1>2, <1>5, <1>7, <1>8, <1>9 DEF IInv, EditorInv, t

\* A key does one of these to the text.
TextStep ==
  LET t == terminal_buffer
      u == terminal_buffer'
  IN  \/ SameText(t, u)
      \/ \E i \in 1 .. Len(Line(t)) + 1, c \in Chars :
           Edited(t, u, InsertAt(Line(t), i, c), t.viewed_line)
      \/ \E i \in 1 .. Len(Line(t)) : Edited(t, u, RemoveAt(Line(t), i), t.viewed_line)
      \/ /\ t.viewed_line > 0
         /\ Edited(t, u, t.history[t.viewed_line - 1], t.viewed_line - 1)
      \/ /\ t.viewed_line < t.current_line
         /\ Edited(t, u, IF t.viewed_line + 1 < t.current_line
                         THEN t.history[t.viewed_line + 1] ELSE <<>>, t.viewed_line + 1)
      \/ /\ Line(t) # <<>> /\ Line(u) = <<>> /\ u.viewed_line = u.current_line
         /\ Recent(u) = Append(RemoveFirst(Recent(t), Line(t)), Line(t))

LEMMA KeyHandled ==
  ASSUME EditorInv, NEW c \in Characters, terminal_handle_input(c)
  PROVE  EditorInv' /\ TextStep
<1>1. CASE c = "up" /\ KeyUp
  BY <1>1, KeyUpRecalls DEF TextStep
<1>2. CASE c = "down" /\ KeyDown
  BY <1>2, KeyDownRecalls DEF TextStep
<1>3. CASE c = "left" /\ KeyLeft
  BY <1>3, KeyLeftMoves DEF TextStep
<1>4. CASE c = "right" /\ KeyRight
  BY <1>4, KeyRightMoves DEF TextStep
<1>5. CASE c = "enter" /\ Enter
  BY <1>5, EnterKeeps DEF TextStep
<1>6. CASE c = "backspace" /\ Backspace
  BY <1>6, BackspaceEdits DEF TextStep
<1>7. CASE c \notin {"up", "down", "left", "right", "enter", "backspace"} /\ TypeCharacter(c)
  <2>1. c \in Chars
    BY <1>7 DEF Characters, Chars, Arrows, ControlKeys
  <2> QED
    BY <1>7, <2>1, CharacterTyped DEF TextStep
<1> QED
  BY <1>1, <1>2, <1>3, <1>4, <1>5, <1>6, <1>7 DEF terminal_handle_input

\* An interrupt leaves the text alone, the shell changes it by a key.
LEMMA NextKeeps ==
  ASSUME IInv, [Next]_vars
  PROVE  IInv' /\ TextStep
<1>1. keyboard_state \in Drivers /\ EditorInv
  BY DEF IInv
<1>2. ASSUME UNCHANGED terminal
      PROVE  EditorInv' /\ TextStep
  <2>1. UNCHANGED <<terminal_buffer, filepath_len, path_length>>
    BY <1>2 DEF terminal
  <2> QED
    BY <1>1, <2>1 DEF EditorInv, PromptPlaced, PromptColumn, TextStep, SameText
<1>3. CASE Interrupt
  BY <1>1, <1>2, <1>3, DriverType DEF Interrupt, IInv
<1>4. CASE MainLoop
  <2>1. keyboard_state.keyboard_buffer \in Characters
    BY <1>1, <1>4 DEF MainLoop, Drivers
  <2>2. EditorInv' /\ TextStep
    BY <1>1, <1>4, <2>1, KeyHandled DEF MainLoop
  <2> QED
    BY <1>1, <1>4, <2>2, DriverType DEF MainLoop, IInv
<1>5. CASE UNCHANGED vars
  BY <1>1, <1>2, <1>5 DEF vars, IInv
<1> QED
  BY <1>3, <1>4, <1>5 DEF Next

\* What is written above of the keyboard, the history and the cursor always holds.
THEOREM ConsoleInvariance == Spec => []IInv
<1>1. Init => IInv
  BY InitiallyIInv
<1>2. IInv /\ [Next]_vars => IInv'
  BY NextKeeps
<1> QED
  BY <1>1, <1>2, PTL DEF Spec

\* TypeOK: whatever keys are pressed, the driver and the editor stay well formed:
\* no line outgrows its slot, no slot behind the history is used, the cursor
\* stays within the width of the screen (keyboard_isr, terminal_handle_input).
THEOREM TypeCorrectness == Spec => []TypeOK
<1>1. IInv => TypeOK
  <2> SUFFICES ASSUME IInv PROVE TypeOK
    OBVIOUS
  <2> DEFINE t == terminal_buffer
  <2>1. /\ t \in Buffers /\ HistoryKept(t) /\ CursorBelow(t)
        /\ keyboard_state \in Drivers
    BY DEF IInv, EditorInv
  <2>2. \A k \in 0 .. MAX_HISTORY :
          t.history[k] \in Texts /\ Len(t.history[k]) < MAX_LINE_LENGTH
    BY <2>1, SlotType
  <2>3. t.current_line_row \in Nat /\ t.cursor_row \in Nat
    BY <2>1, CursorType DEF CursorBelow
  <2> QED
    BY <2>1, <2>2, <2>3 DEF TypeOK, Drivers, HistoryKept, CursorBelow, W
<1> QED
  BY <1>1, ConsoleInvariance, PTL

\* CursorOnLine: wherever keys, recalled lines, commands and cleared screens
\* have left it, a key finds the cursor on the line or right behind it
\* (cursor_index in terminal_handle_input).
THEOREM CursorStaysOnLine == Spec => []CursorOnLine
<1>1. IInv => CursorOnLine
  BY CursorIndex DEF IInv, CursorOnLine, CursorFits
<1> QED
  BY <1>1, ConsoleInvariance, PTL

-----------------------------------------------------------------------------
(* What the editor promises *)

\* The line that changed is the one being edited.
LEMMA EditedText ==
  ASSUME NEW t \in Buffers, HistoryKept(t), NEW u, NEW l, NEW v, Edited(t, u, l, v)
  PROVE  Line(u) = l /\ Recent(u) = Recent(t) /\ u.viewed_line = v
<1> DEFINE n == t.current_line
<1>1. n \in 0 .. MAX_HISTORY /\ t.history \in [0 .. MAX_HISTORY -> Texts]
      /\ n \in Int /\ MAX_HISTORY \in Int
  BY LineEditorAssumption DEF Buffers, HistoryKept
<1>2. u.current_line = n /\ u.viewed_line = v
  BY DEF Edited
<1>3. /\ u.history[n] = l
      /\ \A k \in 0 .. MAX_HISTORY : k # n => u.history[k] = t.history[k]
  BY <1>1 DEF Edited
<1>4. \A k \in 1 .. n : k - 1 \in 0 .. MAX_HISTORY /\ k - 1 # n
  BY <1>1
<1> QED
  BY <1>2, <1>3, <1>4 DEF Line, Recent

\* What a key does to the text is what the abstract editor may do.
LEMMA TextRefined ==
  ASSUME IInv, IInv', TextStep
  PROVE  [Abstract!Next]_<<Line(terminal_buffer), Recent(terminal_buffer), terminal_buffer.viewed_line>>
<1> DEFINE t == terminal_buffer
           u == terminal_buffer'
           n == t.current_line
           v == t.viewed_line
<1>1. t \in Buffers /\ HistoryKept(t) /\ u \in Buffers /\ HistoryKept(u)
  BY DEF IInv, EditorInv
<1>2. n \in Int /\ v \in Int /\ 0 <= v /\ v <= n
  BY <1>1, LineEditorAssumption DEF HistoryKept
<1>3. Len(Recent(t)) = n /\ \A k \in 1 .. n : Recent(t)[k] = t.history[k - 1]
  BY <1>1, RecentType
<1>4. CASE SameText(t, u)
  BY <1>4 DEF SameText, Line, Recent
<1>5. CASE \E i \in 1 .. Len(Line(t)) + 1, c \in Chars :
             Edited(t, u, InsertAt(Line(t), i, c), v)
  <2>1. PICK i \in 1 .. Len(Line(t)) + 1, c \in Chars :
          Edited(t, u, InsertAt(Line(t), i, c), v)
    BY <1>5
  <2>2. Line(u) = InsertAt(Line(t), i, c) /\ Recent(u) = Recent(t) /\ u.viewed_line = v
    BY <1>1, <2>1, EditedText
  <2>3. InsertAt(Line(t), i, c) = Abstract!InsertAt(Line(t), i, c)
    BY DEF InsertAt, Abstract!InsertAt
  <2>4. Abstract!Type
    BY <2>2, <2>3 DEF Abstract!Type, Chars
  <2> QED
    BY <2>4 DEF Abstract!Next
<1>6. CASE \E i \in 1 .. Len(Line(t)) : Edited(t, u, RemoveAt(Line(t), i), v)
  <2>1. PICK i \in 1 .. Len(Line(t)) : Edited(t, u, RemoveAt(Line(t), i), v)
    BY <1>6
  <2>2. Line(u) = RemoveAt(Line(t), i) /\ Recent(u) = Recent(t) /\ u.viewed_line = v
    BY <1>1, <2>1, EditedText
  <2>3. RemoveAt(Line(t), i) = Abstract!RemoveAt(Line(t), i)
    BY DEF RemoveAt, Abstract!RemoveAt
  <2>4. Abstract!Erase
    BY <2>2, <2>3 DEF Abstract!Erase
  <2> QED
    BY <2>4 DEF Abstract!Next
<1>7. CASE v > 0 /\ Edited(t, u, t.history[v - 1], v - 1)
  <2>1. Line(u) = t.history[v - 1] /\ Recent(u) = Recent(t) /\ u.viewed_line = v - 1
    BY <1>1, <1>7, EditedText
  <2>2. t.history[v - 1] = Recent(t)[v]
    BY <1>2, <1>3, <1>7
  <2>3. Abstract!Older
    BY <1>7, <2>1, <2>2 DEF Abstract!Older
  <2> QED
    BY <2>3 DEF Abstract!Next
<1>8. CASE v < n /\ Edited(t, u, IF v + 1 < n THEN t.history[v + 1] ELSE <<>>, v + 1)
  <2> DEFINE l == IF v + 1 < n THEN t.history[v + 1] ELSE <<>>
  <2>1. Line(u) = l /\ Recent(u) = Recent(t) /\ u.viewed_line = v + 1
    BY <1>1, <1>8, EditedText
  <2>2. v + 1 < n => t.history[v + 1] = Recent(t)[v + 1 + 1]
    <3> DEFINE k == v + 1 + 1
    <3>1. k - 1 = v + 1 /\ (v + 1 < n => k \in 1 .. n)
      BY <1>2
    <3> HIDE DEF k
    <3>2. v + 1 < n => Recent(t)[k] = t.history[k - 1]
      BY <1>3, <3>1
    <3> QED
      BY <3>1, <3>2 DEF k
  <2>3. Abstract!Newer
    BY <1>3, <1>8, <2>1, <2>2 DEF Abstract!Newer
  <2> QED
    BY <2>3 DEF Abstract!Next
<1>9. CASE /\ Line(t) # <<>> /\ Line(u) = <<>> /\ u.viewed_line = u.current_line
           /\ Recent(u) = Append(RemoveFirst(Recent(t), Line(t)), Line(t))
  <2>1. Len(Recent(u)) = u.current_line
    BY <1>1, RecentType
  <2>2. ASSUME NEW s, NEW i PROVE RemoveAt(s, i) = Abstract!RemoveAt(s, i)
    BY DEF RemoveAt, Abstract!RemoveAt
  <2>3. ASSUME NEW S PROVE Min(S) = Abstract!Min(S)
    BY DEF Min, Abstract!Min
  <2>4. RemoveFirst(Recent(t), Line(t)) = Abstract!RemoveFirst(Recent(t), Line(t))
    BY <2>2, <2>3 DEF RemoveFirst, Abstract!RemoveFirst, SelectInSeq, Abstract!SelectInSeq
  <2>5. Abstract!Enter
    BY <1>9, <2>1, <2>4 DEF Abstract!Enter
  <2> QED
    BY <2>5 DEF Abstract!Next
<1> QED
  BY <1>4, <1>5, <1>6, <1>7, <1>8, <1>9 DEF TextStep

\* ImplementsCommandLine: over all the wrapping, recalling, rotating of slots and
\* clearing, the editor is a line and a list of distinct lines, the most recent
\* last (terminal_handle_input, add_line_to_history).
THEOREM CommandLineRefined == Spec => ImplementsCommandLine
<1>1. Init => Abstract!Init
  <2> SUFFICES ASSUME Init PROVE Abstract!Init
    OBVIOUS
  <2> DEFINE t == terminal_buffer
  <2>1. t \in Buffers /\ HistoryKept(t)
    BY InitiallyIInv DEF IInv, EditorInv
  <2>2. t.current_line = 0 /\ t.viewed_line = 0 /\ t.history[0] = <<>>
    BY LineEditorAssumption DEF Init, terminal_initialize
  <2>3. Recent(t) \in Seq(Texts) /\ Len(Recent(t)) = 0
    BY <2>1, <2>2, RecentType
  <2>4. Recent(t) = <<>>
    BY <2>3, EmptySeq
  <2> QED
    BY <2>2, <2>4 DEF Abstract!Init, Line
<1>2. IInv /\ IInv' /\ [Next]_vars
        => [Abstract!Next]_<<Line(terminal_buffer), Recent(terminal_buffer), terminal_buffer.viewed_line>>
  BY NextKeeps, TextRefined
<1> QED
  BY <1>1, <1>2, ConsoleInvariance, PTL DEF Spec, ImplementsCommandLine, Abstract!Spec

-----------------------------------------------------------------------------
(* Keys act where the cursor is *)

\* The two sides of a place in a line, and the line they make.
LEMMA TwoSides ==
  ASSUME NEW S, NEW s \in Seq(S), NEW i \in 0 .. Len(s)
  PROVE  /\ SubSeq(s, 1, i) \in Seq(S) /\ Len(SubSeq(s, 1, i)) = i
         /\ \A k \in 1 .. i : SubSeq(s, 1, i)[k] = s[k]
         /\ SubSeq(s, i + 1, Len(s)) \in Seq(S) /\ Len(SubSeq(s, i + 1, Len(s))) = Len(s) - i
         /\ \A k \in 1 .. Len(s) - i : SubSeq(s, i + 1, Len(s))[k] = s[i + k]
         /\ SubSeq(s, 1, i) \o SubSeq(s, i + 1, Len(s)) = s
<1> DEFINE n == Len(s)
           j == i + 1
           a == SubSeq(s, 1, i)
           b == SubSeq(s, j, n)
<1>1. n \in Int /\ i \in Int /\ 0 <= i /\ i <= n /\ j \in Int /\ 1 <= j /\ 1 \in Int
  BY LenProperties
<1>2. /\ a \in Seq(S) /\ Len(a) = i
      /\ \A k \in 1 .. i : a[k] = s[k]
  <2>1. /\ a \in Seq(S) /\ Len(a) = IF 1 <= i THEN i - 1 + 1 ELSE 0
        /\ \A k \in 1 .. i - 1 + 1 : a[k] = s[1 + k - 1]
    BY <1>1, Part
  <2> QED
    BY <1>1, <2>1
<1>3. /\ b \in Seq(S) /\ Len(b) = n - i
      /\ \A k \in 1 .. n - i : b[k] = s[i + k]
  <2> HIDE DEF j
  <2>1. /\ b \in Seq(S) /\ Len(b) = IF j <= n THEN n - j + 1 ELSE 0
        /\ \A k \in 1 .. n - j + 1 : b[k] = s[j + k - 1]
    BY <1>1, Part
  <2> HIDE DEF b
  <2> QED
    BY <1>1, <2>1 DEF j
<1> HIDE DEF n, j, a, b
<1> DEFINE l == a \o b
<1>4. /\ l \in Seq(S) /\ Len(l) = Len(a) + Len(b)
      /\ \A k \in 1 .. Len(a) + Len(b) : l[k] = IF k <= Len(a) THEN a[k] ELSE b[k - Len(a)]
  BY <1>2, <1>3, ConcatProperties
<1> HIDE DEF l
<1>5. ASSUME NEW k \in 1 .. n PROVE l[k] = s[k]
  <2>1. CASE k <= i
    BY <1>1, <1>2, <1>3, <1>4, <2>1
  <2>2. CASE k > i
    <3>1. l[k] = b[k - i] /\ k - i \in 1 .. n - i /\ i + (k - i) = k
      BY <1>1, <1>2, <1>3, <1>4, <2>2
    <3> QED
      BY <1>3, <3>1
  <2> QED
    BY <1>1, <2>1, <2>2
<1>6. Len(l) = n
  BY <1>1, <1>2, <1>3, <1>4
<1>7. l = s
  BY <1>4, <1>5, <1>6, SeqEqual DEF n
<1> QED
  BY <1>2, <1>3, <1>7 DEF n, j, a, b, l

\* A character goes in before the cursor.
LEMMA InsertedBetween ==
  ASSUME NEW S, NEW s \in Seq(S), NEW i \in 0 .. Len(s), NEW c \in S
  PROVE  LET l == InsertAt(s, i + 1, c) IN
         /\ SubSeq(l, 1, i + 1) = Append(SubSeq(s, 1, i), c)
         /\ SubSeq(l, i + 1 + 1, Len(l)) = SubSeq(s, i + 1, Len(s))
<1> DEFINE j == i + 1
           l == InsertAt(s, j, c)
           before == SubSeq(s, 1, i)
           after == SubSeq(s, j, Len(s))
           a == SubSeq(l, 1, j)
           b == SubSeq(l, j + 1, Len(l))
           x == Append(before, c)
<1>1. /\ Len(s) \in Int /\ i \in Int /\ 0 <= i /\ i <= Len(s)
      /\ j \in 1 .. Len(s) + 1 /\ j \in Int /\ j = i + 1
  BY LenProperties
<1>11. /\ InsertAt(s, j, c) \in Seq(S) /\ Len(InsertAt(s, j, c)) = Len(s) + 1
       /\ \A k \in 1 .. Len(InsertAt(s, j, c)) :
            InsertAt(s, j, c)[k] = IF k < j THEN s[k] ELSE IF k = j THEN c ELSE s[k - 1]
  <2> HIDE DEF j
  <2>1. j \in 1 .. Len(s) + 1
    BY <1>1
  <2> QED
    BY <2>1, Inserted
<1>2. /\ before \in Seq(S) /\ Len(before) = i
      /\ \A k \in 1 .. i : before[k] = s[k]
      /\ after \in Seq(S) /\ Len(after) = Len(s) - i
      /\ \A k \in 1 .. Len(s) - i : after[k] = s[i + k]
  BY TwoSides
<1> HIDE DEF j, before, after
<1>3. /\ l \in Seq(S) /\ Len(l) = Len(s) + 1
      /\ \A k \in 1 .. Len(l) : l[k] = IF k < j THEN s[k] ELSE IF k = j THEN c ELSE s[k - 1]
  BY <1>11
<1> HIDE DEF l
<1>4. j \in 0 .. Len(l)
  BY <1>1, <1>3
<1>5. /\ a \in Seq(S) /\ Len(a) = j
      /\ \A k \in 1 .. j : a[k] = l[k]
      /\ b \in Seq(S) /\ Len(b) = Len(l) - j
      /\ \A k \in 1 .. Len(l) - j : b[k] = l[j + k]
  BY <1>3, <1>4, TwoSides
<1>6. /\ x \in Seq(S) /\ Len(x) = i + 1
      /\ \A k \in 1 .. i : x[k] = before[k]
      /\ x[i + 1] = c
  BY <1>2, AppendProperties
<1> HIDE DEF a, b, x
<1>7. ASSUME NEW k \in 1 .. j PROVE a[k] = x[k]
  <2>1. CASE k = j
    BY <1>1, <1>3, <1>5, <1>6, <2>1
  <2>2. CASE k < j
    BY <1>1, <1>2, <1>3, <1>5, <1>6, <2>2
  <2> QED
    BY <1>1, <2>1, <2>2
<1>8. a = x
  BY <1>1, <1>5, <1>6, <1>7, SeqEqual
<1>9. ASSUME NEW k \in 1 .. Len(s) - i PROVE b[k] = after[k]
  <2> DEFINE m == j + k
  <2>1. /\ k \in 1 .. Len(l) - j /\ m \in 1 .. Len(l)
        /\ ~(m < j) /\ m # j /\ m - 1 = i + k
    BY <1>1, <1>3
  <2>2. b[k] = l[m]
    BY <1>5, <2>1
  <2> HIDE DEF m
  <2>3. l[m] = s[m - 1]
    BY <1>3, <2>1
  <2> QED
    BY <1>2, <2>1, <2>2, <2>3
<1>10. b = after
  <2>1. Len(b) = Len(s) - i
    BY <1>1, <1>3, <1>5
  <2> QED
    BY <1>2, <1>5, <1>9, <2>1, SeqEqual
<1> QED
  BY <1>8, <1>10 DEF a, b, x, l, j, before, after

\* Backspace takes out what is before the cursor.
LEMMA RemovedBefore ==
  ASSUME NEW S, NEW s \in Seq(S), NEW i \in 1 .. Len(s)
  PROVE  LET l == RemoveAt(s, i)
             before == SubSeq(s, 1, i)
         IN
         /\ SubSeq(l, 1, i - 1) = SubSeq(before, 1, Len(before) - 1)
         /\ SubSeq(l, i - 1 + 1, Len(l)) = SubSeq(s, i + 1, Len(s))
<1> DEFINE j == i - 1
           l == RemoveAt(s, i)
           before == SubSeq(s, 1, i)
           after == SubSeq(s, i + 1, Len(s))
           a == SubSeq(l, 1, j)
           b == SubSeq(l, j + 1, Len(l))
           x == SubSeq(before, 1, j)
<1>1. /\ Len(s) \in Int /\ i \in Int /\ 1 <= i /\ i <= Len(s)
      /\ i \in 0 .. Len(s) /\ j \in Int /\ j = i - 1
  BY LenProperties
<1>2. /\ before \in Seq(S) /\ Len(before) = i
      /\ \A k \in 1 .. i : before[k] = s[k]
      /\ after \in Seq(S) /\ Len(after) = Len(s) - i
      /\ \A k \in 1 .. Len(s) - i : after[k] = s[i + k]
  BY <1>1, TwoSides
<1>3. /\ l \in Seq(S) /\ Len(l) = Len(s) - 1
      /\ \A k \in 1 .. Len(l) : l[k] = IF k < i THEN s[k] ELSE s[k + 1]
  BY Removed
<1> HIDE DEF j, l, before, after
<1>4. j \in 0 .. Len(l) /\ j \in 0 .. Len(before)
  BY <1>1, <1>2, <1>3
<1>5. /\ a \in Seq(S) /\ Len(a) = j
      /\ \A k \in 1 .. j : a[k] = l[k]
      /\ b \in Seq(S) /\ Len(b) = Len(l) - j
      /\ \A k \in 1 .. Len(l) - j : b[k] = l[j + k]
  BY <1>3, <1>4, TwoSides
<1>6. /\ x \in Seq(S) /\ Len(x) = j
      /\ \A k \in 1 .. j : x[k] = before[k]
  BY <1>2, <1>4, TwoSides
<1> HIDE DEF a, b, x
<1>7. ASSUME NEW k \in 1 .. j PROVE a[k] = x[k]
  <2>1. k \in 1 .. Len(l) /\ k \in 1 .. i /\ k < i
    BY <1>1, <1>3
  <2>2. l[k] = s[k]
    BY <1>3, <2>1
  <2> QED
    BY <1>2, <1>5, <1>6, <2>1, <2>2
<1>8. a = x
  BY <1>5, <1>6, <1>7, SeqEqual
<1>9. ASSUME NEW k \in 1 .. Len(s) - i PROVE b[k] = after[k]
  <2> DEFINE m == j + k
  <2>1. /\ k \in 1 .. Len(l) - j /\ m \in 1 .. Len(l)
        /\ ~(m < i) /\ m + 1 = i + k
    BY <1>1, <1>3
  <2>2. b[k] = l[m]
    BY <1>5, <2>1
  <2> HIDE DEF m
  <2>3. l[m] = s[m + 1]
    BY <1>3, <2>1
  <2> QED
    BY <1>2, <2>1, <2>2, <2>3
<1>10. b = after
  <2>1. Len(b) = Len(s) - i
    BY <1>1, <1>3, <1>5
  <2> QED
    BY <1>2, <1>5, <1>9, <2>1, SeqEqual
<1>11. Len(before) - 1 = j
  BY <1>1, <1>2
<1> QED
  BY <1>8, <1>10, <1>11 DEF a, b, x, l, j, before, after

\* After a key, too, the cursor is found where it is.
LEMMA IndexAfter ==
  ASSUME EditorInv', PromptPlaced'
  PROVE  /\ cursor_index' = Position(terminal_buffer') /\ cursor_index' \in Int
         /\ CursorFits(terminal_buffer') /\ cursor_index' >= 0
<1> DEFINE u == terminal_buffer'
           d == u.cursor_row - u.current_line_row
           col == PromptColumn'
<1>1. u \in Buffers /\ CursorBelow(u) /\ CursorFits(u) /\ filepath_len' \in Nat
  BY DEF EditorInv
<1>2. /\ u.cursor_row \in Int /\ u.cursor_col \in Int /\ u.current_line_row \in Int
      /\ u.current_line_col \in Int /\ d \in Int /\ Cells(d) \in Int
      /\ Position(u) \in Int
  BY <1>1, CursorType DEF CursorBelow
<1>3. u.current_line_col = col
  BY DEF PromptPlaced
<1>4. col < W
  <2>1. (filepath_len' % W) \in 0 .. W - 1 /\ W \in Int
    BY <1>1, Divided, Width
  <2> QED
    BY <2>1 DEF PromptColumn, W
<1>5. cursor_index' = IF u.cursor_row = u.current_line_row
                        THEN u.cursor_col - u.current_line_col
                        ELSE Cells(d) + u.cursor_col - col
  BY DEF cursor_index, Cells, W
<1>6. Position(u) = Cells(d) + u.cursor_col - u.current_line_col
  BY DEF Position
<1>7. d = 0 <=> u.cursor_row = u.current_line_row
  BY <1>2
<1>8. Cells(0) = 0
  BY CellsStep
<1> HIDE DEF d, col, u
<1>9. cursor_index' = Position(u)
  BY <1>2, <1>3, <1>5, <1>6, <1>7, <1>8
<1>10. Position(u) >= 0
  BY <1>1, <1>3, <1>4, PositionSign
<1> QED
  BY <1>1, <1>2, <1>9, <1>10 DEF u

\* The text on the two sides of the cursor.
LEMMA SidesOfCursor ==
  ASSUME IInv, PromptPlaced, Len(Line(terminal_buffer)) < MAX_LINE_LENGTH - 1
  PROVE  LET t == terminal_buffer IN
         /\ cursor_index \in 0 .. Len(Line(t)) /\ Line(t) \in Seq(Chars)
         /\ cursor_index \in Int /\ Len(Line(t)) \in Nat
         /\ cursor_index = Position(t)
         /\ Before \o After = Line(t) /\ Len(Before) = cursor_index
<1> DEFINE t == terminal_buffer
           at == cursor_index
<1>1. Line(t) \in Seq(Chars) /\ Len(Line(t)) \in Nat
  BY LineType DEF IInv, EditorInv, Texts, Chars
<1>2. at \in Int /\ at >= 0 /\ at = Position(t) /\ at <= Len(Line(t))
  BY CursorIndex DEF IInv, CursorFits
<1> HIDE DEF at, t
<1>3. at \in 0 .. Len(Line(t))
  BY <1>1, <1>2
<1>4. SubSeq(Line(t), 1, at) \o SubSeq(Line(t), at + 1, Len(Line(t))) = Line(t)
      /\ Len(SubSeq(Line(t), 1, at)) = at
  BY <1>1, <1>3, TwoSides
<1> QED
  BY <1>1, <1>2, <1>3, <1>4 DEF Before, After, at, t

\* A character goes in before the cursor, and the cursor stays behind it.
LEMMA TypesAtCursor ==
  ASSUME IInv, IInv', Ready, NEW c \in Chars, TypeCharacter(c)
  PROVE  Before' = Append(Before, c) /\ After' = After
<1> DEFINE t == terminal_buffer
           u == terminal_buffer'
           at == cursor_index
           l == InsertAt(Line(t), at + 1, c)
<1>1. /\ at \in 0 .. Len(Line(t)) /\ Edited(t, u, l, t.viewed_line)
      /\ Position(u) = at + 1 /\ PromptPlaced'
  BY CharacterTyped DEF IInv
<1>2. Line(u) = l /\ Line(t) \in Seq(Chars)
  BY <1>1, EditedText, SidesOfCursor DEF IInv, EditorInv, Ready
<1>3. cursor_index' = at + 1
  BY <1>1, IndexAfter DEF IInv
<1>4. /\ Before' = SubSeq(l, 1, at + 1)
      /\ After' = SubSeq(l, at + 1 + 1, Len(l))
  <2>1. Before' = SubSeq(Line(u), 1, cursor_index')
        /\ After' = SubSeq(Line(u), cursor_index' + 1, Len(Line(u)))
    BY DEF Before, After
  <2> HIDE DEF u, l, at
  <2> QED
    BY <1>2, <1>3, <2>1
<1>5. /\ Before = SubSeq(Line(t), 1, at)
      /\ After = SubSeq(Line(t), at + 1, Len(Line(t)))
  BY DEF Before, After
<1>6. /\ SubSeq(l, 1, at + 1) = Append(SubSeq(Line(t), 1, at), c)
      /\ SubSeq(l, at + 1 + 1, Len(l)) = SubSeq(Line(t), at + 1, Len(Line(t)))
  <2> HIDE DEF at
  <2> QED
    BY <1>1, <1>2, InsertedBetween
<1> QED
  BY <1>4, <1>5, <1>6

\* Backspace takes out the character before the cursor.
LEMMA DeletesAtCursor ==
  ASSUME IInv, IInv', Ready, Backspace
  PROVE  Before' = SubSeq(Before, 1, Len(Before) - 1) /\ After' = After
<1> DEFINE t == terminal_buffer
           u == terminal_buffer'
           at == cursor_index
           l == RemoveAt(Line(t), at)
<1>1. PromptPlaced /\ Len(Line(t)) < MAX_LINE_LENGTH - 1
  BY DEF Ready
<1>2. /\ PromptPlaced'
      /\ \/ at = 0 /\ SameText(t, u) /\ Position(u) = 0
         \/ at \in 1 .. Len(Line(t)) /\ Edited(t, u, l, t.viewed_line) /\ Position(u) = at - 1
  BY <1>1, BackspaceEdits DEF IInv
<1>3. Line(t) \in Seq(Chars) /\ at \in 0 .. Len(Line(t)) /\ Len(Before) = at /\ at \in Int
  BY <1>1, SidesOfCursor
<1>4. cursor_index' = Position(u)
  BY <1>2, IndexAfter DEF IInv
<1>5. /\ Before' = SubSeq(Line(u), 1, cursor_index')
      /\ After' = SubSeq(Line(u), cursor_index' + 1, Len(Line(u)))
      /\ Before = SubSeq(Line(t), 1, at)
      /\ After = SubSeq(Line(t), at + 1, Len(Line(t)))
  BY DEF Before, After
<1>6. CASE at = 0 /\ SameText(t, u) /\ Position(u) = 0
  <2>1. Line(u) = Line(t) /\ cursor_index' = at
    BY <1>4, <1>6 DEF SameText, Line
  <2> HIDE DEF t, u, at
  <2>2. Before' = Before /\ After' = After
    BY <1>5, <2>1
  <2>3. Before \in Seq(Chars) /\ Len(Before) = 0
    BY <1>3, <1>5, <1>6, TwoSides
  <2>4. Before = <<>>
    BY <2>3, EmptySeq
  <2>5. SubSeq(Before, 1, Len(Before) - 1) = <<>>
    <3> DEFINE x == SubSeq(Before, 1, Len(Before) - 1)
    <3>1. x \in Seq(Chars) /\ Len(x) = 0
      <4>1. -1 \in Int /\ 1 \in Int /\ -1 <= Len(Before) /\ Len(Before) - 1 = -1
        BY <2>3
      <4>2. /\ SubSeq(Before, 1, -1) \in Seq(Chars)
            /\ Len(SubSeq(Before, 1, -1)) = IF 1 <= -1 THEN -1 - 1 + 1 ELSE 0
        BY <2>3, <4>1, Part
      <4> QED
        BY <4>1, <4>2
    <3> QED
      BY <3>1, EmptySeq
  <2> QED
    BY <2>2, <2>4, <2>5
<1>7. CASE at \in 1 .. Len(Line(t)) /\ Edited(t, u, l, t.viewed_line) /\ Position(u) = at - 1
  <2>1. Line(u) = l
    BY <1>7, EditedText DEF IInv, EditorInv
  <2>2. Before' = SubSeq(l, 1, at - 1) /\ After' = SubSeq(l, at - 1 + 1, Len(l))
    <3> HIDE DEF t, u, at, l
    <3> QED
      BY <1>4, <1>5, <1>7, <2>1
  <2>3. /\ SubSeq(l, 1, at - 1)
             = SubSeq(SubSeq(Line(t), 1, at), 1, Len(SubSeq(Line(t), 1, at)) - 1)
        /\ SubSeq(l, at - 1 + 1, Len(l)) = SubSeq(Line(t), at + 1, Len(Line(t)))
    <3> HIDE DEF at, t
    <3> QED
      BY <1>3, <1>7, RemovedBefore
  <2> QED
    BY <1>5, <2>2, <2>3
<1> QED
  BY <1>2, <1>6, <1>7

\* An arrow leaves the text, and moves the cursor by at most one.
LEMMA ArrowsMove ==
  ASSUME IInv, IInv', Ready, NEW step \in {-1, 1},
         SameText(terminal_buffer, terminal_buffer'),
         SamePrompt(terminal_buffer, terminal_buffer'), UNCHANGED filepath_len,
         Position(terminal_buffer') \in {Position(terminal_buffer), Position(terminal_buffer) + step}
  PROVE  /\ Before' \o After' = Before \o After
         /\ Len(Before') - Len(Before) \in {0, step}
<1> DEFINE t == terminal_buffer
           u == terminal_buffer'
           at == cursor_index
           to == cursor_index'
<1>1. PromptPlaced /\ PromptPlaced' /\ Len(Line(t)) < MAX_LINE_LENGTH - 1
  BY DEF Ready, PromptPlaced, PromptColumn, SamePrompt
<1>2. Line(u) = Line(t)
  BY DEF SameText, Line
<1>3. /\ Line(t) \in Seq(Chars) /\ at \in Int /\ Len(Line(t)) \in Nat /\ at = Position(t)
      /\ Before \o After = Line(t) /\ Len(Before) = at
  BY <1>1, SidesOfCursor
<1>4. to = Position(u) /\ to \in Int /\ CursorFits(u) /\ to >= 0
  BY <1>1, IndexAfter DEF IInv
<1>5. /\ Before' = SubSeq(Line(u), 1, to)
      /\ After' = SubSeq(Line(u), to + 1, Len(Line(u)))
  BY DEF Before, After
<1> HIDE DEF t, u, at, to
<1>6. to \in 0 .. Len(Line(t))
  BY <1>1, <1>2, <1>3, <1>4 DEF CursorFits
<1>7. Before' \o After' = Line(t) /\ Len(Before') = to
  <2>1. SubSeq(Line(t), 1, to) \o SubSeq(Line(t), to + 1, Len(Line(t))) = Line(t)
        /\ Len(SubSeq(Line(t), 1, to)) = to
    BY <1>3, <1>6, TwoSides
  <2> QED
    BY <1>2, <1>5, <2>1
<1>8. to - at \in {0, step}
  <2>1. to \in {at, at + step}
    BY <1>3, <1>4 DEF t, u
  <2> QED
    BY <1>3, <1>4, <2>1
<1> QED
  BY <1>3, <1>7, <1>8

\* EditsAtCursor: with room on the line and on the screen, a character goes in
\* before the cursor, backspace takes out what is before it and an arrow moves it
\* by one, over every wrapped row (terminal_handle_input).
THEOREM KeysEditAtCursor == Spec => EditsAtCursor
<1> DEFINE c == keyboard_state.keyboard_buffer
           Edits ==
             MainLoop /\ Ready =>
               /\ c \notin ControlKeys \cup Arrows => Before' = Append(Before, c) /\ After' = After
               /\ c = "backspace" => Before' = SubSeq(Before, 1, Len(Before) - 1) /\ After' = After
               /\ c \in {"left", "right"} =>
                    /\ Before' \o After' = Before \o After
                    /\ Len(Before') - Len(Before) \in IF c = "left" THEN {-1, 0} ELSE {0, 1}
<1>1. IInv /\ IInv' /\ [Next]_vars => Edits
  <2> SUFFICES ASSUME IInv, IInv', MainLoop, Ready
               PROVE  /\ c \notin ControlKeys \cup Arrows =>
                           Before' = Append(Before, c) /\ After' = After
                      /\ c = "backspace" =>
                           Before' = SubSeq(Before, 1, Len(Before) - 1) /\ After' = After
                      /\ c \in {"left", "right"} =>
                           /\ Before' \o After' = Before \o After
                           /\ Len(Before') - Len(Before) \in IF c = "left" THEN {-1, 0} ELSE {0, 1}
    OBVIOUS
  <2>1. c \in Characters /\ terminal_handle_input(c) /\ EditorInv
    BY DEF IInv, Drivers, MainLoop
  <2>2. ASSUME c \notin ControlKeys \cup Arrows
        PROVE  Before' = Append(Before, c) /\ After' = After
    <3>1. c \in Chars /\ TypeCharacter(c)
      BY <2>1, <2>2 DEF terminal_handle_input, Characters, Chars, ControlKeys, Arrows
    <3> QED
      BY <3>1, TypesAtCursor
  <2>3. ASSUME c = "backspace"
        PROVE  Before' = SubSeq(Before, 1, Len(Before) - 1) /\ After' = After
    <3>1. Backspace
      BY <2>1, <2>3 DEF terminal_handle_input
    <3> QED
      BY <3>1, DeletesAtCursor
  <2>4. ASSUME c = "left"
        PROVE  Before' \o After' = Before \o After /\ Len(Before') - Len(Before) \in {-1, 0}
    <3>1. KeyLeft
      BY <2>1, <2>4 DEF terminal_handle_input
    <3>2. /\ SameText(terminal_buffer, terminal_buffer')
          /\ SamePrompt(terminal_buffer, terminal_buffer') /\ UNCHANGED filepath_len
          /\ Position(terminal_buffer') \in {Position(terminal_buffer), Position(terminal_buffer) - 1}
      BY <2>1, <3>1, KeyLeftMoves DEF KeyLeft
    <3>3. Position(terminal_buffer) \in Int
      BY CursorType DEF IInv, EditorInv
    <3>4. Position(terminal_buffer) - 1 = Position(terminal_buffer) + -1
      BY <3>3
    <3> QED
      BY <3>2, <3>4, ArrowsMove
  <2>5. ASSUME c = "right"
        PROVE  Before' \o After' = Before \o After /\ Len(Before') - Len(Before) \in {0, 1}
    <3>1. KeyRight
      BY <2>1, <2>5 DEF terminal_handle_input
    <3>2. /\ SameText(terminal_buffer, terminal_buffer')
          /\ SamePrompt(terminal_buffer, terminal_buffer') /\ UNCHANGED filepath_len
          /\ Position(terminal_buffer') \in {Position(terminal_buffer), Position(terminal_buffer) + 1}
      BY <2>1, <3>1, KeyRightMoves DEF KeyRight
    <3> QED
      BY <3>2, ArrowsMove
  <2> HIDE DEF c
  <2>6. "left" # "right"
    OBVIOUS
  <2> QED
    BY <2>2, <2>3, <2>4, <2>5, <2>6
<1>2. IInv /\ [Next]_vars => IInv'
  BY NextKeeps
<1> QED
  BY <1>1, <1>2, ConsoleInvariance, PTL DEF Spec, EditsAtCursor
=============================================================================
