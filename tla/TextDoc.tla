------------------------------ MODULE TextDoc ------------------------------
(***************************************************************************)
(* What an editing session promises, with no screen, no buffers and no     *)
(* line cache: a text is a sequence of lines, the cursor a row and a       *)
(* column, and a key changes the line the cursor is on.  It abstracts the  *)
(* key handlers of esrc/edit/edit.c (implemented by Editor, see EditorDoc).*)
(***************************************************************************)
EXTENDS Naturals, Sequences, SequencesExt

CONSTANTS
  Chars,     \* what can be typed
  MaxCols,   \* longest line
  MaxRows    \* most lines

VARIABLES
  text,      \* sequence of lines, each a sequence of characters
  row, col,  \* the cursor, both counted from 0
  mode,      \* "CMD" or "EDIT"
  closed     \* the session is over

vars == <<text, row, col, mode, closed>>

Line == text[row + 1]

Init ==
  /\ text = <<>> /\ row = 0 /\ col = 0
  /\ mode = "CMD" /\ closed = FALSE

\* Editing an empty text starts by giving it a first line.
Edit ==
  /\ ~closed /\ mode = "CMD"
  /\ mode' = "EDIT"
  /\ text' = IF text = <<>> THEN << <<>> >> ELSE text
  /\ UNCHANGED <<row, col, closed>>

Leave ==
  /\ ~closed /\ mode = "EDIT"
  /\ mode' = "CMD"
  /\ UNCHANGED <<text, row, col, closed>>

\* A character replaces the one under the cursor, or extends the line.
Type(c) ==
  /\ ~closed /\ mode = "EDIT"
  /\ col < MaxCols
  /\ text' = [text EXCEPT ![row + 1] =
                IF col < Len(@) THEN ReplaceAt(@, col + 1, c) ELSE Append(@, c)]
  /\ col' = col + 1
  /\ UNCHANGED <<row, mode, closed>>

Backspace ==
  /\ ~closed /\ mode = "EDIT"
  /\ col > 0
  /\ text' = [text EXCEPT ![row + 1] = RemoveAt(@, col)]
  /\ col' = col - 1
  /\ UNCHANGED <<row, mode, closed>>

\* The start of the next line, which is made when there is none.
NextLine ==
  /\ ~closed /\ mode = "EDIT"
  /\ row + 1 < MaxRows
  /\ row' = row + 1
  /\ col' = 0
  /\ text' = IF row + 1 < Len(text) THEN text ELSE Append(text, <<>>)
  /\ UNCHANGED <<mode, closed>>

\* No line can be added: the cursor still returns to the first column.
Home ==
  /\ ~closed /\ mode = "EDIT"
  /\ col' = 0
  /\ UNCHANGED <<text, row, mode, closed>>

MoveAlong(c) ==
  /\ ~closed /\ mode = "CMD"
  /\ text # <<>>
  /\ c < Len(Line) \/ c = col - 1
  /\ col' = c
  /\ UNCHANGED <<text, row, mode, closed>>

\* Up or down a line; the column is cut to the last character there.
MoveTo(r) ==
  /\ ~closed /\ mode = "CMD"
  /\ r < Len(text)
  /\ row' = r
  /\ col' = LET len == Len(text[r + 1])
            IN  IF col < len THEN col ELSE IF len = 0 THEN 0 ELSE len - 1
  /\ UNCHANGED <<text, mode, closed>>

Close ==
  /\ ~closed /\ mode = "CMD"
  /\ closed' = TRUE
  /\ UNCHANGED <<text, row, col, mode>>

Next ==
  \/ Edit \/ Leave \/ Backspace \/ NextLine \/ Home \/ Close
  \/ \E c \in Chars : Type(c)
  \/ \E c \in {col - 1, col + 1} \cap Nat : MoveAlong(c)
  \/ \E r \in {row - 1, row + 1} \cap Nat : MoveTo(r)

Spec == Init /\ [][Next]_vars
=============================================================================
