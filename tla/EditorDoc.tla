----------------------------- MODULE EditorDoc -----------------------------
(***************************************************************************)
(* Editor implements TextDoc: the line array, its growing buffers, the     *)
(* viewport and the line cache show the user a plain text with a cursor.   *)
(***************************************************************************)
EXTENDS Editor, Sequences

LineText(l) == [i \in 1..l.len |-> l.buf[i - 1]]

LineCount == Cardinality({n \in DOMAIN text_array : IsLine(n)})

DocText == [n \in 1..LineCount |-> LineText(text_array[n - 1])]

Doc == INSTANCE TextDoc WITH
  Chars   <- TextChars,
  MaxCols <- MaxLineLen,
  MaxRows <- MaxLineCount + 1,
  text    <- DocText,
  row     <- get_cur_line_number,
  col     <- cur_x,
  mode    <- editor_mode,
  closed  <- do_exit

\* Whatever keys are pressed, the edited text changes as TextDoc allows:
\* typed characters land in the line and column the cursor shows, DEL takes
\* away exactly the character before it, and scrolling, growing a buffer or
\* using the ":" prompt never changes the text.
ImplementsDoc == Doc!Spec
=============================================================================
