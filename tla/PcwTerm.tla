------------------------------ MODULE PcwTerm ------------------------------
(***************************************************************************)
(* The Amstrad PCW screen behind src/syslib/pcw_term.c: what the escape    *)
(* sequences of TERM_pcw_* do to a grid of cells, a viewport and a cursor. *)
(* The screen itself is not in the repository: the effect of each sequence *)
(* is the one its callers count on.  Where no caller can count on anything *)
(* the model says so: a cursor sent outside the viewport is Lost, and what *)
(* is then drawn may land anywhere (Noise).                                *)
(*                                                                         *)
(* A screen is a record: the viewport's first row, height and width, the   *)
(* cursor <<x, y>> relative to the viewport, and the glyph of every cell.  *)
(***************************************************************************)
EXTENDS Integers, Sequences, SequencesExt

CONSTANTS
  Blank,   \* an empty cell, also what a space leaves
  Noise,   \* a cell nothing is known of
  Lost     \* a cursor nothing is known of

ASSUME LostAssumption == Lost \notin Nat \X Nat

Garbled(t) == [t EXCEPT !.cell = [r \in DOMAIN @ |-> [c \in DOMAIN @[r] |-> Noise]]]

\* The screen t with the viewport's row y drawn as f.
WithRow(t, y, f) == [t EXCEPT !.cell[t.top + y] = f]

BlankRow(t, y) == [c \in DOMAIN t.cell[t.top + y] |->
                     IF c < t.width THEN Blank ELSE t.cell[t.top + y][c]]

TERM_pcw_set_viewport(t, top, height, width) ==
  [t EXCEPT !.top = top, !.height = height, !.width = width, !.pos = Lost]

TERM_pcw_move_cursor(t, x, y) ==
  [t EXCEPT !.pos =
     IF x \in 0..(t.width - 1) /\ y \in 0..(t.height - 1) THEN <<x, y>> ELSE Lost]

TERM_pcw_clr_home(t) ==
  TERM_pcw_move_cursor(
    [t EXCEPT !.cell = [r \in DOMAIN @ |->
       IF r \in t.top..(t.top + t.height - 1) THEN BlankRow(t, r - t.top) ELSE @[r]]],
    0, 0)

TERM_pcw_erase_line_end(t) ==
  IF t.pos = Lost THEN Garbled(t)
  ELSE LET y == t.pos[2]
       IN  WithRow(t, y, [c \in DOMAIN t.cell[t.top + y] |->
             IF c < t.pos[1] THEN t.cell[t.top + y][c] ELSE BlankRow(t, y)[c]])

\* The rows of the viewport moved by d, an empty row coming in at the edge.
Scrolled(t, d) ==
  LET inView(r) == r \in t.top..(t.top + t.height - 1)
  IN  [t EXCEPT !.cell = [r \in DOMAIN @ |->
         IF ~inView(r) THEN @[r]
         ELSE IF inView(r + d) THEN @[r + d] ELSE BlankRow(t, r - t.top)]]

\* Up a row, the viewport scrolling down when the cursor is on its first.
TERM_pcw_cursor_move_up_scroll(t) ==
  IF t.pos = Lost THEN Garbled(t)
  ELSE IF t.pos[2] = 0 THEN Scrolled(t, -1)
  ELSE [t EXCEPT !.pos[2] = @ - 1]

\* A line feed: down a row, the viewport scrolling up when on its last.
LineFeed(t) ==
  IF t.pos = Lost THEN Garbled(t)
  ELSE IF t.pos[2] = t.height - 1 THEN Scrolled(t, 1)
  ELSE [t EXCEPT !.pos[2] = @ + 1]

\* Wrapping is on (repaint_screen turns it on): behind the last column the
\* cursor goes on in the next row.
TERM_pcw_write_char(t, g) ==
  IF t.pos = Lost THEN Garbled(t)
  ELSE LET x == t.pos[1]
           drawn == [t EXCEPT !.cell[t.top + t.pos[2]][x] = g]
       IN  IF x + 1 < t.width THEN [drawn EXCEPT !.pos[1] = x + 1]
           ELSE LineFeed([drawn EXCEPT !.pos[1] = 0])

TERM_pcw_write_chars(t, gs) == FoldLeft(TERM_pcw_write_char, t, gs)

\* A backspace: left a column, the glyph there stays.
BackSpace(t) ==
  IF t.pos = Lost \/ t.pos[1] = 0 THEN [t EXCEPT !.pos = Lost]
  ELSE [t EXCEPT !.pos[1] = @ - 1]
=============================================================================
