---------------------------- MODULE EditorScreen ----------------------------
(***************************************************************************)
(* Editor composed with the screen it draws on.  The editor never reads    *)
(* the screen back: each handler of esrc/edit/edit.c repairs just the part *)
(* it believes it has changed.                                             *)
(***************************************************************************)
EXTENDS EditorDoc, PcwTerm

VARIABLES
  term,     \* the screen
  faulted   \* history: the cursor left the viewport, or a refused newline
            \* moved it unseen, and the screen was not repainted since

screenVars == <<vars, term, faulted>>

\* The prompt, the longest command and the cursor behind it fit in the
\* status row: 16 characters (TMP_BUF_LEN) on a screen of 90 columns.
ASSUME PromptAssumption == TmpBufLen + 1 < PortW

NoLineGlyph == "~"

\* What repaint_line writes on an erased row for the line l.
Glyphs(l) ==
  IF l = NoLine THEN <<NoLineGlyph>>
  ELSE IF l.len = 0 THEN <<Blank>>
  ELSE [i \in 1..(IF l.len < PortW THEN l.len ELSE PortW) |-> l.buf[i - 1]]

LineShownAt(y) == text_line_lookup(top_screen_line + y)

repaint_line(t, y, l) ==
  TERM_pcw_write_chars(
    TERM_pcw_move_cursor(
      TERM_pcw_erase_line_end(TERM_pcw_move_cursor(t, 0, y)), 0, y),
    Glyphs(l))

set_viewport_normal(t) ==
  TERM_pcw_move_cursor(
    TERM_pcw_set_viewport(t, 0, get_editor_port_height, PortW), cur_x, cur_y)

set_viewport_cmd(t) ==
  TERM_pcw_move_cursor(TERM_pcw_set_viewport(t, PortH - 1, PortH, PortW), 0, 0)

repaint_screen(t) ==
  LET paint(u, y) == repaint_line(u, y, LineShownAt(y))
  IN  TERM_pcw_move_cursor(
        FoldLeft(paint, set_viewport_normal(TERM_pcw_clr_home(t)),
                 [i \in 1..get_editor_port_height |-> i - 1]),
        cur_x, cur_y)

-----------------------------------------------------------------------------
(* Each key with what its handler sends to the screen.                     *)

MoveToCursor(t) == TERM_pcw_move_cursor(t, cur_x', cur_y')

\* Redraw the first row, or the cursor's, from the text the handler leaves.
TopRedrawn(t) == repaint_line(t, 0, LineShownAt(0)')
CursorRowRedrawn(t) == repaint_line(t, cur_y', LineShownAt(cur_y)')

ShowInsertCmd ==
  /\ InsertCmd
  /\ term' = IF editor_mode' = "EDIT" THEN MoveToCursor(CursorRowRedrawn(term))
                                      ELSE term

ShowCursorUp ==
  /\ CursorUp
  /\ term' =
       LET scrolled == TERM_pcw_cursor_move_up_scroll(
                         TERM_pcw_move_cursor(term, 0, 0))
       IN  MoveToCursor(IF cur_y > 0 THEN term ELSE TopRedrawn(scrolled))

\* The last row of the text scrolls up to make room for the next line.
ScrolledUp == LineFeed(TERM_pcw_move_cursor(term, 0, get_editor_port_height - 1))

ShowCursorDown ==
  /\ CursorDown
  /\ term' = MoveToCursor(IF cur_y < get_editor_port_height THEN term
                          ELSE CursorRowRedrawn(ScrolledUp))

ShowCursorAlong ==
  /\ CursorLeft \/ CursorRight
  /\ term' = MoveToCursor(term)

ShowRepaint ==
  /\ CmdKey
  /\ UNCHANGED vars
  /\ term' = repaint_screen(term)

ShowColonCmd ==
  /\ ColonCmd
  /\ term' = TERM_pcw_write_char(set_viewport_cmd(term), ":")

ShowPromptChar(c) ==
  /\ PromptChar(c)
  /\ term' = TERM_pcw_write_char(term, c)

ShowPromptDel ==
  /\ PromptDel
  /\ term' = BackSpace(term)

ShowPromptLeave ==
  /\ PromptEnter \/ PromptEsc
  /\ term' = set_viewport_normal(term)

\* Nothing is sent: leaving edit mode, and a newline refused with a beep.
ShowNothing ==
  /\ EditEsc \/ EditNewlineRefused
  /\ UNCHANGED term

BugNewlineNoScroll ==
  /\ EditNewline
  /\ term' = TERM_pcw_move_cursor(CursorRowRedrawn(term), 0, cur_y')

ShowEditNewline ==
  /\ EditNewline
  /\ term' =
       LET scrolls == cur_y + 1 >= get_editor_port_height
       IN  TERM_pcw_move_cursor(
             CursorRowRedrawn(IF scrolls THEN ScrolledUp ELSE term), 0, cur_y')

ShowEditDel ==
  /\ EditDel
  /\ term' = MoveToCursor(CursorRowRedrawn(term))

\* The character is written where the screen's cursor is.
ShowEditType(c) ==
  /\ EditType(c)
  /\ term' = TERM_pcw_write_char(term, c)

InPort(y) == y < get_editor_port_height

\* The screen and the editor may part ways: see faulted.
Faulting ==
  \/ ~InPort(cur_y')
  \/ EditNewlineRefused /\ cur_x # 0
  \/ faulted /\ ~ShowRepaint

-----------------------------------------------------------------------------

BlankScreen ==
  [top |-> 0, height |-> PortH, width |-> PortW, pos |-> <<0, 0>>,
   cell |-> [r \in 0..(PortH - 1) |-> [c \in 0..(PortW - 1) |-> Blank]]]

\* main clears the screen and paints it once before the first key.
ScreenInit ==
  /\ Init
  /\ term = repaint_screen(BlankScreen)
  /\ faulted = FALSE

ScreenStep ==
  \/ ShowInsertCmd
  \/ ShowCursorUp
  \/ ShowCursorDown
  \/ ShowCursorAlong
  \/ ShowRepaint
  \/ ShowColonCmd
  \/ \E c \in PromptChars : ShowPromptChar(c)
  \/ ShowPromptDel
  \/ ShowPromptLeave
  \/ ShowNothing
  \/ ShowEditNewline
  \/ ShowEditDel
  \/ \E c \in TextChars : ShowEditType(c)
  \/ Exited /\ UNCHANGED term

ScreenNext == ScreenStep /\ faulted' = Faulting

ScreenSpec == ScreenInit /\ [][ScreenNext]_screenVars

-----------------------------------------------------------------------------
(* Safety.                                                                 *)

\* The cells of row y are those of the text line it should show.
RowFaithful(y) ==
  LET gs == Glyphs(LineShownAt(y))
  IN  term.cell[y] = [c \in 0..(PortW - 1) |->
                        IF c < Len(gs) THEN gs[c + 1] ELSE Blank]

CursorFaithful == term.top = 0 /\ term.pos = <<cur_x, cur_y>>

\* What the prompt leaves on the status row.
StatusGlyphs == PromptChars \cup {":", Blank, Noise}

\* Every row of the viewport shows its line of the text (or "~" past the
\* end), the screen's cursor is where the editor believes it is whenever the
\* next key may draw, and nothing but the prompt writes on the status row: the
\* partial repairs of the handlers add up to the picture repaint_screen
\* draws.  It may be lost in the two ways faulted records, and "r" always
\* restores it.
DisplayFaithful ==
  ~faulted =>
    /\ \A y \in 0..(get_editor_port_height - 1) : RowFaithful(y)
    /\ ~at_prompt => CursorFaithful
    /\ \A c \in 0..(PortW - 1) : term.cell[PortH - 1][c] \in StatusGlyphs

\* The cursor's row is one of the get_editor_port_height() rows above the
\* status line.
CursorInPort == InPort(cur_y)
=============================================================================
