------------------------------- MODULE Editor -------------------------------
(***************************************************************************)
(* The modal screen editor of esrc/edit/edit.c: the cursor, the viewport,  *)
(* the two modes, the line store and the ":" prompt.  One action is one    *)
(* key handled to the end by main's loop.  A key the handler refuses with  *)
(* a beep and nothing else is a stuttering step and has no action here.    *)
(*                                                                         *)
(* A struct text_line pointer is the index of its slot in text_array:      *)
(* slots are filled once, never moved and never freed while main runs.     *)
(*                                                                         *)
(* A definition named Bug... is the one behind it with a mistake: the      *)
(* properties are tried against it.                                        *)
(***************************************************************************)
EXTENDS Integers, FiniteSets

CONSTANTS
  PortH,          \* rows of the screen, status row included (port_h)
  PortW,          \* columns of the screen (port_w)
  MaxLineLen,     \* EDITOR_MAX_LINE_LEN
  MaxLineCount,   \* EDITOR_MAX_LINE_COUNT
  ArrayLines,     \* slots of the one text_line_array_entry
  InitSize,       \* buffer size of a new line
  TmpBufLen,      \* TMP_BUF_LEN
  TextChars,      \* the printable characters typed into the text
  PromptChars,    \* the printable characters typed at the ":" prompt
  Nul, Junk,      \* a calloc'ed cell; a cell realloc left uninitialised
  NoLine,         \* the NULL line pointer
  Wild,           \* a line pointer that was never assigned
  BootCurLine     \* what cur_state.cur_line may hold when main starts

ASSUME SizeAssumption ==
  /\ PortH \in Nat /\ PortH > 1
  /\ PortW \in Nat
  /\ InitSize \in Nat \ {0}
  /\ MaxLineLen \in Nat /\ InitSize < MaxLineLen
  /\ MaxLineLen < PortW
  /\ MaxLineCount \in Nat
  /\ ArrayLines \in Nat /\ MaxLineCount + 1 < ArrayLines
  /\ TmpBufLen \in Nat /\ TmpBufLen >= 2

ASSUME ValueAssumption ==
  /\ Nul \notin TextChars /\ Junk \notin TextChars
  /\ NoLine \notin Nat /\ Wild \notin Nat /\ NoLine # Wild
  /\ BootCurLine \subseteq {NoLine, Wild}

VARIABLES
  cur_x, cur_y,      \* cursor, relative to the viewport
  top_screen_line,   \* text line shown in the viewport's first row
  editor_mode, do_exit,
  cur_line,          \* cached pointer to the line under the cursor
  text_array,        \* slot -> line; the empty function when it is NULL
  live,              \* heap blocks allocated and not freed
  at_prompt,         \* main is inside handle_colon_cmd's read loop
  p, tmp_buf         \* the prompt's length and its buffer

cursor == <<cur_x, cur_y, top_screen_line, cur_line>>
store  == <<text_array, live>>
prompt == <<at_prompt, p, tmp_buf>>
vars   == <<cursor, store, prompt, editor_mode, do_exit>>

-----------------------------------------------------------------------------
(* The line store.                                                         *)

Cells == TextChars \cup {Nul, Junk}

\* The lines whose buffer was allocated with s cells.
LineOf(s) == [len : Nat, size : {s}, buf : [0..(s - 1) -> Cells]]

Lines == LineOf(InitSize) \cup LineOf(MaxLineLen)

ASSUME LineAssumption == NoLine \notin Lines

NewLine ==
  [len |-> 0, size |-> InitSize, buf |-> [i \in 0..(InitSize - 1) |-> Nul]]

IsLine(n) == n \in DOMAIN text_array /\ text_array[n] # NoLine

text_line_lookup(n) ==
  IF n \in DOMAIN text_array THEN text_array[n] ELSE NoLine

BugAllocLeak(header, buffer) ==
  IF header THEN IF buffer THEN 2 ELSE 1 ELSE 0

\* Blocks left allocated by text_line_alloc, given which callocs succeed:
\* the header is freed again when there is no memory for the buffer.
text_line_alloc(header, buffer) ==
  IF header /\ buffer THEN 2 ELSE 0

\* text_line_fetch returns line n, creating it when the slot is empty.
FetchLine(n) ==
  \/ IsLine(n) /\ UNCHANGED store
  \/ /\ n \in DOMAIN text_array
     /\ text_array[n] = NoLine
     /\ text_array' = [text_array EXCEPT ![n] = NewLine]
     /\ live' = live + text_line_alloc(TRUE, TRUE)

\* text_line_fetch returns NULL: no such slot, or one calloc fails.
FetchNothing(n) ==
  /\ UNCHANGED text_array
  /\ \/ n \notin DOMAIN text_array /\ UNCHANGED live
     \/ /\ n \in DOMAIN text_array
        /\ text_array[n] = NoLine
        /\ \E header \in BOOLEAN : live' = live + text_line_alloc(header, FALSE)

BugReallocNoCopy(l, s) ==
  [len |-> l.len, size |-> s, buf |-> [i \in 0..(s - 1) |-> Junk]]

\* A successful text_line_realloc keeps the old cells; the new ones are
\* whatever the heap held.
text_line_realloc(l, s) ==
  [len |-> l.len, size |-> s,
   buf |-> [i \in 0..(s - 1) |-> IF i < l.size THEN l.buf[i] ELSE Junk]]

-----------------------------------------------------------------------------
(* Cursor and viewport.                                                    *)

get_cur_line_number == top_screen_line + cur_y

get_editor_port_height == PortH - 1

BugClampNotEmpty(n) ==
  LET len == text_array[n].len
  IN  IF len > 0 /\ cur_x > len - 1 THEN len - 1 ELSE cur_x

\* clamp_cursor_x_at_line, with the cached line being n.
ClampAtLine(n) ==
  LET len == text_array[n].len
  IN  IF len = 0 THEN 0 ELSE IF cur_x > len - 1 THEN len - 1 ELSE cur_x

\* The values cur_line->len may yield; a wild pointer reads any byte.
CurLineLen ==
  CASE cur_line = NoLine -> {}
    [] cur_line = Wild   -> 0..255
    [] OTHER             -> {text_array[cur_line].len}

\* main's loop hands the key to the command (or edit) handler.
CmdKey  == ~do_exit /\ ~at_prompt /\ editor_mode = "CMD"
EditKey == ~do_exit /\ ~at_prompt /\ editor_mode = "EDIT"

-----------------------------------------------------------------------------
(* Command mode.                                                           *)

InsertCmd ==
  /\ CmdKey
  /\ \/ /\ FetchLine(get_cur_line_number)
        /\ cur_line' = get_cur_line_number
        /\ editor_mode' = "EDIT"
     \/ /\ FetchNothing(get_cur_line_number)
        /\ UNCHANGED <<cur_line, editor_mode>>
  /\ UNCHANGED <<cur_x, cur_y, top_screen_line, prompt, do_exit>>

BugUpNoCache ==
  LET ln == get_cur_line_number
  IN  /\ CmdKey
      /\ ln # 0
      /\ text_line_lookup(ln - 1) # NoLine
      /\ \/ cur_y > 0 /\ cur_y' = cur_y - 1 /\ UNCHANGED top_screen_line
         \/ /\ cur_y = 0
            /\ top_screen_line' = top_screen_line - 1
            /\ UNCHANGED cur_y
      /\ cur_x' = ClampAtLine(ln - 1)
      /\ UNCHANGED <<cur_line, store, prompt, editor_mode, do_exit>>

CursorUp ==
  LET ln == get_cur_line_number
  IN  /\ CmdKey
      /\ ln # 0
      /\ text_line_lookup(ln - 1) # NoLine
      /\ \/ cur_y > 0 /\ cur_y' = cur_y - 1 /\ UNCHANGED top_screen_line
         \/ /\ cur_y = 0
            /\ top_screen_line' = top_screen_line - 1
            /\ UNCHANGED cur_y
      /\ cur_line' = ln - 1
      /\ cur_x' = ClampAtLine(ln - 1)
      /\ UNCHANGED <<store, prompt, editor_mode, do_exit>>

CursorDown ==
  LET ln == get_cur_line_number
  IN  /\ CmdKey
      /\ text_line_lookup(ln + 1) # NoLine
      /\ \/ /\ cur_y < get_editor_port_height
            /\ cur_y' = cur_y + 1
            /\ UNCHANGED top_screen_line
         \/ /\ cur_y >= get_editor_port_height
            /\ top_screen_line' = top_screen_line + 1
            /\ UNCHANGED cur_y
      /\ cur_line' = ln + 1
      /\ cur_x' = ClampAtLine(ln + 1)
      /\ UNCHANGED <<store, prompt, editor_mode, do_exit>>

CursorLeft ==
  /\ CmdKey
  /\ cur_line # NoLine
  /\ cur_x # 0
  /\ cur_x' = cur_x - 1
  /\ UNCHANGED <<cur_y, top_screen_line, cur_line, store, prompt,
                 editor_mode, do_exit>>

CursorRight ==
  /\ CmdKey
  /\ \E len \in CurLineLen : len # 0 /\ cur_x < len - 1
  /\ cur_x < PortW
  /\ cur_x' = cur_x + 1
  /\ UNCHANGED <<cur_y, top_screen_line, cur_line, store, prompt,
                 editor_mode, do_exit>>

ColonCmd ==
  /\ CmdKey
  /\ at_prompt' = TRUE
  /\ p' = 0
  /\ tmp_buf' = [i \in 0..(TmpBufLen - 1) |-> Nul]
  /\ UNCHANGED <<cursor, store, editor_mode, do_exit>>

-----------------------------------------------------------------------------
(* The ":" prompt.  Its local p ceases to matter when the handler returns. *)

PromptChar(c) ==
  /\ at_prompt
  /\ p < TmpBufLen
  /\ tmp_buf' = [tmp_buf EXCEPT ![p] = c]
  /\ p' = p + 1
  /\ UNCHANGED <<cursor, store, at_prompt, editor_mode, do_exit>>

BugDelEmpty ==
  /\ at_prompt
  /\ p' = p - 1
  /\ UNCHANGED <<cursor, store, at_prompt, tmp_buf, editor_mode, do_exit>>

PromptDel ==
  /\ at_prompt
  /\ p > 0
  /\ p' = p - 1
  /\ UNCHANGED <<cursor, store, at_prompt, tmp_buf, editor_mode, do_exit>>

BugQuitPrefix == p >= 2 /\ tmp_buf[0] = "q" /\ tmp_buf[1] = "!"

\* The command line is exactly "q!".
QuitEntered == p = 2 /\ tmp_buf[0] = "q" /\ tmp_buf[1] = "!"

PromptEnter ==
  /\ at_prompt
  /\ do_exit' = (do_exit \/ QuitEntered)
  /\ at_prompt' = FALSE
  /\ p' = 0
  /\ UNCHANGED <<cursor, store, tmp_buf, editor_mode>>

BugEscIgnored == at_prompt /\ UNCHANGED vars

PromptEsc ==
  /\ at_prompt
  /\ at_prompt' = FALSE
  /\ p' = 0
  /\ UNCHANGED <<cursor, store, tmp_buf, editor_mode, do_exit>>

-----------------------------------------------------------------------------
(* Edit mode.                                                              *)

EditEsc ==
  /\ EditKey
  /\ editor_mode' = "CMD"
  /\ UNCHANGED <<cursor, store, prompt, do_exit>>

EditNewline ==
  LET ln == get_cur_line_number
  IN  /\ EditKey
      /\ ln < MaxLineCount
      /\ FetchLine(ln + 1)
      /\ cur_x' = 0
      /\ cur_line' = ln + 1
      /\ IF cur_y + 1 >= get_editor_port_height
         THEN top_screen_line' = top_screen_line + 1 /\ UNCHANGED cur_y
         ELSE cur_y' = cur_y + 1 /\ UNCHANGED top_screen_line
      /\ UNCHANGED <<prompt, editor_mode, do_exit>>

BugRefusedMoves ==
  LET ln == get_cur_line_number
  IN  /\ EditKey
      /\ \/ ln >= MaxLineCount /\ UNCHANGED store
         \/ ln < MaxLineCount /\ FetchNothing(ln + 1)
      /\ cur_x' = 0
      /\ cur_y' = cur_y + 1
      /\ UNCHANGED <<top_screen_line, cur_line, prompt, editor_mode, do_exit>>

\* The handler has already set cur_x to 0 when it finds no next line.
EditNewlineRefused ==
  LET ln == get_cur_line_number
  IN  /\ EditKey
      /\ \/ ln >= MaxLineCount /\ UNCHANGED store
         \/ ln < MaxLineCount /\ FetchNothing(ln + 1)
      /\ cur_x' = 0
      /\ UNCHANGED <<cur_y, top_screen_line, cur_line, prompt,
                     editor_mode, do_exit>>

BugDeleteAt(l, x) ==
  [len |-> l.len - 1, size |-> l.size,
   buf |-> [i \in DOMAIN l.buf |->
              IF x <= i /\ i < l.len - 1 THEN l.buf[i + 1] ELSE l.buf[i]]]

\* memmove closes the gap; the cell behind the new end keeps its character.
DeleteBefore(l, x) ==
  [len |-> l.len - 1, size |-> l.size,
   buf |-> [i \in DOMAIN l.buf |->
              IF x - 1 <= i /\ i < l.len - 1 THEN l.buf[i + 1] ELSE l.buf[i]]]

EditDel ==
  /\ EditKey
  /\ cur_line # NoLine
  /\ cur_x # 0
  /\ text_array[cur_line].len # 0
  /\ text_array' =
       [text_array EXCEPT ![cur_line] = DeleteBefore(@, cur_x)]
  /\ cur_x' = cur_x - 1
  /\ UNCHANGED <<cur_y, top_screen_line, cur_line, live, prompt,
                 editor_mode, do_exit>>

BugGrowLate(l, x, c) ==
  LET big == IF x > l.size THEN text_line_realloc(l, MaxLineLen) ELSE l
  IN  [len |-> IF x + 1 > l.len THEN x + 1 ELSE l.len, size |-> big.size,
       buf |-> [i \in DOMAIN big.buf |-> IF i = x THEN c ELSE big.buf[i]]]

\* The line with c written at column x, after any reallocation it needs.
PutChar(l, x, c) ==
  LET big == IF x >= l.size THEN text_line_realloc(l, MaxLineLen) ELSE l
  IN  [len |-> IF x + 1 > l.len THEN x + 1 ELSE l.len, size |-> big.size,
       buf |-> [big.buf EXCEPT ![x] = c]]

\* A failed realloc leaves the line as it was: the key is then refused.
EditType(c) ==
  /\ EditKey
  /\ cur_line # NoLine
  /\ cur_x < MaxLineLen
  /\ text_array' = [text_array EXCEPT ![cur_line] = PutChar(@, cur_x, c)]
  /\ cur_x' = cur_x + 1
  /\ UNCHANGED <<cur_y, top_screen_line, cur_line, live, prompt,
                 editor_mode, do_exit>>

-----------------------------------------------------------------------------
(* main returns once do_exit is set. *)

Exited == do_exit /\ UNCHANGED vars

\* The state in which main's loop starts: editor_init has run, the text
\* array was allocated or not, and nothing has assigned cur_line.
Init ==
  /\ cur_x = 0 /\ cur_y = 0 /\ top_screen_line = 0
  /\ editor_mode = "CMD" /\ do_exit = FALSE
  /\ cur_line \in BootCurLine
  /\ \/ text_array = [n \in 0..(ArrayLines - 1) |-> NoLine] /\ live = 1
     \/ text_array = [n \in {} |-> NoLine] /\ live = 0
  /\ at_prompt = FALSE /\ p = 0
  /\ tmp_buf = [i \in 0..(TmpBufLen - 1) |-> Nul]

Next ==
  \/ InsertCmd
  \/ CursorUp
  \/ CursorDown
  \/ CursorLeft
  \/ CursorRight
  \/ ColonCmd
  \/ \E c \in PromptChars : PromptChar(c)
  \/ PromptDel
  \/ PromptEnter
  \/ PromptEsc
  \/ EditEsc
  \/ EditNewline
  \/ EditNewlineRefused
  \/ EditDel
  \/ \E c \in TextChars : EditType(c)
  \/ Exited

Spec == Init /\ [][Next]_vars

-----------------------------------------------------------------------------
(* Safety.                                                                 *)

\* Types: the cursor stays inside the screen, a line's buffer has the size
\* its header says, the prompt never runs past tmp_buf (editor_init,
\* text_line_realloc, handle_colon_cmd).
TypeOK ==
  /\ cur_x \in 0..PortW
  /\ cur_y \in 0..get_editor_port_height
  /\ top_screen_line \in 0..MaxLineCount
  /\ editor_mode \in {"CMD", "EDIT"}
  /\ do_exit \in BOOLEAN
  /\ cur_line \in 0..(ArrayLines - 1) \cup BootCurLine
  /\ \/ text_array \in [0..(ArrayLines - 1) -> Lines \cup {NoLine}]
     \/ text_array = [n \in {} |-> NoLine]
  /\ live \in Nat
  /\ at_prompt \in BOOLEAN
  /\ p \in 0..TmpBufLen
  /\ tmp_buf \in [0..(TmpBufLen - 1) -> PromptChars \cup {Nul}]

\* The lines fill the array without a gap and the cursor is on one of them
\* unless there is none: only so does a missing neighbour mean the end of
\* the text to the cursor keys (handle_keypress_cursor_up, _down), and only
\* so does "i" never open a line past the end.
CursorOnText ==
  /\ \A n \in DOMAIN text_array : IsLine(n) => \A m \in 0..n : IsLine(m)
  /\ IsLine(get_cur_line_number) \/ (get_cur_line_number = 0 /\ ~IsLine(0))

\* The cached line pointer is the line under the cursor, and editing has
\* one: every key typed goes to the line the user sees the cursor on.
CurLineCached ==
  /\ cur_line \in BootCurLine =>
        editor_mode = "CMD" /\ ~IsLine(get_cur_line_number)
  /\ cur_line \notin BootCurLine =>
        cur_line = get_cur_line_number /\ IsLine(cur_line)

\* No line claims more characters than its buffer holds, and whenever DEL
\* is accepted the count it hands to memmove, len - cur_x, is not negative.
BufferSafe ==
  /\ \A n \in DOMAIN text_array :
       IsLine(n) => text_array[n].len <= text_array[n].size
  /\ cur_line \notin BootCurLine =>
       text_array[cur_line].len = 0 \/ cur_x <= text_array[cur_line].len

\* The cursor is on the text of its line or directly behind it, so that
\* typing never leaves unwritten cells inside a line.
CursorWithinLine ==
  cur_x <= IF cur_line \in BootCurLine THEN 0 ELSE text_array[cur_line].len

\* Every character of a line was typed: none is a cell of the allocator.
TextTyped ==
  \A n \in DOMAIN text_array :
    IsLine(n) =>
      \A i \in 0..(text_array[n].len - 1) : text_array[n].buf[i] \in TextChars

\* Every block on the heap can still be reached: one for the array, two for
\* each line.  A failing calloc leaks nothing (text_line_alloc).
HeapAccounted ==
  live = (IF text_array = [n \in {} |-> NoLine] THEN 0 ELSE 1)
           + 2 * Cardinality({n \in DOMAIN text_array : IsLine(n)})

\* "l" only goes to characters of the line, never to one past its last.
RightOnLine ==
  [][CursorRight => /\ IsLine(get_cur_line_number)
                    /\ cur_x' < text_array[get_cur_line_number].len]_vars
=============================================================================
