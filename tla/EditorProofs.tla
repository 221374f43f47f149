--------------------------- MODULE EditorProofs ---------------------------
(***************************************************************************)
(* What holds of the editor for every screen size, line limit and          *)
(* alphabet: its invariants, what it keeps in its lines and on the heap,   *)
(* that it implements TextDoc, and when it ends.                           *)
(***************************************************************************)
EXTENDS EditorQuit, FiniteSetTheorems, SequenceTheorems, TLAPS

\* Newline never makes a line past the limit, and only newline makes lines.
LinesLimited ==
  \A n \in DOMAIN text_array : IsLine(n) => n <= MaxLineCount

\* The inductive invariant.
Inv ==
  /\ TypeOK
  /\ CursorOnText
  /\ CurLineCached
  /\ BufferSafe
  /\ LinesLimited

-----------------------------------------------------------------------------
(* The line store.                                                         *)

\* A line's buffer has as many cells as its header says.
LEMMA LineFacts ==
  ASSUME NEW l \in Lines
  PROVE  /\ l.len \in Nat
         /\ l.size \in {InitSize, MaxLineLen}
         /\ l.buf \in [0..(l.size - 1) -> Cells]
   BY DEF Lines, LineOf

\* A record with a buffer of one of the two sizes is a line.
LEMMA MakeLine ==
  ASSUME NEW k \in Nat, NEW s \in {InitSize, MaxLineLen},
         NEW b \in [0..(s - 1) -> Cells]
  PROVE  [len |-> k, size |-> s, buf |-> b] \in Lines
BY DEF Lines, LineOf

\* A new line is an empty line.
LEMMA NewLineFacts ==
  NewLine \in Lines /\ NewLine # NoLine /\ NewLine.len = 0 /\ NewLine.size = InitSize
BY MakeLine, LineAssumption, SizeAssumption DEF NewLine, Cells

\* Deleting a character leaves a line, one shorter; the characters before the
\* deleted one stay and those behind it move up.
LEMMA DeleteFacts ==
  ASSUME NEW l \in Lines, l.len # 0, l.len <= l.size,
         NEW x \in Nat \ {0}, x <= l.len
  PROVE  /\ DeleteBefore(l, x) \in Lines
         /\ DeleteBefore(l, x).len = l.len - 1
         /\ DeleteBefore(l, x).size = l.size
         /\ \A i \in 0..(l.len - 2) :
              DeleteBefore(l, x).buf[i] = l.buf[IF i < x - 1 THEN i ELSE i + 1]
<1> DEFINE b == [i \in DOMAIN l.buf |->
                   IF x - 1 <= i /\ i < l.len - 1 THEN l.buf[i + 1] ELSE l.buf[i]]
<1>1. /\ l.len \in Nat /\ l.size \in Nat /\ l.size \in {InitSize, MaxLineLen}
      /\ l.buf \in [0..(l.size - 1) -> Cells]
  BY LineFacts, SizeAssumption
<1>2. b \in [0..(l.size - 1) -> Cells]
  <2> SUFFICES ASSUME NEW i \in 0..(l.size - 1)
               PROVE  (IF x - 1 <= i /\ i < l.len - 1 THEN l.buf[i + 1]
                                                      ELSE l.buf[i]) \in Cells
    BY <1>1
  <2>1. i < l.len - 1 => i + 1 \in 0..(l.size - 1)
    BY <1>1
  <2> QED  BY <1>1, <2>1
<1>3. DeleteBefore(l, x) = [len |-> l.len - 1, size |-> l.size, buf |-> b]
  BY DEF DeleteBefore
<1>4. \A i \in 0..(l.len - 2) : b[i] = l.buf[IF i < x - 1 THEN i ELSE i + 1]
  <2> SUFFICES ASSUME NEW i \in 0..(l.len - 2)
               PROVE  b[i] = l.buf[IF i < x - 1 THEN i ELSE i + 1]
    OBVIOUS
  <2>1. i \in 0..(l.size - 1) /\ i < l.len - 1
    BY <1>1
  <2> QED  BY <1>1, <2>1
<1>5. l.len - 1 \in Nat
  BY <1>1
<1>6. [len |-> l.len - 1, size |-> l.size, buf |-> b] \in Lines
  BY <1>1, <1>2, <1>5, MakeLine
<1> HIDE DEF b
<1> QED  BY <1>3, <1>4, <1>6

\* A grown buffer keeps its cells.
LEMMA ReallocFacts ==
  ASSUME NEW l \in Lines
  PROVE  /\ text_line_realloc(l, MaxLineLen) \in Lines
         /\ text_line_realloc(l, MaxLineLen).len = l.len
         /\ text_line_realloc(l, MaxLineLen).size = MaxLineLen
         /\ \A i \in 0..(l.size - 1) :
              text_line_realloc(l, MaxLineLen).buf[i] = l.buf[i]
<1> DEFINE b == [i \in 0..(MaxLineLen - 1) |-> IF i < l.size THEN l.buf[i] ELSE Junk]
<1>1. /\ l.len \in Nat /\ l.size \in Nat /\ l.size \in {InitSize, MaxLineLen}
      /\ l.buf \in [0..(l.size - 1) -> Cells]
      /\ l.size <= MaxLineLen
  BY LineFacts, SizeAssumption
<1>2. b \in [0..(MaxLineLen - 1) -> Cells]
  BY <1>1 DEF Cells
<1>3. text_line_realloc(l, MaxLineLen) = [len |-> l.len, size |-> MaxLineLen, buf |-> b]
  BY DEF text_line_realloc
<1>4. \A i \in 0..(l.size - 1) : b[i] = l.buf[i]
  BY <1>1, SizeAssumption
<1>5. [len |-> l.len, size |-> MaxLineLen, buf |-> b] \in Lines
  BY <1>1, <1>2, MakeLine
<1> HIDE DEF b
<1> QED  BY <1>3, <1>4, <1>5

\* Typing at a column up to the limit leaves a line that holds the character
\* there and keeps its other cells.
LEMMA PutFacts ==
  ASSUME NEW l \in Lines, l.len <= l.size,
         NEW x \in Nat, x < MaxLineLen, NEW c \in TextChars
  PROVE  /\ PutChar(l, x, c) \in Lines
         /\ PutChar(l, x, c).len <= PutChar(l, x, c).size
         /\ PutChar(l, x, c).len = IF x + 1 > l.len THEN x + 1 ELSE l.len
         /\ PutChar(l, x, c).buf[x] = c
         /\ \A i \in 0..(l.size - 1) : i # x => PutChar(l, x, c).buf[i] = l.buf[i]
<1> DEFINE big == IF x >= l.size THEN text_line_realloc(l, MaxLineLen) ELSE l
           n == IF x + 1 > l.len THEN x + 1 ELSE l.len
           b == [big.buf EXCEPT ![x] = c]
<1>0. l.len \in Nat /\ l.size \in Nat /\ l.size <= MaxLineLen
  BY LineFacts, SizeAssumption
<1>1. /\ big \in Lines /\ big.len = l.len
      /\ x < big.size /\ l.size <= big.size
      /\ \A i \in 0..(l.size - 1) : big.buf[i] = l.buf[i]
  BY <1>0, ReallocFacts, SizeAssumption
<1> HIDE DEF big
<1>2. /\ big.size \in {InitSize, MaxLineLen} /\ big.size \in Nat
      /\ big.buf \in [0..(big.size - 1) -> Cells]
  BY <1>1, LineFacts, SizeAssumption
<1>3. PutChar(l, x, c) = [len |-> n, size |-> big.size, buf |-> b]
  BY DEF PutChar, big
<1>4. x \in 0..(big.size - 1) /\ \A i \in 0..(l.size - 1) : i \in 0..(big.size - 1)
  BY <1>0, <1>1, <1>2
<1>5. b \in [0..(big.size - 1) -> Cells] /\ n \in Nat
  BY <1>0, <1>1, <1>2, <1>4 DEF Cells
<1>6. n <= big.size /\ n = IF x + 1 > l.len THEN x + 1 ELSE l.len
  BY <1>0, <1>1, <1>2
<1>7. b[x] = c /\ \A i \in 0..(l.size - 1) : i # x => b[i] = l.buf[i]
  BY <1>1, <1>2, <1>4
<1>8. [len |-> n, size |-> big.size, buf |-> b] \in Lines
  BY <1>2, <1>5, MakeLine
<1> HIDE DEF n, b
<1> QED  BY <1>3, <1>6, <1>7, <1>8

-----------------------------------------------------------------------------
(* Steps on the store.                                                     *)

StoreTyped ==
  /\ \/ text_array \in [0..(ArrayLines - 1) -> Lines \cup {NoLine}]
     \/ text_array = [n \in {} |-> NoLine]
  /\ live \in Nat

\* What the invariant says of the lines alone.
StoreInv ==
  /\ StoreTyped
  /\ \A n \in DOMAIN text_array : IsLine(n) => \A m \in 0..n : IsLine(m)
  /\ LinesLimited
  /\ \A n \in DOMAIN text_array :
       IsLine(n) => text_array[n].len <= text_array[n].size

\* Every line is a record of the right shape.
LEMMA LineInStore ==
  ASSUME StoreTyped, NEW n, IsLine(n)
  PROVE  /\ text_array[n] \in Lines
         /\ n \in 0..(ArrayLines - 1)
         /\ text_array \in [0..(ArrayLines - 1) -> Lines \cup {NoLine}]
         /\ DOMAIN text_array = 0..(ArrayLines - 1)
BY DEF StoreTyped, IsLine

\* Fetching the line at, or directly behind, the last one keeps the lines
\* there are and leaves one at n.
LEMMA FetchKeeps ==
  ASSUME StoreInv, NEW n \in Nat, n <= MaxLineCount, FetchLine(n),
         \A m \in 0..(n - 1) : IsLine(m)
  PROVE  /\ StoreInv'
         /\ IsLine(n)'
         /\ \A m : IsLine(m) => IsLine(m)' /\ text_array'[m] = text_array[m]
         /\ ~IsLine(n) => text_array'[n].len = 0
         /\ \A m : IsLine(m)' => IsLine(m) \/ m = n
<1>1. CASE IsLine(n) /\ UNCHANGED store
  BY <1>1 DEF StoreInv, StoreTyped, LinesLimited, IsLine, store
<1>2. CASE /\ n \in DOMAIN text_array
           /\ text_array[n] = NoLine
           /\ text_array' = [text_array EXCEPT ![n] = NewLine]
           /\ live' = live + text_line_alloc(TRUE, TRUE)
  <2>1. /\ text_array \in [0..(ArrayLines - 1) -> Lines \cup {NoLine}]
        /\ DOMAIN text_array = 0..(ArrayLines - 1) /\ n \in 0..(ArrayLines - 1)
    BY <1>2 DEF StoreInv, StoreTyped
  <2>2. /\ text_array' \in [0..(ArrayLines - 1) -> Lines \cup {NoLine}]
        /\ DOMAIN text_array' = DOMAIN text_array
        /\ text_array'[n] = NewLine
        /\ \A m \in DOMAIN text_array : m # n => text_array'[m] = text_array[m]
    BY <1>2, <2>1, NewLineFacts
  <2>3. live' \in Nat
    BY <1>2 DEF StoreInv, StoreTyped, text_line_alloc
  <2>4. /\ IsLine(n)'
        /\ \A m : IsLine(m) => IsLine(m)' /\ text_array'[m] = text_array[m]
        /\ \A m : IsLine(m)' => IsLine(m) \/ m = n
    BY <1>2, <2>1, <2>2, NewLineFacts DEF IsLine
  <2>5. \A m \in DOMAIN text_array' : IsLine(m)' => \A k \in 0..m : IsLine(k)'
    <3> SUFFICES ASSUME NEW m \in DOMAIN text_array', IsLine(m)',
                        NEW k \in 0..m
                 PROVE  IsLine(k)'
      OBVIOUS
    <3>1. CASE IsLine(m)
      BY <3>1, <2>2, <2>4 DEF StoreInv
    <3>2. CASE m = n
      <4>1. k = n \/ k \in 0..(n - 1)
        BY <3>2
      <4> QED  BY <4>1, <2>4
    <3> QED  BY <3>1, <3>2, <2>4
  <2>6. LinesLimited'
    BY <2>2, <2>4 DEF StoreInv, LinesLimited
  <2>7. \A m \in DOMAIN text_array' :
          IsLine(m)' => text_array'[m].len <= text_array'[m].size
    BY <2>2, <2>4, NewLineFacts, SizeAssumption DEF StoreInv
  <2> QED
    BY <2>2, <2>3, <2>4, <2>5, <2>6, <2>7, NewLineFacts DEF StoreInv, StoreTyped
<1> QED  BY <1>1, <1>2 DEF FetchLine

\* Rewriting a line by another line keeps the lines in place.
LEMMA RewriteKeeps ==
  ASSUME StoreInv, NEW n, IsLine(n), NEW l \in Lines, l.len <= l.size,
         text_array' = [text_array EXCEPT ![n] = l], UNCHANGED live
  PROVE  /\ StoreInv'
         /\ text_array'[n] = l
         /\ \A m : IsLine(m)' <=> IsLine(m)
         /\ \A m \in DOMAIN text_array : m # n => text_array'[m] = text_array[m]
<1>1. /\ text_array \in [0..(ArrayLines - 1) -> Lines \cup {NoLine}]
      /\ DOMAIN text_array = 0..(ArrayLines - 1) /\ n \in 0..(ArrayLines - 1)
  BY LineInStore DEF StoreInv
<1>2. /\ text_array' \in [0..(ArrayLines - 1) -> Lines \cup {NoLine}]
      /\ DOMAIN text_array' = DOMAIN text_array
      /\ text_array'[n] = l
      /\ \A m \in DOMAIN text_array : m # n => text_array'[m] = text_array[m]
  BY <1>1
<1>3. \A m : IsLine(m)' <=> IsLine(m)
  BY <1>1, <1>2, LineAssumption DEF IsLine
<1>4. StoreTyped' /\ LinesLimited'
  BY <1>2, <1>3 DEF StoreInv, StoreTyped, LinesLimited
<1>5. \A m \in DOMAIN text_array' : IsLine(m)' => \A k \in 0..m : IsLine(k)'
  BY <1>2, <1>3 DEF StoreInv
<1>6. \A m \in DOMAIN text_array' :
        IsLine(m)' => text_array'[m].len <= text_array'[m].size
  BY <1>2, <1>3 DEF StoreInv
<1> QED  BY <1>2, <1>3, <1>4, <1>5, <1>6 DEF StoreInv

\* Fetching nothing leaves the store as it is.
LEMMA NothingKeeps ==
  ASSUME StoreInv, NEW n, FetchNothing(n)
  PROVE  StoreInv' /\ text_array' = text_array
<1>1. live' \in Nat /\ text_array' = text_array
  BY DEF FetchNothing, text_line_alloc, StoreInv, StoreTyped
<1> QED  BY <1>1 DEF StoreInv, StoreTyped, LinesLimited, IsLine

-----------------------------------------------------------------------------
(* Steps of the cursor.                                                    *)

\* What the invariant says of the cursor, given the lines.
CursorInv ==
  /\ cur_x \in 0..PortW
  /\ cur_y \in 0..get_editor_port_height
  /\ top_screen_line \in 0..MaxLineCount
  /\ cur_line \in 0..(ArrayLines - 1) \cup BootCurLine
  /\ IsLine(get_cur_line_number) \/ (get_cur_line_number = 0 /\ ~IsLine(0))
  /\ CurLineCached
  /\ cur_line \notin BootCurLine =>
       text_array[cur_line].len = 0 \/ cur_x <= text_array[cur_line].len

ControlInv ==
  /\ editor_mode \in {"CMD", "EDIT"} /\ do_exit \in BOOLEAN
  /\ at_prompt \in BOOLEAN /\ p \in 0..TmpBufLen
  /\ tmp_buf \in [0..(TmpBufLen - 1) -> PromptChars \cup {Nul}]

\* The invariant splits into what it says of lines, cursor and control.
LEMMA InvParts ==
  /\ Inv <=> StoreInv /\ CursorInv /\ ControlInv
  /\ Inv' <=> StoreInv' /\ CursorInv' /\ ControlInv'
BY DEF Inv, TypeOK, CursorOnText, BufferSafe, StoreInv, StoreTyped, CursorInv,
       ControlInv

\* A boot value of cur_line is not the index of a line.
LEMMA BootNotLine == BootCurLine \cap Nat = {}
BY ValueAssumption

\* The first row of a viewport whose cursor is on a line in the limit.
LEMMA FirstRow ==
  ASSUME NEW n \in Nat, n <= MaxLineCount, NEW t \in Nat, NEW y \in Nat, t + y = n
  PROVE  t \in 0..MaxLineCount
BY SizeAssumption

\* A viewport showing a line inside the limit starts inside the limit.
LEMMA ViewportInText ==
  ASSUME NEW n \in Nat, get_cur_line_number' = n, n <= MaxLineCount,
         cur_y' \in 0..get_editor_port_height, top_screen_line' \in Nat
  PROVE  top_screen_line' \in 0..MaxLineCount
<1>1. top_screen_line' + cur_y' = n
  BY DEF get_cur_line_number
<1>2. cur_y' \in Nat
  BY SizeAssumption DEF get_editor_port_height
<1> QED  BY ONLY <1>1, <1>2, FirstRow, n \in Nat, n <= MaxLineCount, top_screen_line' \in Nat

\* The cursor put on an existing line, at a column inside it.
LEMMA OnLine ==
  ASSUME StoreInv', NEW n \in Nat, IsLine(n)', cur_line' = n,
         get_cur_line_number' = n,
         cur_x' \in 0..PortW, cur_y' \in 0..get_editor_port_height,
         top_screen_line' \in Nat,
         text_array'[n].len = 0 \/ cur_x' <= text_array'[n].len
  PROVE  CursorInv'
<1>1. n \in 0..MaxLineCount /\ n \in 0..(ArrayLines - 1) /\ n \notin BootCurLine
  <2>1. n \in DOMAIN text_array'
    BY DEF IsLine
  <2>2. n <= MaxLineCount
    BY <2>1 DEF StoreInv, LinesLimited
  <2> QED  BY <2>2, BootNotLine, SizeAssumption
<1>2. top_screen_line' \in 0..MaxLineCount
  BY <1>1, ViewportInText
<1>4. CurLineCached'
  BY <1>1 DEF CurLineCached
<1> QED
  BY <1>1, <1>2, <1>4 DEF CursorInv, get_editor_port_height

\* Nothing happens to the cursor or to the lines.
LEMMA CursorStays ==
  ASSUME CursorInv, UNCHANGED cursor, text_array' = text_array,
         editor_mode' \in {editor_mode, "CMD"}
  PROVE  CursorInv'
BY DEF CursorInv, CurLineCached, IsLine, get_cur_line_number,
       get_editor_port_height, cursor

\* A column of the same line, not past its end, is as good as another.
LEMMA ColumnMoves ==
  ASSUME CursorInv, UNCHANGED <<cur_y, top_screen_line, cur_line, editor_mode>>,
         text_array' = text_array, cur_x' \in 0..PortW,
         cur_line \notin BootCurLine =>
           text_array[cur_line].len = 0 \/ cur_x' <= text_array[cur_line].len
  PROVE  CursorInv'
BY DEF CursorInv, CurLineCached, IsLine, get_cur_line_number,
       get_editor_port_height

\* The line number under the cursor, and the cursor's coordinates, are numbers.
LEMMA CursorNumbers ==
  ASSUME StoreInv, CursorInv
  PROVE  /\ cur_x \in Nat /\ cur_y \in Nat /\ top_screen_line \in Nat
         /\ get_cur_line_number \in Nat /\ get_cur_line_number <= MaxLineCount
         /\ \A m \in 0..(get_cur_line_number - 1) : IsLine(m)
<1>1. cur_x \in Nat /\ cur_y \in Nat /\ top_screen_line \in Nat
  BY SizeAssumption DEF CursorInv, get_editor_port_height
<1>2. get_cur_line_number \in Nat
  BY <1>1 DEF get_cur_line_number
<1>3. CASE IsLine(get_cur_line_number)
  <2>1. get_cur_line_number \in DOMAIN text_array
    BY <1>3 DEF IsLine
  <2> QED  BY <1>1, <1>2, <1>3, <2>1 DEF StoreInv, LinesLimited
<1>4. CASE get_cur_line_number = 0
  BY <1>1, <1>4, SizeAssumption
<1> QED  BY <1>3, <1>4 DEF CursorInv

\* The clamp keeps the cursor on the screen and not past the line's end.
LEMMA ClampFacts ==
  ASSUME StoreInv, NEW n, IsLine(n), cur_x \in 0..PortW
  PROVE  /\ ClampAtLine(n) \in 0..PortW
         /\ ClampAtLine(n) <= text_array[n].len
<1>1. text_array[n].len \in Nat
  BY LineInStore, LineFacts DEF StoreInv
<1> QED  BY <1>1, SizeAssumption DEF ClampAtLine

-----------------------------------------------------------------------------
(* The invariant is kept by every key.                                     *)

\* "i" fetches the line under the cursor and caches it (handle_insert_cmd).
LEMMA InsertKeeps == Inv /\ InsertCmd => Inv'
<1> SUFFICES ASSUME StoreInv, CursorInv, ControlInv, InsertCmd
             PROVE  StoreInv' /\ CursorInv' /\ ControlInv'
  BY InvParts
<1> PICK n : n = get_cur_line_number
  OBVIOUS
<1>1. ControlInv'
  BY DEF ControlInv, InsertCmd, prompt
<1>2. CASE FetchLine(n) /\ cur_line' = n
  <2>1. /\ n \in Nat /\ n <= MaxLineCount /\ \A m \in 0..(n - 1) : IsLine(m)
        /\ top_screen_line \in Nat
    BY CursorNumbers
  <2>2. /\ StoreInv' /\ IsLine(n)'
        /\ IF IsLine(n) THEN text_array'[n] = text_array[n] ELSE text_array'[n].len = 0
    BY <1>2, <2>1, FetchKeeps
  <2>3. /\ get_cur_line_number' = n
        /\ cur_x' \in 0..PortW /\ cur_y' \in 0..get_editor_port_height
        /\ top_screen_line' \in Nat
    BY <2>1 DEF InsertCmd, CursorInv, get_cur_line_number
  <2>4. text_array'[n].len = 0 \/ cur_x' <= text_array'[n].len
    <3>1. IsLine(n) => cur_line \notin BootCurLine /\ cur_line = n
      BY DEF CursorInv, CurLineCached
    <3> QED  BY <2>2, <3>1 DEF CursorInv, InsertCmd
  <2> QED  BY <1>1, <1>2, <2>1, <2>2, <2>3, <2>4, OnLine
<1>3. CASE FetchNothing(n) /\ UNCHANGED <<cur_line, editor_mode>>
  <2>1. StoreInv' /\ text_array' = text_array
    BY <1>3, NothingKeeps
  <2> QED  BY <1>1, <1>3, <2>1, CursorStays DEF InsertCmd, cursor
<1> QED  BY <1>2, <1>3 DEF InsertCmd


\* The cursor moves up one line (handle_keypress_cursor_up).
LEMMA UpKeeps == Inv /\ CursorUp => Inv'
<1> SUFFICES ASSUME StoreInv, CursorInv, ControlInv, CursorUp
             PROVE  StoreInv' /\ CursorInv' /\ ControlInv'
  BY InvParts
<1> PICK n : n = get_cur_line_number - 1
  OBVIOUS
<1>1. ControlInv'
  BY DEF ControlInv, CursorUp, prompt
<1>2. StoreInv' /\ \A m : IsLine(m)' <=> IsLine(m)
  BY DEF CursorUp, store, StoreInv, StoreTyped, LinesLimited, IsLine
<1>3. n \in Nat /\ IsLine(n)
  BY CursorNumbers DEF CursorUp, text_line_lookup, IsLine
<1>4. cur_line' = n /\ cur_x' = ClampAtLine(n) /\ text_array' = text_array
  BY DEF CursorUp, store
<1>5. /\ cur_y' \in 0..get_editor_port_height
      /\ top_screen_line' \in Nat
      /\ get_cur_line_number' = n
  <2>1. cur_y \in Nat /\ top_screen_line \in Nat /\ n = top_screen_line + cur_y - 1
    BY CursorNumbers DEF get_cur_line_number
  <2>2. cur_y <= PortH - 1
    BY DEF CursorInv, get_editor_port_height
  <2>3. CASE cur_y > 0 /\ cur_y' = cur_y - 1 /\ top_screen_line' = top_screen_line
    BY <2>1, <2>2, <2>3, SizeAssumption DEF get_cur_line_number, get_editor_port_height
  <2>4. CASE cur_y = 0 /\ top_screen_line' = top_screen_line - 1 /\ cur_y' = cur_y
    BY <1>3, <2>1, <2>2, <2>4, SizeAssumption DEF get_cur_line_number, get_editor_port_height
  <2> QED  BY <2>3, <2>4 DEF CursorUp
<1>6. /\ cur_x' \in 0..PortW
      /\ text_array'[n].len = 0 \/ cur_x' <= text_array'[n].len
  BY <1>3, <1>4, ClampFacts DEF CursorInv
<1> QED  BY <1>1, <1>2, <1>3, <1>4, <1>5, <1>6, OnLine

\* The cursor moves down one line (handle_keypress_cursor_down).
LEMMA DownKeeps == Inv /\ CursorDown => Inv'
<1> SUFFICES ASSUME StoreInv, CursorInv, ControlInv, CursorDown
             PROVE  StoreInv' /\ CursorInv' /\ ControlInv'
  BY InvParts
<1> PICK n : n = get_cur_line_number + 1
  OBVIOUS
<1>1. ControlInv'
  BY DEF ControlInv, CursorDown, prompt
<1>2. StoreInv' /\ \A m : IsLine(m)' <=> IsLine(m)
  BY DEF CursorDown, store, StoreInv, StoreTyped, LinesLimited, IsLine
<1>3. n \in Nat /\ IsLine(n)
  BY CursorNumbers DEF CursorDown, text_line_lookup, IsLine
<1>4. cur_line' = n /\ cur_x' = ClampAtLine(n) /\ text_array' = text_array
  BY DEF CursorDown, store
<1>5. /\ cur_y' \in 0..get_editor_port_height
      /\ top_screen_line' \in Nat
      /\ get_cur_line_number' = n
  <2>1. cur_y \in Nat /\ top_screen_line \in Nat /\ n = top_screen_line + cur_y + 1
    BY CursorNumbers DEF get_cur_line_number
  <2>2. cur_y <= PortH - 1
    BY DEF CursorInv, get_editor_port_height
  <2>3. CASE cur_y < PortH - 1 /\ cur_y' = cur_y + 1 /\ top_screen_line' = top_screen_line
    BY <2>1, <2>2, <2>3, SizeAssumption DEF get_cur_line_number, get_editor_port_height
  <2>4. CASE top_screen_line' = top_screen_line + 1 /\ cur_y' = cur_y
    BY <2>1, <2>2, <2>4, SizeAssumption DEF get_cur_line_number, get_editor_port_height
  <2> QED  BY <2>3, <2>4 DEF CursorDown, get_editor_port_height
<1>6. /\ cur_x' \in 0..PortW
      /\ text_array'[n].len = 0 \/ cur_x' <= text_array'[n].len
  BY <1>3, <1>4, ClampFacts DEF CursorInv
<1> QED  BY <1>1, <1>2, <1>3, <1>4, <1>5, <1>6, OnLine

\* Steps that leave the lines alone keep what is said of them.
LEMMA LinesStay == StoreInv /\ UNCHANGED store => StoreInv'
BY DEF StoreInv, StoreTyped, LinesLimited, IsLine, store

\* The cursor moves left (handle_keypress_cursor_left).
LEMMA LeftKeeps == Inv /\ CursorLeft => Inv'
<1> SUFFICES ASSUME StoreInv, CursorInv, ControlInv, CursorLeft
             PROVE  StoreInv' /\ CursorInv' /\ ControlInv'
  BY InvParts
<1>1. StoreInv' /\ ControlInv' /\ text_array' = text_array
  BY LinesStay DEF CursorLeft, ControlInv, prompt, store
<1>2. cur_x' = cur_x - 1 /\ cur_x # 0 /\ cur_x \in 0..PortW
  BY DEF CursorLeft, CursorInv
<1>3. cur_x' \in 0..PortW
  BY <1>2, SizeAssumption
<1>4. cur_line \notin BootCurLine =>
        text_array[cur_line].len = 0 \/ cur_x' <= text_array[cur_line].len
  <2>1. cur_line \notin BootCurLine => text_array[cur_line].len \in Nat
    BY LineInStore, LineFacts DEF CursorInv, CurLineCached, StoreInv
  <2> QED  BY <1>2, <2>1, SizeAssumption DEF CursorInv
<1> QED  BY <1>1, <1>3, <1>4, ColumnMoves DEF CursorLeft

\* The cursor moves right (handle_keypress_cursor_right).
LEMMA RightKeeps == Inv /\ CursorRight => Inv'
<1> SUFFICES ASSUME StoreInv, CursorInv, ControlInv, CursorRight
             PROVE  StoreInv' /\ CursorInv' /\ ControlInv'
  BY InvParts
<1>1. StoreInv' /\ ControlInv' /\ text_array' = text_array
  BY LinesStay DEF CursorRight, ControlInv, prompt, store
<1>2. cur_x' = cur_x + 1 /\ cur_x < PortW /\ cur_x \in 0..PortW
  BY DEF CursorRight, CursorInv
<1>3. cur_x' \in 0..PortW
  BY <1>2, SizeAssumption
<1>4. cur_line \notin BootCurLine =>
        text_array[cur_line].len = 0 \/ cur_x' <= text_array[cur_line].len
  <2> SUFFICES ASSUME cur_line \notin BootCurLine
               PROVE  cur_x' <= text_array[cur_line].len
    OBVIOUS
  <2>1. cur_line \in Nat /\ IsLine(cur_line)
    BY CursorNumbers DEF CursorInv, CurLineCached
  <2>2. CurLineLen = {text_array[cur_line].len}
    BY <2>1, ValueAssumption DEF CurLineLen
  <2>3. text_array[cur_line].len \in Nat
    BY <2>1, LineInStore, LineFacts DEF StoreInv
  <2>4. cur_x < text_array[cur_line].len - 1
    BY <2>2 DEF CursorRight
  <2> QED  BY <1>2, <2>3, <2>4, SizeAssumption
<1> QED  BY <1>1, <1>3, <1>4, ColumnMoves DEF CursorRight

\* The ":" prompt touches neither cursor nor text (handle_colon_cmd).
LEMMA PromptKeeps ==
  /\ Inv
  /\ \/ ColonCmd \/ PromptDel \/ PromptEnter \/ PromptEsc
     \/ \E c \in PromptChars : PromptChar(c)
  => Inv'
<1> SUFFICES ASSUME StoreInv, CursorInv, ControlInv,
                    \/ ColonCmd \/ PromptDel \/ PromptEnter \/ PromptEsc
                    \/ \E c \in PromptChars : PromptChar(c)
             PROVE  StoreInv' /\ CursorInv' /\ ControlInv'
  BY InvParts
<1>1. UNCHANGED <<cursor, store, editor_mode>>
  BY DEF ColonCmd, PromptDel, PromptEnter, PromptEsc, PromptChar
<1>2. StoreInv' /\ CursorInv'
  BY <1>1, LinesStay, CursorStays DEF store
<1>3. ColonCmd => ControlInv'
  BY SizeAssumption DEF ColonCmd, ControlInv
<1>4. PromptDel => ControlInv'
  BY SizeAssumption DEF PromptDel, ControlInv
<1>5. PromptEnter \/ PromptEsc => ControlInv'
  <2>1. QuitEntered \in BOOLEAN
    BY DEF QuitEntered
  <2>2. PromptEnter => do_exit' \in BOOLEAN
    BY <2>1 DEF PromptEnter, ControlInv
  <2>3. PromptEnter \/ PromptEsc =>
          /\ editor_mode' = editor_mode /\ at_prompt' = FALSE /\ p' = 0
          /\ tmp_buf' = tmp_buf
    BY DEF PromptEnter, PromptEsc
  <2>4. PromptEsc => do_exit' \in BOOLEAN
    BY DEF PromptEsc, ControlInv
  <2>5. 0 \in 0..TmpBufLen /\ FALSE \in BOOLEAN
    BY SizeAssumption
  <2> SUFFICES ASSUME PromptEnter \/ PromptEsc PROVE ControlInv'
    OBVIOUS
  <2>6. do_exit' \in BOOLEAN
    BY <2>2, <2>4
  <2> QED  BY <2>3, <2>5, <2>6 DEF ControlInv
<1>6. ASSUME NEW c \in PromptChars, PromptChar(c)
      PROVE  ControlInv'
  BY <1>6, SizeAssumption DEF PromptChar, ControlInv
<1> QED  BY <1>2, <1>3, <1>4, <1>5, <1>6

\* ESC leaves edit mode (handle_keypress_edit).
LEMMA EscKeeps == Inv /\ EditEsc => Inv'
<1> SUFFICES ASSUME StoreInv, CursorInv, ControlInv, EditEsc
             PROVE  StoreInv' /\ CursorInv' /\ ControlInv'
  BY InvParts
<1>1. StoreInv' /\ ControlInv'
  BY LinesStay DEF EditEsc, ControlInv, prompt
<1>2. CursorInv'
  BY CursorStays DEF EditEsc, store
<1> QED  BY <1>1, <1>2

\* In edit mode there is a line under the cursor, and it is the cached one.
LEMMA EditHasLine ==
  ASSUME StoreInv, CursorInv, EditKey
  PROVE  /\ cur_line = get_cur_line_number /\ cur_line \in Nat
         /\ cur_line \notin BootCurLine
         /\ IsLine(cur_line) /\ text_array[cur_line] \in Lines
<1>1. cur_line \notin BootCurLine
  BY DEF CursorInv, CurLineCached, EditKey
<1> QED  BY <1>1, CursorNumbers, LineInStore DEF CursorInv, CurLineCached, StoreInv

\* ENTER opens the next line (handle_keypress_edit_newline).
LEMMA NewlineKeeps == Inv /\ EditNewline => Inv'
<1> SUFFICES ASSUME StoreInv, CursorInv, ControlInv, EditNewline
             PROVE  StoreInv' /\ CursorInv' /\ ControlInv'
  BY InvParts
<1> PICK n : n = get_cur_line_number + 1
  OBVIOUS
<1>1. ControlInv'
  BY DEF ControlInv, EditNewline, prompt
<1>2. n \in Nat /\ n <= MaxLineCount /\ FetchLine(n)
  BY CursorNumbers, SizeAssumption DEF EditNewline
<1>3. \A m \in 0..(n - 1) : IsLine(m)
  <2>1. \A m \in 0..(n - 1) : m \in 0..(get_cur_line_number - 1) \/ m = get_cur_line_number
    BY CursorNumbers
  <2> QED  BY <2>1, CursorNumbers, EditHasLine DEF EditNewline
<1>4. StoreInv' /\ IsLine(n)'
  BY <1>2, <1>3, FetchKeeps
<1>5. cur_line' = n /\ cur_x' = 0
  BY DEF EditNewline
<1>6. /\ cur_y' \in 0..get_editor_port_height
      /\ top_screen_line' \in Nat
      /\ get_cur_line_number' = n
  <2>1. cur_y \in Nat /\ top_screen_line \in Nat /\ n = top_screen_line + cur_y + 1
    BY CursorNumbers DEF get_cur_line_number
  <2>2. cur_y <= PortH - 1
    BY DEF CursorInv, get_editor_port_height
  <2>3. CASE top_screen_line' = top_screen_line + 1 /\ cur_y' = cur_y
    BY <2>1, <2>2, <2>3, SizeAssumption DEF get_cur_line_number, get_editor_port_height
  <2>4. CASE /\ ~(cur_y + 1 >= PortH - 1)
             /\ cur_y' = cur_y + 1 /\ top_screen_line' = top_screen_line
    BY <2>1, <2>2, <2>4, SizeAssumption DEF get_cur_line_number, get_editor_port_height
  <2> QED  BY <2>3, <2>4 DEF EditNewline, get_editor_port_height
<1>7. cur_x' \in 0..PortW /\ (text_array'[n].len = 0 \/ cur_x' <= text_array'[n].len)
  <2>1. text_array'[n] \in Lines
    BY <1>4 DEF StoreInv, StoreTyped, IsLine
  <2> QED  BY <1>5, <2>1, LineFacts, SizeAssumption
<1> QED  BY <1>1, <1>2, <1>4, <1>5, <1>6, <1>7, OnLine

\* ENTER at the line limit, or out of memory, moves the column only.
LEMMA RefusedKeeps == Inv /\ EditNewlineRefused => Inv'
<1> SUFFICES ASSUME StoreInv, CursorInv, ControlInv, EditNewlineRefused
             PROVE  StoreInv' /\ CursorInv' /\ ControlInv'
  BY InvParts
<1>1. ControlInv'
  BY DEF ControlInv, EditNewlineRefused, prompt
<1>2. StoreInv' /\ text_array' = text_array
  BY LinesStay, NothingKeeps DEF EditNewlineRefused, store
<1>3. cur_x' = 0 /\ cur_x' \in 0..PortW
  BY SizeAssumption DEF EditNewlineRefused
<1>4. text_array[cur_line].len \in Nat
  BY EditHasLine, LineFacts DEF EditNewlineRefused
<1> QED  BY <1>1, <1>2, <1>3, <1>4, ColumnMoves DEF EditNewlineRefused

\* DEL removes a character (handle_keypress_edit_del).
LEMMA DelKeeps == Inv /\ EditDel => Inv'
<1> SUFFICES ASSUME StoreInv, CursorInv, ControlInv, EditDel
             PROVE  StoreInv' /\ CursorInv' /\ ControlInv'
  BY InvParts
<1> PICK n : n = cur_line
  OBVIOUS
<1> PICK l : l = DeleteBefore(text_array[n], cur_x)
  OBVIOUS
<1>1. ControlInv'
  BY DEF ControlInv, EditDel, prompt
<1>2. /\ n \in Nat /\ IsLine(n) /\ text_array[n] \in Lines
      /\ n = get_cur_line_number /\ n \notin BootCurLine
  BY EditHasLine DEF EditDel
<1>3. /\ cur_x \in Nat \ {0} /\ cur_x <= PortW
      /\ text_array[n].len \in Nat \ {0} /\ text_array[n].size \in Nat
      /\ text_array[n].len <= text_array[n].size /\ cur_x <= text_array[n].len
  <2>1. cur_x \in Nat \ {0} /\ cur_x <= PortW
    BY SizeAssumption DEF EditDel, CursorInv
  <2>2. text_array[n].len \in Nat \ {0} /\ text_array[n].size \in Nat
    BY <1>2, LineFacts, SizeAssumption DEF EditDel
  <2>3. text_array[n].len <= text_array[n].size
    BY <1>2 DEF StoreInv, IsLine
  <2>4. cur_x <= text_array[n].len
    BY <1>2, <2>2 DEF CursorInv
  <2> QED  BY <2>1, <2>2, <2>3, <2>4
<1>4. l \in Lines /\ l.len = text_array[n].len - 1 /\ l.size = text_array[n].size
  BY <1>2, <1>3, DeleteFacts
<1>5. l.len <= l.size
  BY <1>3, <1>4
<1>6. cur_x' = cur_x - 1
  BY DEF EditDel
<1>7. StoreInv' /\ IsLine(n)' /\ text_array'[n] = l
  <2>1. text_array' = [text_array EXCEPT ![n] = l]
    BY DEF EditDel
  <2> QED  BY <1>2, <1>4, <1>5, <2>1, RewriteKeeps DEF EditDel
<1>8. cur_x' \in 0..PortW /\ cur_x' <= l.len
  <2>1. cur_x' \in 0..PortW
    BY <1>3, <1>6, SizeAssumption
  <2>2. cur_x' <= l.len
    BY <1>3, <1>4, <1>6
  <2> QED  BY <2>1, <2>2
<1>9. /\ cur_line' = n /\ get_cur_line_number' = n
      /\ cur_y' \in 0..get_editor_port_height /\ top_screen_line' \in Nat
  BY <1>2, CursorNumbers DEF EditDel, CursorInv, get_cur_line_number
<1> QED  BY <1>1, <1>2, <1>7, <1>8, <1>9, OnLine

\* A printable key writes a character (handle_keypress_edit).
LEMMA TypeKeeps == ASSUME NEW c \in TextChars PROVE Inv /\ EditType(c) => Inv'
<1> SUFFICES ASSUME StoreInv, CursorInv, ControlInv, EditType(c)
             PROVE  StoreInv' /\ CursorInv' /\ ControlInv'
  BY InvParts
<1> PICK n : n = cur_line
  OBVIOUS
<1> PICK l : l = PutChar(text_array[n], cur_x, c)
  OBVIOUS
<1>1. ControlInv'
  BY DEF ControlInv, EditType, prompt
<1>2. /\ n \in Nat /\ IsLine(n) /\ text_array[n] \in Lines
      /\ n = get_cur_line_number /\ n \notin BootCurLine
  BY EditHasLine DEF EditType
<1>3. /\ cur_x \in Nat /\ cur_x < MaxLineLen
      /\ text_array[n].len \in Nat /\ text_array[n].len <= text_array[n].size
  <2>1. cur_x \in Nat /\ cur_x < MaxLineLen
    BY SizeAssumption DEF EditType, CursorInv
  <2> QED  BY <1>2, <2>1, LineFacts DEF StoreInv, IsLine
<1>4. /\ l \in Lines /\ l.len <= l.size
      /\ l.len = IF cur_x + 1 > text_array[n].len THEN cur_x + 1 ELSE text_array[n].len
  BY <1>2, <1>3, PutFacts
<1>5. cur_x' = cur_x + 1
  BY DEF EditType
<1>6. StoreInv' /\ IsLine(n)' /\ text_array'[n] = l
  <2>1. text_array' = [text_array EXCEPT ![n] = l]
    BY DEF EditType
  <2> QED  BY <1>2, <1>4, <2>1, RewriteKeeps DEF EditType
<1>7. cur_x' \in 0..PortW /\ cur_x' <= l.len
  <2>1. cur_x' \in 0..PortW
    BY <1>3, <1>5, SizeAssumption
  <2>2. cur_x' <= l.len
    BY <1>3, <1>4, <1>5
  <2> QED  BY <2>1, <2>2
<1>8. /\ cur_line' = n /\ get_cur_line_number' = n
      /\ cur_y' \in 0..get_editor_port_height /\ top_screen_line' \in Nat
  BY <1>2, CursorNumbers DEF EditType, CursorInv, get_cur_line_number
<1> QED  BY <1>1, <1>2, <1>6, <1>7, <1>8, OnLine

\* A refused key changes nothing.
LEMMA StutterKeeps == Inv /\ UNCHANGED vars => Inv'
BY DEF Inv, TypeOK, CursorOnText, CurLineCached, BufferSafe, LinesLimited,
       get_cur_line_number, get_editor_port_height, IsLine, vars, cursor,
       store, prompt

\* The invariant holds when main's loop starts.
LEMMA InitInv == Init => Inv
<1> SUFFICES ASSUME Init PROVE StoreInv /\ CursorInv /\ ControlInv
  BY InvParts
<1>1. \A n : ~IsLine(n)
  BY DEF Init, IsLine
<1>2. StoreInv
  <2>1. StoreTyped
    BY DEF Init, StoreTyped
  <2> QED  BY <1>1, <2>1 DEF StoreInv, LinesLimited
<1>3. CursorInv
  <2>1. /\ cur_x \in 0..PortW /\ cur_y \in 0..get_editor_port_height
        /\ top_screen_line \in 0..MaxLineCount /\ get_cur_line_number = 0
    BY SizeAssumption DEF Init, get_editor_port_height, get_cur_line_number
  <2> QED  BY <1>1, <2>1 DEF Init, CursorInv, CurLineCached
<1>4. ControlInv
  BY SizeAssumption DEF Init, ControlInv
<1> QED  BY <1>2, <1>3, <1>4

\* Every key keeps the invariant.
LEMMA NextInv == Inv /\ [Next]_vars => Inv'
BY InsertKeeps, UpKeeps, DownKeeps, LeftKeeps, RightKeeps, PromptKeeps,
   EscKeeps, NewlineKeeps, RefusedKeeps, DelKeeps, TypeKeeps, StutterKeeps
DEF Next, Exited

\* The inductive invariant holds in every state of the editor's main loop.
THEOREM InvHolds == Spec => []Inv
BY InitInv, NextInv, PTL DEF Spec

\* Types: cursor on the screen, buffers of the size their header says, the
\* prompt inside tmp_buf, for every screen and every limit (editor_init,
\* text_line_realloc, handle_colon_cmd).
THEOREM TypeHolds == Spec => []TypeOK
<1>1. Inv => TypeOK
  BY DEF Inv
<1> QED  BY <1>1, InvHolds, PTL

\* The lines fill the array without a gap and the cursor is on one of them
\* unless there is none (text_line_fetch, the cursor keys, newline).
THEOREM CursorHolds == Spec => []CursorOnText
<1>1. Inv => CursorOnText
  BY DEF Inv
<1> QED  BY <1>1, InvHolds, PTL

\* cur_state.cur_line, wherever it is set or left alone, is the line under
\* the cursor, and edit mode always has one, whatever the pointer held when
\* main started.
THEOREM CacheHolds == Spec => []CurLineCached
<1>1. Inv => CurLineCached
  BY DEF Inv
<1> QED  BY <1>1, InvHolds, PTL

\* No line is longer than its buffer and memmove is never handed a negative
\* count, whatever the initial pointer held (handle_keypress_edit and _del).
THEOREM BufferHolds == Spec => []BufferSafe
<1>1. Inv => BufferSafe
  BY DEF Inv
<1> QED  BY <1>1, InvHolds, PTL

-----------------------------------------------------------------------------
(* The text holds typed characters only, and the cursor never leaves it.   *)

LineTyped(l) == \A i \in 0..(l.len - 1) : l.buf[i] \in TextChars

\* Deleting from a line of typed characters leaves one (memmove in
\* handle_keypress_edit_del).
LEMMA DeleteTyped ==
  ASSUME NEW l \in Lines, l.len # 0, l.len <= l.size, LineTyped(l),
         NEW x \in Nat \ {0}, x <= l.len
  PROVE  LineTyped(DeleteBefore(l, x))
<1>1. l.len \in Nat
  BY LineFacts
<1>2. \A i \in 0..(l.len - 2) :
        DeleteBefore(l, x).buf[i] = l.buf[IF i < x - 1 THEN i ELSE i + 1]
  BY DeleteFacts
<1>3. DeleteBefore(l, x).len = l.len - 1
  BY DeleteFacts
<1> SUFFICES ASSUME NEW i \in 0..(l.len - 2)
             PROVE  DeleteBefore(l, x).buf[i] \in TextChars
  BY <1>1, <1>3 DEF LineTyped
<1>4. (IF i < x - 1 THEN i ELSE i + 1) \in 0..(l.len - 1)
  BY <1>1
<1> QED  BY <1>2, <1>4 DEF LineTyped

\* Typing at or before the end of a line of typed characters leaves one.
LEMMA PutTyped ==
  ASSUME NEW l \in Lines, l.len <= l.size, LineTyped(l),
         NEW x \in Nat, x < MaxLineLen, x <= l.len, NEW c \in TextChars
  PROVE  LineTyped(PutChar(l, x, c))
<1>1. l.len \in Nat /\ l.size \in Nat
  BY LineFacts, SizeAssumption
<1>2. /\ PutChar(l, x, c).len = IF x + 1 > l.len THEN x + 1 ELSE l.len
      /\ PutChar(l, x, c).buf[x] = c
      /\ \A i \in 0..(l.size - 1) : i # x => PutChar(l, x, c).buf[i] = l.buf[i]
  BY PutFacts
<1> SUFFICES ASSUME NEW i \in 0..(PutChar(l, x, c).len - 1)
             PROVE  PutChar(l, x, c).buf[i] \in TextChars
  BY DEF LineTyped
<1>3. i = x \/ (i # x /\ i \in 0..(l.len - 1) /\ i \in 0..(l.size - 1))
  BY <1>1, <1>2
<1> QED  BY <1>2, <1>3 DEF LineTyped

\* TextTyped, line by line.
LEMMA TypedLines ==
  /\ TextTyped <=> \A n : IsLine(n) => LineTyped(text_array[n])
  /\ TextTyped' <=> \A n : IsLine(n)' => LineTyped(text_array'[n])
BY DEF TextTyped, LineTyped, IsLine

\* Steps that rewrite no line.
LEMMA TypedStays ==
  ASSUME TextTyped, text_array' = text_array
  PROVE  TextTyped'
BY DEF TextTyped, IsLine

\* A fetched line is an old line, or empty.
LEMMA TypedFetch ==
  ASSUME TextTyped, StoreInv, NEW n \in Nat, n <= MaxLineCount, FetchLine(n),
         \A m \in 0..(n - 1) : IsLine(m)
  PROVE  TextTyped'
<1> SUFFICES ASSUME NEW m, IsLine(m)' PROVE LineTyped(text_array'[m])
  BY TypedLines
<1>1. CASE IsLine(m)
  BY <1>1, FetchKeeps, TypedLines
<1>2. CASE ~IsLine(m)
  <2>1. text_array'[m].len = 0
    BY <1>2, FetchKeeps
  <2> QED  BY <2>1 DEF LineTyped
<1> QED  BY <1>1, <1>2

\* A rewritten line that holds typed characters only.
LEMMA TypedRewrite ==
  ASSUME TextTyped, StoreInv, NEW n, IsLine(n), NEW l \in Lines, l.len <= l.size,
         text_array' = [text_array EXCEPT ![n] = l], UNCHANGED live, LineTyped(l)
  PROVE  TextTyped'
<1> SUFFICES ASSUME NEW m, IsLine(m)' PROVE LineTyped(text_array'[m])
  BY TypedLines
<1>1. IsLine(m) /\ m \in DOMAIN text_array
  BY RewriteKeeps DEF IsLine
<1> QED  BY <1>1, RewriteKeeps, TypedLines

TextInv == CursorWithinLine /\ TextTyped

\* The cursor put on a line, not past its end.
LEMMA CursorOnLine ==
  ASSUME NEW n \in Nat, cur_line' = n, cur_x' <= text_array'[n].len
  PROVE  CursorWithinLine'
BY BootNotLine DEF CursorWithinLine

\* "i" only adds an empty line (handle_insert_cmd).
LEMMA InsertKeepsText == Inv /\ TextInv /\ InsertCmd => TextInv'
<1> SUFFICES ASSUME StoreInv, CursorInv, CursorWithinLine, TextTyped, InsertCmd
             PROVE  CursorWithinLine' /\ TextTyped'
  BY InvParts DEF TextInv
<1> PICK n : n = get_cur_line_number
  OBVIOUS
<1>1. CASE FetchLine(n) /\ cur_line' = n
  <2>1. /\ n \in Nat /\ n <= MaxLineCount /\ \A m \in 0..(n - 1) : IsLine(m)
    BY CursorNumbers
  <2>2. TextTyped'
    BY <1>1, <2>1, TypedFetch
  <2>3. IF IsLine(n) THEN text_array'[n] = text_array[n] ELSE text_array'[n].len = 0
    BY <1>1, <2>1, FetchKeeps
  <2>4. IF IsLine(n) THEN cur_line = n /\ cur_line \notin BootCurLine
                     ELSE cur_line \in BootCurLine
    BY DEF CursorInv, CurLineCached
  <2>5. cur_x' <= text_array'[n].len
    BY <2>3, <2>4 DEF CursorWithinLine, InsertCmd
  <2> QED  BY <1>1, <2>1, <2>2, <2>5, CursorOnLine
<1>2. CASE FetchNothing(n) /\ cur_line' = cur_line
  <2>1. text_array' = text_array
    BY <1>2 DEF FetchNothing
  <2> QED  BY <1>2, <2>1, TypedStays DEF InsertCmd, CursorWithinLine
<1> QED  BY <1>1, <1>2 DEF InsertCmd

\* The cursor keys keep the cursor on its line (clamp_cursor_x_at_line),
\* as long as cur_line is no wild pointer.
LEMMA MoveKeepsText ==
  ASSUME Wild \notin BootCurLine
  PROVE  /\ Inv /\ TextInv
         /\ CursorUp \/ CursorDown \/ CursorLeft \/ CursorRight
         => TextInv'
<1> SUFFICES ASSUME StoreInv, CursorInv, CursorWithinLine, TextTyped,
                    CursorUp \/ CursorDown \/ CursorLeft \/ CursorRight
             PROVE  CursorWithinLine' /\ TextTyped'
  BY InvParts DEF TextInv
<1>1. text_array' = text_array
  BY DEF CursorUp, CursorDown, CursorLeft, CursorRight, store
<1>2. TextTyped'
  BY <1>1, TypedStays
<1>3. ASSUME NEW n \in Nat, IsLine(n), cur_line' = n, cur_x' = ClampAtLine(n)
      PROVE  CursorWithinLine'
  BY <1>1, <1>3, ClampFacts, CursorOnLine DEF CursorInv
<1>4. CASE CursorUp
  <2>1. get_cur_line_number - 1 \in Nat /\ IsLine(get_cur_line_number - 1)
    BY <1>4, CursorNumbers DEF CursorUp, text_line_lookup, IsLine
  <2> QED  BY <1>2, <1>3, <1>4, <2>1 DEF CursorUp
<1>5. CASE CursorDown
  <2>1. get_cur_line_number + 1 \in Nat /\ IsLine(get_cur_line_number + 1)
    BY <1>5, CursorNumbers DEF CursorDown, text_line_lookup, IsLine
  <2> QED  BY <1>2, <1>3, <1>5, <2>1 DEF CursorDown
<1>6. ASSUME NEW n \in Nat, n = cur_line, IsLine(n), cur_line' = cur_line,
             cur_x' <= text_array[n].len
      PROVE  CursorWithinLine'
  BY <1>1, <1>6, CursorOnLine
<1>7. cur_line \notin BootCurLine =>
        /\ cur_line \in Nat /\ IsLine(cur_line)
        /\ text_array[cur_line].len \in Nat /\ cur_x <= text_array[cur_line].len
  BY CursorNumbers, LineInStore, LineFacts
  DEF CursorInv, CurLineCached, StoreInv, CursorWithinLine
<1>8. cur_line \in BootCurLine => cur_line = NoLine
  BY ValueAssumption
<1>9. CASE CursorLeft
  <2>1. cur_line \notin BootCurLine
    BY <1>8, <1>9 DEF CursorLeft
  <2>2. cur_x \in Nat /\ cur_x' = cur_x - 1 /\ cur_line' = cur_line
    BY <1>9, CursorNumbers DEF CursorLeft
  <2>3. cur_x' <= text_array[cur_line].len
    BY <1>7, <2>1, <2>2
  <2> QED  BY <1>2, <1>6, <1>7, <2>1, <2>2, <2>3
<1>10. CASE CursorRight
  <2>1. cur_line \notin BootCurLine
    BY <1>8, <1>10 DEF CursorRight, CurLineLen
  <2>2. CurLineLen = {text_array[cur_line].len}
    BY <1>7, <2>1, ValueAssumption DEF CurLineLen
  <2>3. cur_x \in Nat /\ cur_x' = cur_x + 1 /\ cur_line' = cur_line
    BY <1>10, CursorNumbers DEF CursorRight
  <2>4. cur_x < text_array[cur_line].len - 1
    BY <1>10, <2>2 DEF CursorRight
  <2>5. cur_x' <= text_array[cur_line].len
    BY <1>7, <2>1, <2>3, <2>4
  <2> QED  BY <1>2, <1>6, <1>7, <2>1, <2>3, <2>5
<1> QED  BY <1>2, <1>4, <1>5, <1>9, <1>10

\* ENTER only adds an empty line and goes to its start.
LEMMA NewlineKeepsText == Inv /\ TextInv /\ EditNewline => TextInv'
<1> SUFFICES ASSUME Inv, StoreInv, CursorInv, TextTyped, EditNewline
             PROVE  CursorWithinLine' /\ TextTyped'
  BY InvParts DEF TextInv
<1> PICK n : n = get_cur_line_number + 1
  OBVIOUS
<1>1. n \in Nat /\ n <= MaxLineCount /\ FetchLine(n)
  BY CursorNumbers, SizeAssumption DEF EditNewline
<1>2. \A m \in 0..(n - 1) : IsLine(m)
  <2>1. \A m \in 0..(n - 1) : m \in 0..(get_cur_line_number - 1) \/ m = get_cur_line_number
    BY CursorNumbers
  <2> QED  BY <2>1, CursorNumbers, EditHasLine DEF EditNewline
<1>3. TextTyped'
  BY <1>1, <1>2, TypedFetch
<1>4. text_array'[n].len \in Nat
  <2>1. StoreInv' /\ IsLine(n)'
    BY <1>1, <1>2, FetchKeeps
  <2>2. text_array'[n] \in Lines
    BY <2>1 DEF StoreInv, StoreTyped, IsLine
  <2> QED  BY <2>2, LineFacts
<1>5. cur_line' = n /\ cur_x' = 0
  BY DEF EditNewline
<1>6. cur_x' <= text_array'[n].len
  BY <1>4, <1>5
<1> QED  BY <1>1, <1>3, <1>5, <1>6, CursorOnLine

\* A refused ENTER goes to the start of the line it is on.
LEMMA RefusedKeepsText == Inv /\ TextInv /\ EditNewlineRefused => TextInv'
<1> SUFFICES ASSUME StoreInv, CursorInv, TextTyped, EditNewlineRefused
             PROVE  CursorWithinLine' /\ TextTyped'
  BY InvParts DEF TextInv
<1> PICK n : n = cur_line
  OBVIOUS
<1>1. text_array' = text_array /\ cur_x' = 0 /\ cur_line' = n
  BY DEF EditNewlineRefused, FetchNothing, store
<1>2. n \in Nat /\ text_array[n].len \in Nat
  BY EditHasLine, LineFacts DEF EditNewlineRefused
<1>3. cur_x' <= text_array'[n].len
  BY <1>1, <1>2
<1> QED  BY <1>1, <1>2, <1>3, TypedStays, CursorOnLine

\* DEL takes the cursor left with the end of the line.
LEMMA DelKeepsText == Inv /\ TextInv /\ EditDel => TextInv'
<1> SUFFICES ASSUME StoreInv, CursorInv, CursorWithinLine, TextTyped, EditDel
             PROVE  CursorWithinLine' /\ TextTyped'
  BY InvParts DEF TextInv
<1> PICK n : n = cur_line
  OBVIOUS
<1> PICK l : l = DeleteBefore(text_array[n], cur_x)
  OBVIOUS
<1>1. n \in Nat /\ IsLine(n) /\ text_array[n] \in Lines /\ n \notin BootCurLine
  BY EditHasLine DEF EditDel
<1>2. /\ cur_x \in Nat \ {0} /\ cur_x <= text_array[n].len
      /\ text_array[n].len # 0 /\ text_array[n].len <= text_array[n].size
      /\ LineTyped(text_array[n])
  <2>1. cur_x \in Nat \ {0} /\ text_array[n].len # 0
    BY CursorNumbers DEF EditDel
  <2>2. cur_x <= text_array[n].len /\ text_array[n].len <= text_array[n].size
    BY <1>1 DEF CursorWithinLine, StoreInv, IsLine
  <2> QED  BY <1>1, <2>1, <2>2, TypedLines
<1>3. /\ l \in Lines /\ LineTyped(l) /\ l.size = text_array[n].size
      /\ l.len = text_array[n].len - 1 /\ text_array[n].len \in Nat
      /\ text_array[n].size \in Nat
  BY <1>1, <1>2, DeleteFacts, DeleteTyped, LineFacts, SizeAssumption
<1>4. l.len <= l.size
  BY <1>2, <1>3
<1>5. text_array' = [text_array EXCEPT ![n] = l]
  BY DEF EditDel
<1>6. TextTyped' /\ text_array'[n] = l
  <2>1. UNCHANGED live
    BY DEF EditDel
  <2>2. IsLine(n) /\ l \in Lines /\ LineTyped(l)
    BY <1>1, <1>3
  <2>3. TextTyped'
    BY <1>4, <1>5, <2>1, <2>2, TypedRewrite
  <2>4. text_array'[n] = l
    BY <1>4, <1>5, <2>1, <2>2, RewriteKeeps
  <2> QED  BY <2>3, <2>4
<1>7. cur_x' = cur_x - 1 /\ cur_line' = n
  BY DEF EditDel
<1>8. cur_x' <= l.len
  BY <1>2, <1>3, <1>7
<1> QED  BY <1>1, <1>6, <1>7, <1>8, CursorOnLine

\* A typed character goes at most directly behind the last one.
LEMMA TypeKeepsText ==
  ASSUME NEW c \in TextChars PROVE Inv /\ TextInv /\ EditType(c) => TextInv'
<1> SUFFICES ASSUME StoreInv, CursorInv, CursorWithinLine, TextTyped, EditType(c)
             PROVE  CursorWithinLine' /\ TextTyped'
  BY InvParts DEF TextInv
<1> PICK n : n = cur_line
  OBVIOUS
<1> PICK l : l = PutChar(text_array[n], cur_x, c)
  OBVIOUS
<1>1. n \in Nat /\ IsLine(n) /\ text_array[n] \in Lines /\ n \notin BootCurLine
  BY EditHasLine DEF EditType
<1>2. /\ cur_x \in Nat /\ cur_x < MaxLineLen /\ cur_x <= text_array[n].len
      /\ text_array[n].len <= text_array[n].size /\ LineTyped(text_array[n])
  <2>1. cur_x \in Nat /\ cur_x < MaxLineLen
    BY CursorNumbers DEF EditType
  <2>2. cur_x <= text_array[n].len /\ text_array[n].len <= text_array[n].size
    BY <1>1 DEF CursorWithinLine, StoreInv, IsLine
  <2> QED  BY <1>1, <2>1, <2>2, TypedLines
<1>3. /\ l \in Lines /\ LineTyped(l) /\ l.len <= l.size
      /\ l.len = IF cur_x + 1 > text_array[n].len THEN cur_x + 1 ELSE text_array[n].len
      /\ text_array[n].len \in Nat
  BY <1>1, <1>2, PutFacts, PutTyped, LineFacts
<1>4. text_array' = [text_array EXCEPT ![n] = l]
  BY DEF EditType
<1>5. TextTyped' /\ text_array'[n] = l
  BY <1>1, <1>3, <1>4, TypedRewrite, RewriteKeeps DEF EditType
<1>6. cur_x' = cur_x + 1 /\ cur_line' = n
  BY DEF EditType
<1>7. cur_x' <= l.len
  BY <1>2, <1>3, <1>6
<1> QED  BY <1>1, <1>5, <1>6, <1>7, CursorOnLine

\* The prompt, ESC and a key that does nothing.
LEMMA RestKeepsText ==
  ASSUME TextInv, UNCHANGED <<cursor, text_array>>
  PROVE  TextInv'
BY TypedStays DEF TextInv, CursorWithinLine, cursor

\* Every key keeps the text typed and the cursor on it.
LEMMA NextText ==
  ASSUME Wild \notin BootCurLine
  PROVE  Inv /\ TextInv /\ [Next]_vars => TextInv'
<1>1. \/ ColonCmd \/ PromptDel \/ PromptEnter \/ PromptEsc \/ EditEsc
      \/ Exited \/ UNCHANGED vars \/ \E c \in PromptChars : PromptChar(c)
      => UNCHANGED <<cursor, text_array>>
  BY DEF ColonCmd, PromptDel, PromptEnter, PromptEsc, EditEsc, Exited,
         PromptChar, vars, store
<1> QED
  BY <1>1, InsertKeepsText, MoveKeepsText, NewlineKeepsText, RefusedKeepsText,
     DelKeepsText, TypeKeepsText, RestKeepsText DEF Next

\* At the start there is no text and the cursor is at column 0.
LEMMA InitText == Init => TextInv
<1> SUFFICES ASSUME Init PROVE CursorWithinLine /\ TextTyped
  BY DEF TextInv
<1>1. CursorWithinLine
  BY DEF Init, CursorWithinLine
<1>2. \A n : ~IsLine(n)
  BY DEF Init, IsLine
<1> QED  BY <1>1, <1>2 DEF TextTyped

\* When cur_line starts as NULL, the cursor is always on the text of its
\* line or directly behind it, and no line ever shows a cell of the allocator
\* (clamp_cursor_x_at_line, handle_keypress_edit, text_line_realloc).
THEOREM TextHolds ==
  ASSUME Wild \notin BootCurLine
  PROVE  Spec => [](CursorWithinLine /\ TextTyped)
<1>1. Inv /\ TextInv /\ [Next]_vars => TextInv'
  BY NextText
<1>2. TextInv => CursorWithinLine /\ TextTyped
  BY DEF TextInv
<1> QED  BY <1>1, <1>2, InitText, InvHolds, PTL DEF Spec

\* A line shows only what was typed, although its buffer starts cleared, grows
\* by cells nobody wrote and keeps what DEL left behind (text_line_realloc).
THEOREM TextTypedHolds ==
  ASSUME Wild \notin BootCurLine
  PROVE  Spec => []TextTyped
BY TextHolds, PTL

-----------------------------------------------------------------------------
(* No block of the heap is lost.                                           *)

\* The slots that hold a line.
Filled == {n \in DOMAIN text_array : IsLine(n)}

\* Only finitely many lines exist.
LEMMA FilledFinite == StoreInv => IsFiniteSet(Filled)
<1> SUFFICES ASSUME StoreInv PROVE IsFiniteSet(Filled)
  OBVIOUS
<1>1. Filled \subseteq 0..(ArrayLines - 1)
  BY LineInStore DEF Filled, StoreInv
<1>2. IsFiniteSet(0..(ArrayLines - 1))
  BY FS_Interval, SizeAssumption
<1> QED  BY <1>1, <1>2, FS_Subset

\* The array is allocated when it has slots.
LEMMA SlotsAllocated ==
  ASSUME StoreInv
  PROVE  text_array = [n \in {} |-> NoLine] <=> DOMAIN text_array = {}
<1>1. 0 \in 0..(ArrayLines - 1)
  BY SizeAssumption
<1> QED  BY <1>1 DEF StoreInv, StoreTyped

\* Steps that allocate nothing and create no line.
LEMMA HeapStays ==
  ASSUME HeapAccounted, StoreInv, StoreInv', live' = live,
         DOMAIN text_array' = DOMAIN text_array,
         \A m : IsLine(m)' <=> IsLine(m)
  PROVE  HeapAccounted'
<1>1. Filled' = Filled
  BY DEF Filled
<1>2. text_array' = [n \in {} |-> NoLine] <=> DOMAIN text_array' = {}
  <2>1. 0 \in 0..(ArrayLines - 1)
    BY SizeAssumption
  <2> QED  BY <2>1 DEF StoreInv, StoreTyped
<1> QED  BY <1>1, <1>2, SlotsAllocated DEF HeapAccounted, Filled

\* A failed fetch frees what it allocated (text_line_alloc).
LEMMA HeapNothing ==
  ASSUME HeapAccounted, StoreInv, NEW n, FetchNothing(n)
  PROVE  HeapAccounted'
<1>1. live' = live /\ text_array' = text_array
  BY DEF FetchNothing, text_line_alloc, StoreInv, StoreTyped
<1> QED  BY <1>1, NothingKeeps, HeapStays DEF IsLine

\* A fetched line accounts for its two blocks.
LEMMA HeapFetch ==
  ASSUME HeapAccounted, StoreInv, NEW n \in Nat, n <= MaxLineCount,
         FetchLine(n), \A m \in 0..(n - 1) : IsLine(m)
  PROVE  HeapAccounted'
<1>1. StoreInv'
  BY FetchKeeps
<1>2. CASE IsLine(n) /\ UNCHANGED store
  BY <1>1, <1>2, HeapStays DEF store, IsLine
<1>3. CASE /\ n \in DOMAIN text_array
           /\ text_array[n] = NoLine
           /\ text_array' = [text_array EXCEPT ![n] = NewLine]
           /\ live' = live + text_line_alloc(TRUE, TRUE)
  <2>1. DOMAIN text_array' = DOMAIN text_array
    BY <1>3
  <2>2. Filled' = Filled \cup {n} /\ n \notin Filled
    <3>1. \A m : IsLine(m)' <=> IsLine(m) \/ m = n
      BY FetchKeeps
    <3> QED  BY <1>3, <2>1, <3>1 DEF Filled, IsLine
  <2>3. Cardinality(Filled') = Cardinality(Filled) + 1 /\ Cardinality(Filled) \in Nat
    BY <2>2, FilledFinite, FS_AddElement, FS_CardinalityType
  <2>4. live' = live + 2
    BY <1>3 DEF text_line_alloc
  <2>5. /\ text_array # [m \in {} |-> NoLine]
        /\ text_array' # [m \in {} |-> NoLine]
    BY <1>3, <2>1
  <2>6. live = 1 + 2 * Cardinality(Filled)
    BY <2>5 DEF HeapAccounted, Filled
  <2>7. live' = 1 + 2 * Cardinality(Filled')
    BY <2>3, <2>4, <2>6
  <2> QED  BY <2>5, <2>7 DEF HeapAccounted, Filled
<1> QED  BY <1>2, <1>3 DEF FetchLine

\* Rewriting a line allocates nothing.
LEMMA HeapRewrite ==
  ASSUME HeapAccounted, StoreInv, NEW n, IsLine(n), NEW l \in Lines,
         l.len <= l.size, text_array' = [text_array EXCEPT ![n] = l],
         UNCHANGED live
  PROVE  HeapAccounted'
BY RewriteKeeps, HeapStays

\* Every key keeps the heap accounted for.
LEMMA NextHeap == Inv /\ HeapAccounted /\ [Next]_vars => HeapAccounted'
<1> SUFFICES ASSUME Inv, StoreInv, CursorInv, HeapAccounted, [Next]_vars
             PROVE  HeapAccounted'
  BY InvParts
<1>1. StoreInv'
  BY NextInv, InvParts
<1>2. CASE InsertCmd
  <2>1. CASE FetchLine(get_cur_line_number)
    BY <2>1, CursorNumbers, HeapFetch
  <2>2. CASE FetchNothing(get_cur_line_number)
    BY <2>2, HeapNothing
  <2> QED  BY <1>2, <2>1, <2>2 DEF InsertCmd
<1>3. CASE EditNewline
  <2> PICK n : n = get_cur_line_number + 1
    OBVIOUS
  <2>1. n \in Nat /\ n <= MaxLineCount /\ FetchLine(n)
    BY <1>3, CursorNumbers, SizeAssumption DEF EditNewline
  <2>2. \A m \in 0..(n - 1) : IsLine(m)
    <3>1. \A m \in 0..(n - 1) : m \in 0..(get_cur_line_number - 1) \/ m = get_cur_line_number
      BY CursorNumbers
    <3> QED  BY <1>3, <3>1, CursorNumbers, EditHasLine DEF EditNewline
  <2> QED  BY <2>1, <2>2, HeapFetch
<1>4. CASE EditNewlineRefused
  <2>1. CASE UNCHANGED store
    BY <1>1, <2>1, HeapStays DEF store, IsLine
  <2>2. CASE FetchNothing(get_cur_line_number + 1)
    BY <2>2, HeapNothing
  <2> QED  BY <1>4, <2>1, <2>2 DEF EditNewlineRefused
<1>5. CASE EditDel
  <2> PICK n : n = cur_line
    OBVIOUS
  <2> PICK l : l = DeleteBefore(text_array[n], cur_x)
    OBVIOUS
  <2>1. /\ IsLine(n) /\ text_array[n] \in Lines /\ n \notin BootCurLine
    BY <1>5, EditHasLine DEF EditDel
  <2>2. /\ cur_x \in Nat \ {0} /\ cur_x <= text_array[n].len
        /\ text_array[n].len # 0 /\ text_array[n].len <= text_array[n].size
    BY <1>5, <2>1, CursorNumbers DEF EditDel, CursorInv, StoreInv, IsLine
  <2>3. /\ l \in Lines /\ l.len = text_array[n].len - 1 /\ l.size = text_array[n].size
        /\ text_array[n].len \in Nat /\ text_array[n].size \in Nat
    BY <2>1, <2>2, DeleteFacts, LineFacts, SizeAssumption
  <2>4. l.len <= l.size
    BY <2>2, <2>3
  <2>5. text_array' = [text_array EXCEPT ![n] = l]
    BY <1>5 DEF EditDel
  <2> QED  BY <1>5, <2>1, <2>3, <2>4, <2>5, HeapRewrite DEF EditDel
<1>6. ASSUME NEW c \in TextChars, EditType(c)
      PROVE  HeapAccounted'
  <2> PICK n : n = cur_line
    OBVIOUS
  <2> PICK l : l = PutChar(text_array[n], cur_x, c)
    OBVIOUS
  <2>1. IsLine(n) /\ text_array[n] \in Lines
    BY <1>6, EditHasLine DEF EditType
  <2>2. cur_x \in Nat /\ cur_x < MaxLineLen /\ text_array[n].len <= text_array[n].size
    BY <1>6, <2>1, CursorNumbers DEF EditType, StoreInv, IsLine
  <2>3. l \in Lines /\ l.len <= l.size
    BY <2>1, <2>2, PutFacts
  <2>4. text_array' = [text_array EXCEPT ![n] = l]
    BY <1>6 DEF EditType
  <2> QED  BY <1>6, <2>1, <2>3, <2>4, HeapRewrite DEF EditType
<1>7. UNCHANGED store => HeapAccounted'
  BY <1>1, HeapStays DEF store, IsLine
<1>8. \/ CursorUp \/ CursorDown \/ CursorLeft \/ CursorRight \/ ColonCmd
      \/ PromptDel \/ PromptEnter \/ PromptEsc \/ EditEsc \/ Exited
      \/ UNCHANGED vars \/ \E c \in PromptChars : PromptChar(c)
      => UNCHANGED store
  BY DEF CursorUp, CursorDown, CursorLeft, CursorRight, ColonCmd, PromptDel,
         PromptEnter, PromptEsc, EditEsc, Exited, PromptChar, vars
<1> QED  BY <1>2, <1>3, <1>4, <1>5, <1>6, <1>7, <1>8 DEF Next

\* At the start the array is the only block.
LEMMA InitHeap == Init => HeapAccounted
<1> SUFFICES ASSUME Init PROVE HeapAccounted
  OBVIOUS
<1>1. Filled = {}
  BY DEF Init, Filled, IsLine
<1>2. Cardinality(Filled) = 0
  BY <1>1, FS_EmptySet
<1>3. StoreInv
  BY InitInv, InvParts
<1>4. CASE text_array = [n \in 0..(ArrayLines - 1) |-> NoLine] /\ live = 1
  <2>1. 0 \in DOMAIN text_array
    BY <1>4, SizeAssumption
  <2> QED  BY <1>2, <1>3, <1>4, <2>1, SlotsAllocated DEF HeapAccounted, Filled
<1>5. CASE text_array = [n \in {} |-> NoLine] /\ live = 0
  BY <1>2, <1>5 DEF HeapAccounted, Filled
<1> QED  BY <1>4, <1>5 DEF Init

\* Whatever callocs and reallocs fail, every block stays reachable.
THEOREM HeapHolds == Spec => []HeapAccounted
<1>1. Inv /\ HeapAccounted /\ [Next]_vars => HeapAccounted'
  BY NextHeap
<1> QED  BY <1>1, InitHeap, InvHolds, PTL DEF Spec

-----------------------------------------------------------------------------
(* Editor implements TextDoc.                                              *)

\* A sequence is a function on 1..n.
LEMMA FunctionIsSeq ==
  ASSUME NEW S, NEW n \in Nat, NEW f \in [1..n -> S]
  PROVE  f \in Seq(S) /\ Len(f) = n
OBVIOUS

\* What makes a function the sequence s with c behind it.
LEMMA FunctionIsAppend ==
  ASSUME NEW S, NEW s \in Seq(S), NEW c \in S, NEW k \in Nat, k = Len(s),
         NEW f \in [1..(k + 1) -> S], f[k + 1] = c, \A i \in 1..k : f[i] = s[i]
  PROVE  f = Append(s, c)
<1>1. f \in Seq(S) /\ Len(f) = k + 1
  BY FunctionIsSeq
<1>2. /\ Append(s, c) \in Seq(S) /\ Len(Append(s, c)) = k + 1
      /\ \A i \in 1..k : Append(s, c)[i] = s[i]
      /\ Append(s, c)[k + 1] = c
  BY AppendProperties
<1>3. ASSUME NEW i \in 1..(k + 1) PROVE f[i] = Append(s, c)[i]
  <2>1. i \in 1..k \/ i = k + 1
    OBVIOUS
  <2> QED  BY <1>2, <2>1
<1> QED  BY <1>1, <1>2, <1>3, SeqEqual

\* The lines fill the slots up to their number.
FirstSlots == LineCount \in Nat /\ \A n : IsLine(n) <=> n \in 0..(LineCount - 1)

\* The filled slots are the first ones of the array, as many as lines.
LEMMA CountLines ==
  StoreInv => FirstSlots
<1> SUFFICES ASSUME StoreInv
             PROVE  LineCount \in Nat /\ \A n : IsLine(n) <=> n \in 0..(LineCount - 1)
  BY DEF FirstSlots
<1> PICK c : c = Cardinality(Filled)
  OBVIOUS
<1>1. LineCount = c
  BY DEF LineCount, Filled
<1>2. c \in Nat /\ IsFiniteSet(Filled)
  BY FilledFinite, FS_CardinalityType
<1>3. \A n \in Filled : n \in Nat /\ 0..n \subseteq Filled
  BY LineInStore DEF Filled, StoreInv, IsLine
<1>4. ASSUME NEW n \in Filled PROVE n \in 0..(c - 1)
  <2>1. Cardinality(0..n) = n + 1
    BY <1>3, <1>4, FS_Interval
  <2>2. Cardinality(0..n) <= c
    BY <1>2, <1>3, <1>4, FS_Subset
  <2> QED  BY <1>2, <1>3, <2>1, <2>2
<1>5. Cardinality(0..(c - 1)) = c /\ IsFiniteSet(0..(c - 1))
  <2>1. 0 \in Int /\ c - 1 \in Int
    BY <1>2
  <2>2. /\ IsFiniteSet(0..(c - 1))
        /\ Cardinality(0..(c - 1)) = IF 0 > c - 1 THEN 0 ELSE c - 1 - 0 + 1
    BY <2>1, FS_Interval
  <2> QED  BY <1>2, <2>2
<1>6. Filled = 0..(c - 1)
  BY <1>4, <1>5, FS_Subset
<1> QED  BY <1>1, <1>2, <1>6 DEF Filled, IsLine

\* The same after a step.
LEMMA CountLinesNext ==
  ASSUME StoreInv'
  PROVE  LineCount' \in Nat /\ \A n : IsLine(n)' <=> n \in 0..(LineCount' - 1)
<1>1. FirstSlots'
  BY CountLines, PTL
<1> QED  BY <1>1 DEF FirstSlots

\* A line as a sequence of cells.
LEMMA LineIsSeq ==
  ASSUME NEW l \in Lines, l.len <= l.size
  PROVE  LineText(l) \in Seq(Cells) /\ Len(LineText(l)) = l.len
<1>1. l.len \in Nat /\ l.size \in Nat /\ l.buf \in [0..(l.size - 1) -> Cells]
  BY LineFacts, SizeAssumption
<1>2. LineText(l) \in [1..l.len -> Cells]
  <2> SUFFICES ASSUME NEW i \in 1..l.len PROVE l.buf[i - 1] \in Cells
    BY DEF LineText
  <2>1. i - 1 \in 0..(l.size - 1)
    BY <1>1
  <2> QED  BY <1>1, <2>1
<1> QED  BY <1>1, <1>2, FunctionIsSeq

\* The text as a sequence of lines.
LEMMA TextIsSeq ==
  ASSUME StoreInv
  PROVE  /\ DocText \in Seq(Seq(Cells)) /\ Len(DocText) = LineCount
         /\ \A n : IsLine(n) => DocText[n + 1] = LineText(text_array[n])
<1>1. LineCount \in Nat /\ \A n : IsLine(n) <=> n \in 0..(LineCount - 1)
  BY CountLines DEF FirstSlots
<1>2. ASSUME NEW n \in 1..LineCount
      PROVE  LineText(text_array[n - 1]) \in Seq(Cells)
  <2>1. IsLine(n - 1)
    BY <1>1
  <2>2. text_array[n - 1] \in Lines /\ text_array[n - 1].len <= text_array[n - 1].size
    BY <2>1, LineInStore DEF StoreInv, IsLine
  <2> QED  BY <2>2, LineIsSeq
<1>3. DocText \in [1..LineCount -> Seq(Cells)]
  BY <1>2 DEF DocText
<1>4. ASSUME NEW n, IsLine(n) PROVE DocText[n + 1] = LineText(text_array[n])
  <2>1. n \in Nat /\ n + 1 \in 1..LineCount /\ n + 1 - 1 = n
    BY <1>1, <1>4
  <2> QED  BY <2>1 DEF DocText
<1> QED  BY <1>1, <1>3, <1>4, FunctionIsSeq

\* Steps that rewrite no line.
LEMMA SameText ==
  ASSUME text_array' = text_array PROVE DocText' = DocText /\ LineCount' = LineCount
BY DEF DocText, LineCount, IsLine

\* A line that is made goes behind the last one.
LEMMA TextFetched ==
  ASSUME StoreInv, NEW n \in Nat, n <= MaxLineCount, FetchLine(n),
         \A m \in 0..(n - 1) : IsLine(m)
  PROVE  /\ IsLine(n) => DocText' = DocText
         /\ ~IsLine(n) => n = LineCount /\ DocText' = Append(DocText, <<>>)
         /\ n <= LineCount /\ (IsLine(n) <=> n < LineCount)
<1>1. LineCount \in Nat /\ \A m : IsLine(m) <=> m \in 0..(LineCount - 1)
  BY CountLines DEF FirstSlots
<1>2. n <= LineCount /\ (IsLine(n) <=> n < LineCount)
  <2>1. n = 0 \/ n - 1 \in 0..(n - 1)
    OBVIOUS
  <2> QED  BY <1>1, <2>1
<1>3. CASE IsLine(n)
  <2>1. text_array' = text_array
    BY <1>3 DEF FetchLine, store, IsLine
  <2> QED  BY <1>2, <1>3, <2>1, SameText
<1>4. CASE ~IsLine(n)
  <2>1. n = LineCount
    BY <1>1, <1>2, <1>4
  <2>2. StoreInv' /\ IsLine(n)' /\ text_array'[n].len = 0
    BY <1>4, FetchKeeps
  <2>3. /\ \A m : IsLine(m) => text_array'[m] = text_array[m]
        /\ \A m : IsLine(m)' => IsLine(m) \/ m = n
        /\ \A m : IsLine(m) => IsLine(m)'
    BY FetchKeeps
  <2>4. LineCount' \in Nat /\ \A m : IsLine(m)' <=> m \in 0..(LineCount' - 1)
    BY <2>2, CountLinesNext
  <2>5. LineCount' = n + 1
    <3> PICK k : k = LineCount'
      OBVIOUS
    <3>1. k \in Nat /\ n \in 0..(k - 1)
      BY <2>2, <2>4
    <3>2. n + 1 # n /\ ~IsLine(n + 1)
      BY <1>1, <2>1
    <3>3. ~IsLine(n + 1)'
      BY <2>3, <3>2
    <3>4. n + 1 \notin 0..(k - 1)
      BY <2>4, <3>3
    <3>5. k = n + 1
      BY ONLY <3>1, <3>4, n \in Nat
    <3> QED  BY <3>5
  <2>6. LineText(text_array'[n]) = <<>>
    BY <2>2 DEF LineText
  <2>7. \A m \in 1..n : LineText(text_array'[m - 1]) = DocText[m]
    <3> SUFFICES ASSUME NEW m \in 1..n
                 PROVE  LineText(text_array'[m - 1]) = DocText[m]
      OBVIOUS
    <3>1. m - 1 \in 0..(n - 1) /\ m - 1 + 1 = m
      OBVIOUS
    <3>2. text_array'[m - 1] = text_array[m - 1]
      BY <2>3, <3>1
    <3> QED  BY <2>1, <3>2 DEF DocText
  <2>8. DocText' = [m \in 1..(n + 1) |-> LineText(text_array'[m - 1])]
    BY <2>5 DEF DocText, LineText
  <2>9. DocText \in Seq(Seq(Cells)) /\ Len(DocText) = n
    BY <2>1, TextIsSeq
  <2>10. DocText' = Append(DocText, <<>>)
    <3> PICK f : f = DocText'
      OBVIOUS
    <3>1. <<>> \in Seq(Cells) /\ n + 1 - 1 = n
      OBVIOUS
    <3>2. \A m \in 1..n : DocText[m] \in Seq(Cells)
      BY <2>9, ElementOfSeq
    <3>3. f[n + 1] = <<>> /\ \A m \in 1..n : f[m] = DocText[m]
      BY <2>6, <2>7, <2>8, <3>1
    <3>4. f \in [1..(n + 1) -> Seq(Cells)]
      <4>1. \A m \in 1..(n + 1) : f[m] \in Seq(Cells)
        <5>1. \A m \in 1..(n + 1) : m \in 1..n \/ m = n + 1
          OBVIOUS
        <5> QED  BY <3>1, <3>2, <3>3, <5>1
      <4> QED  BY <2>8, <4>1
    <3> QED  BY <2>9, <3>1, <3>3, <3>4, FunctionIsAppend
  <2> QED  BY <1>2, <1>4, <2>1, <2>10
<1> QED  BY <1>3, <1>4

\* A rewritten line takes the place of the old one.
LEMMA TextRewritten ==
  ASSUME StoreInv, NEW n, IsLine(n), NEW l \in Lines, l.len <= l.size,
         text_array' = [text_array EXCEPT ![n] = l], UNCHANGED live
  PROVE  DocText' = [DocText EXCEPT ![n + 1] = LineText(l)]
<1>1. /\ StoreInv' /\ text_array'[n] = l
      /\ \A m : IsLine(m)' <=> IsLine(m)
      /\ \A m \in DOMAIN text_array : m # n => text_array'[m] = text_array[m]
  BY RewriteKeeps
<1>2. LineCount \in Nat /\ \A m : IsLine(m) <=> m \in 0..(LineCount - 1)
  BY CountLines DEF FirstSlots
<1>3. LineCount' \in Nat /\ \A m : IsLine(m)' <=> m \in 0..(LineCount' - 1)
  BY <1>1, CountLinesNext
<1>4. LineCount' = LineCount
  <2>1. \A m \in Nat : m < LineCount <=> m < LineCount'
    BY <1>1, <1>2, <1>3
  <2> QED  BY <1>2, <1>3, <2>1
<1>5. DocText' = [m \in 1..LineCount |-> LineText(text_array'[m - 1])]
  BY <1>4 DEF DocText, LineText
<1>6. n \in Nat
  BY <1>2
<1>7. ASSUME NEW m \in 1..LineCount
      PROVE  LineText(text_array'[m - 1]) =
               IF m = n + 1 THEN LineText(l) ELSE LineText(text_array[m - 1])
  <2>1. m - 1 \in DOMAIN text_array /\ (m = n + 1 <=> m - 1 = n)
    BY <1>2, <1>6 DEF IsLine
  <2> QED  BY <1>1, <2>1
<1> QED  BY <1>5, <1>7 DEF DocText

\* The line with a character typed at or before its end.
LEMMA ShownPut ==
  ASSUME NEW l \in Lines, l.len <= l.size,
         NEW x \in Nat, x < MaxLineLen, x <= l.len, NEW c \in TextChars
  PROVE  LineText(PutChar(l, x, c)) =
           IF x < Len(LineText(l)) THEN Doc!ReplaceAt(LineText(l), x + 1, c)
                                   ELSE Append(LineText(l), c)
<1> PICK q : q = PutChar(l, x, c)
  OBVIOUS
<1>1. l.len \in Nat /\ l.size \in Nat
  BY LineFacts, SizeAssumption
<1>2. /\ q.len = IF x + 1 > l.len THEN x + 1 ELSE l.len
      /\ q.buf[x] = c
      /\ \A i \in 0..(l.size - 1) : i # x => q.buf[i] = l.buf[i]
  BY PutFacts
<1>3. LineText(l) \in Seq(Cells) /\ Len(LineText(l)) = l.len
  BY LineIsSeq
<1>4. \A i \in 1..l.len : i # x + 1 => q.buf[i - 1] = LineText(l)[i]
  <2> SUFFICES ASSUME NEW i \in 1..l.len, i # x + 1 PROVE q.buf[i - 1] = LineText(l)[i]
    OBVIOUS
  <2>1. i - 1 \in 0..(l.size - 1) /\ i - 1 # x
    BY <1>1
  <2> QED  BY <1>2, <2>1 DEF LineText
<1>5. CASE x < l.len
  <2>1. q.len = l.len
    BY <1>1, <1>2, <1>5
  <2>2. LineText(q) = [i \in 1..l.len |-> IF i = x + 1 THEN c ELSE LineText(l)[i]]
    <3>1. \A i \in 1..l.len : q.buf[i - 1] = IF i = x + 1 THEN c ELSE LineText(l)[i]
      BY <1>2, <1>4
    <3> QED  BY <2>1, <3>1 DEF LineText
  <2>3. Doc!ReplaceAt(LineText(l), x + 1, c) =
          [i \in 1..l.len |-> IF i = x + 1 THEN c ELSE LineText(l)[i]]
    BY <1>1, <1>5 DEF Doc!ReplaceAt, LineText
  <2> QED  BY <1>3, <1>5, <2>2, <2>3
<1>6. CASE x = l.len
  <2>1. q.len = l.len + 1
    BY <1>1, <1>2, <1>6
  <2>2. LineText(q) = [i \in 1..(l.len + 1) |-> q.buf[i - 1]]
    BY <2>1 DEF LineText
  <2>3. q.buf[l.len + 1 - 1] = c
    BY <1>1, <1>2, <1>6
  <2>4. \A i \in 1..l.len : q.buf[i - 1] = LineText(l)[i]
    BY <1>1, <1>4, <1>6
  <2>5. c \in Cells
    BY DEF Cells
  <2>6. LineText(q) = Append(LineText(l), c)
    <3> PICK f : f = LineText(q)
      OBVIOUS
    <3>1. f[l.len + 1] = c /\ \A i \in 1..l.len : f[i] = LineText(l)[i]
      BY <1>1, <2>2, <2>3, <2>4
    <3>2. \A i \in 1..l.len : LineText(l)[i] \in Cells
      BY <1>3, ElementOfSeq
    <3>3. f \in [1..(l.len + 1) -> Cells]
      <4>1. \A i \in 1..(l.len + 1) : i \in 1..l.len \/ i = l.len + 1
        BY <1>1
      <4> QED  BY <2>2, <2>5, <3>1, <3>2, <4>1
    <3> QED  BY <1>1, <1>3, <2>5, <3>1, <3>3, FunctionIsAppend
  <2>7. ~(x < Len(LineText(l)))
    BY <1>1, <1>3, <1>6
  <2> QED  BY <2>6, <2>7
<1> QED  BY <1>1, <1>5, <1>6

\* The line without the character before column x.
LEMMA ShownDelete ==
  ASSUME NEW l \in Lines, l.len # 0, l.len <= l.size,
         NEW x \in Nat \ {0}, x <= l.len
  PROVE  LineText(DeleteBefore(l, x)) = Doc!RemoveAt(LineText(l), x)
<1> PICK q : q = DeleteBefore(l, x)
  OBVIOUS
<1>1. l.len \in Nat /\ l.size \in Nat
  BY LineFacts, SizeAssumption
<1>2. /\ q \in Lines /\ q.len = l.len - 1 /\ q.size = l.size
      /\ \A i \in 0..(l.len - 2) : q.buf[i] = l.buf[IF i < x - 1 THEN i ELSE i + 1]
  BY DeleteFacts
<1> PICK s : s = LineText(l)
  OBVIOUS
<1>3. s \in Seq(Cells) /\ Len(s) = l.len /\ \A i \in 1..l.len : s[i] = l.buf[i - 1]
  BY LineIsSeq DEF LineText
<1>4. /\ SubSeq(s, 1, x - 1) \in Seq(Cells)
      /\ Len(SubSeq(s, 1, x - 1)) = x - 1
      /\ \A i \in 1..(x - 1) : SubSeq(s, 1, x - 1)[i] = s[i]
  BY <1>1, <1>3
<1>5. /\ SubSeq(s, x + 1, l.len) \in Seq(Cells)
      /\ Len(SubSeq(s, x + 1, l.len)) = l.len - x
      /\ \A i \in 1..(l.len - x) : SubSeq(s, x + 1, l.len)[i] = s[x + i]
  BY <1>1, <1>3
<1> PICK r : r = Doc!RemoveAt(s, x)
  OBVIOUS
<1>6. /\ r \in Seq(Cells) /\ Len(r) = l.len - 1
      /\ \A i \in 1..(l.len - 1) : r[i] = IF i <= x - 1 THEN s[i] ELSE s[i + 1]
  <2> PICK a, b : a = SubSeq(s, 1, x - 1) /\ b = SubSeq(s, x + 1, l.len)
    OBVIOUS
  <2>1. r = a \o b
    BY <1>3 DEF Doc!RemoveAt
  <2>2. a \in Seq(Cells) /\ b \in Seq(Cells) /\ Len(a) + Len(b) = l.len - 1
    BY <1>1, <1>4, <1>5
  <2>3. /\ r \in Seq(Cells) /\ Len(r) = l.len - 1
        /\ \A i \in 1..(l.len - 1) : r[i] = IF i <= Len(a) THEN a[i] ELSE b[i - Len(a)]
    BY <2>1, <2>2, ConcatProperties
  <2>4. ASSUME NEW i \in 1..(l.len - 1) PROVE r[i] = IF i <= x - 1 THEN s[i] ELSE s[i + 1]
    <3>1. r[i] = IF i <= x - 1 THEN a[i] ELSE b[i - (x - 1)]
      BY <1>4, <2>3
    <3>2. CASE i <= x - 1
      <4>1. i \in 1..(x - 1)
        BY <3>2
      <4> QED  BY <1>4, <3>1, <3>2, <4>1
    <3>3. CASE i > x - 1
      <4>1. i - (x - 1) \in 1..(l.len - x) /\ x + (i - (x - 1)) = i + 1 /\ ~(i <= x - 1)
        BY <1>1, <3>3
      <4> QED  BY <1>5, <3>1, <4>1
    <3> QED  BY <3>2, <3>3
  <2> QED  BY <2>3, <2>4
<1>7. LineText(q) \in Seq(Cells) /\ Len(LineText(q)) = l.len - 1
  BY <1>1, <1>2, LineIsSeq
<1>8. ASSUME NEW i \in 1..(l.len - 1) PROVE LineText(q)[i] = r[i]
  <2>1. i - 1 \in 0..(l.len - 2) /\ i \in 1..l.len /\ i + 1 \in 1..l.len
    BY <1>1
  <2>2. LineText(q)[i] = q.buf[i - 1]
    BY <1>2 DEF LineText
  <2>3. q.buf[i - 1] = l.buf[IF i - 1 < x - 1 THEN i - 1 ELSE i]
    BY <1>2, <2>1
  <2>4. r[i] = IF i <= x - 1 THEN s[i] ELSE s[i + 1]
    BY <1>6
  <2>5. s[i] = l.buf[i - 1] /\ s[i + 1] = l.buf[i]
    <3>1. i + 1 - 1 = i
      OBVIOUS
    <3> QED  BY <1>3, <2>1, <3>1
  <2>6. i - 1 < x - 1 <=> i <= x - 1
    BY <1>1
  <2> QED  BY <2>2, <2>3, <2>4, <2>5, <2>6, Zenon
<1> QED  BY <1>1, <1>6, <1>7, <1>8, SeqEqual

\* The prompt is opened in command mode and closed before the editor ends.
PromptInCmd == at_prompt => editor_mode = "CMD" /\ ~do_exit

\* What the steps of the refinement rest on.
DocInv == Inv /\ TextInv /\ PromptInCmd

\* What a key sees of the text: its line is the line of the text it is on.
LEMMA DocFacts ==
  ASSUME DocInv
  PROVE  /\ StoreInv /\ CursorInv /\ CursorWithinLine
         /\ cur_x \in Nat /\ get_cur_line_number \in Nat
         /\ LineCount \in Nat /\ Len(DocText) = LineCount
         /\ \A n : IsLine(n) => /\ n \in Nat /\ n < LineCount
                                /\ DocText[n + 1] = LineText(text_array[n])
                                /\ text_array[n] \in Lines
                                /\ text_array[n].len \in Nat
                                /\ text_array[n].len <= text_array[n].size
                                /\ Len(DocText[n + 1]) = text_array[n].len
<1>1. StoreInv /\ CursorInv /\ CursorWithinLine
  BY InvParts DEF DocInv, TextInv
<1>2. cur_x \in Nat /\ get_cur_line_number \in Nat
  BY <1>1, CursorNumbers
<1>3. LineCount \in Nat /\ \A n : IsLine(n) <=> n \in 0..(LineCount - 1)
  BY <1>1, CountLines DEF FirstSlots
<1>4. Len(DocText) = LineCount /\ \A n : IsLine(n) => DocText[n + 1] = LineText(text_array[n])
  BY <1>1, TextIsSeq
<1>5. ASSUME NEW n, IsLine(n)
      PROVE  /\ n \in Nat /\ n < LineCount
             /\ DocText[n + 1] = LineText(text_array[n])
             /\ text_array[n] \in Lines
             /\ text_array[n].len \in Nat
             /\ text_array[n].len <= text_array[n].size
             /\ Len(DocText[n + 1]) = text_array[n].len
  <2>1. n \in Nat /\ n < LineCount
    BY <1>3, <1>5
  <2>2. text_array[n] \in Lines /\ text_array[n].len <= text_array[n].size
    BY <1>1, <1>5, LineInStore DEF StoreInv, IsLine
  <2>3. text_array[n].len \in Nat
    BY <2>2, LineFacts
  <2> QED  BY <1>4, <1>5, <2>1, <2>2, <2>3, LineIsSeq
<1> QED  BY <1>1, <1>2, <1>3, <1>4, <1>5

\* "i" starts editing, and an empty text gets its first line.
LEMMA InsertDoc == DocInv /\ InsertCmd => [Doc!Next]_Doc!vars
<1> SUFFICES ASSUME DocInv, InsertCmd PROVE [Doc!Next]_Doc!vars
  OBVIOUS
<1> PICK n : n = get_cur_line_number
  OBVIOUS
<1>1. /\ ~do_exit /\ editor_mode = "CMD" /\ do_exit' = do_exit /\ cur_x' = cur_x
      /\ get_cur_line_number' = get_cur_line_number
  BY DEF InsertCmd, CmdKey, get_cur_line_number
<1>2. CASE FetchLine(n) /\ editor_mode' = "EDIT"
  <2>1. n \in Nat /\ n <= MaxLineCount /\ \A m \in 0..(n - 1) : IsLine(m)
    BY DocFacts, CursorNumbers
  <2>2. /\ IsLine(n) => DocText' = DocText
        /\ ~IsLine(n) => n = LineCount /\ DocText' = Append(DocText, <<>>)
    BY <1>2, <2>1, DocFacts, TextFetched
  <2>3. IsLine(n) \/ n = 0
    BY DocFacts DEF CursorInv
  <2>4. IsLine(n) => DocText # <<>>
    <3>1. IsLine(n) => Len(DocText) # 0
      BY DocFacts
    <3> QED  BY <3>1
  <2>5. ~IsLine(n) => DocText = <<>>
    <3>1. ~IsLine(n) => LineCount = 0
      BY <2>2, <2>3
    <3>2. DocText = [m \in 1..LineCount |-> LineText(text_array[m - 1])]
      BY DEF DocText
    <3> QED  BY <3>1, <3>2
  <2>6. DocText' = IF DocText = <<>> THEN << <<>> >> ELSE DocText
    <3>1. Append(<<>>, <<>>) = << <<>> >>
      OBVIOUS
    <3> QED  BY <2>2, <2>4, <2>5, <3>1
  <2>7. Doc!Edit
    BY <1>1, <1>2, <2>6 DEF Doc!Edit
  <2> QED  BY <2>7 DEF Doc!Next
<1>3. CASE FetchNothing(n) /\ editor_mode' = editor_mode
  <2>1. DocText' = DocText
    BY <1>3, SameText DEF FetchNothing
  <2> QED  BY <1>1, <1>3, <2>1 DEF Doc!vars
<1> QED  BY <1>2, <1>3 DEF InsertCmd

\* The keys that only move the cursor.
LEMMA MoveDoc ==
  ASSUME Wild \notin BootCurLine
  PROVE  DocInv /\ (CursorUp \/ CursorDown \/ CursorLeft \/ CursorRight)
           => [Doc!Next]_Doc!vars
<1> SUFFICES ASSUME DocInv, CursorUp \/ CursorDown \/ CursorLeft \/ CursorRight
             PROVE  [Doc!Next]_Doc!vars
  OBVIOUS
<1> PICK x, ln : x = cur_x /\ ln = get_cur_line_number
  OBVIOUS
<1>1. /\ ~do_exit /\ editor_mode = "CMD" /\ do_exit' = do_exit
      /\ editor_mode' = editor_mode /\ text_array' = text_array
  BY DEF CursorUp, CursorDown, CursorLeft, CursorRight, CmdKey, store
<1>2. DocText' = DocText
  BY <1>1, SameText
<1>3. x \in Nat /\ ln \in Nat
  BY DocFacts
<1>4. /\ cur_y \in Nat /\ top_screen_line \in Nat /\ ln = top_screen_line + cur_y
  BY DocFacts, CursorNumbers DEF get_cur_line_number
<1>5. ASSUME NEW r \in {ln - 1, ln + 1} \cap Nat, IsLine(r),
             get_cur_line_number' = r, cur_x' = ClampAtLine(r)
      PROVE  [Doc!Next]_Doc!vars
  <2> PICK len : len = text_array[r].len
    OBVIOUS
  <2>1. len \in Nat /\ r < Len(DocText) /\ Len(DocText[r + 1]) = len
    BY <1>5, DocFacts
  <2>2. cur_x' = IF x < len THEN x ELSE IF len = 0 THEN 0 ELSE len - 1
    BY <1>3, <1>5, <2>1 DEF ClampAtLine
  <2>3. Doc!MoveTo(r)
    BY <1>1, <1>2, <1>5, <2>1, <2>2 DEF Doc!MoveTo
  <2> QED  BY <2>3 DEF Doc!Next
<1>6. ASSUME NEW c \in {x - 1, x + 1} \cap Nat, IsLine(ln), cur_x' = c,
             get_cur_line_number' = ln, c < text_array[ln].len \/ c = x - 1
      PROVE  [Doc!Next]_Doc!vars
  <2>1. Len(DocText) # 0 /\ Len(DocText[ln + 1]) = text_array[ln].len
    BY <1>6, DocFacts
  <2>2. DocText # <<>>
    BY <2>1
  <2>3. Doc!MoveAlong(c)
    BY <1>1, <1>2, <1>6, <2>1, <2>2 DEF Doc!MoveAlong, Doc!Line
  <2> QED  BY <2>3 DEF Doc!Next
<1>7. CASE CursorUp
  <2>1. ln - 1 \in Nat /\ IsLine(ln - 1) /\ cur_x' = ClampAtLine(ln - 1)
    BY <1>3, <1>7 DEF CursorUp, text_line_lookup, IsLine
  <2>2. get_cur_line_number' = ln - 1
    BY <1>4, <1>7 DEF CursorUp, get_cur_line_number
  <2> QED  BY <1>5, <2>1, <2>2
<1>8. CASE CursorDown
  <2>1. ln + 1 \in Nat /\ IsLine(ln + 1) /\ cur_x' = ClampAtLine(ln + 1)
    BY <1>3, <1>8 DEF CursorDown, text_line_lookup, IsLine
  <2>2. get_cur_line_number' = ln + 1
    BY <1>4, <1>8 DEF CursorDown, get_cur_line_number
  <2> QED  BY <1>5, <2>1, <2>2
<1>9. cur_line \notin BootCurLine => cur_line = ln /\ IsLine(ln) /\ ln # NoLine /\ ln # Wild
  BY <1>3, DocFacts, ValueAssumption DEF CursorInv, CurLineCached
<1>10. cur_line \in BootCurLine => cur_line = NoLine
  BY ValueAssumption
<1>11. CASE CursorLeft
  <2>1. IsLine(ln)
    BY <1>9, <1>10, <1>11 DEF CursorLeft
  <2>2. x - 1 \in Nat /\ cur_x' = x - 1
    BY <1>3, <1>11 DEF CursorLeft
  <2>3. get_cur_line_number' = ln
    BY <1>11 DEF CursorLeft, get_cur_line_number
  <2> QED  BY <1>6, <2>1, <2>2, <2>3
<1>12. CASE CursorRight
  <2>1. cur_line \notin BootCurLine
    BY <1>10, <1>12 DEF CursorRight, CurLineLen
  <2>2. CurLineLen = {text_array[ln].len} /\ IsLine(ln)
    BY <1>9, <2>1 DEF CurLineLen
  <2>3. x < text_array[ln].len - 1 /\ text_array[ln].len \in Nat
    BY <1>12, <2>2, DocFacts DEF CursorRight
  <2>4. x + 1 \in Nat /\ x + 1 < text_array[ln].len
    BY <1>3, <2>3
  <2>5. cur_x' = x + 1 /\ get_cur_line_number' = ln
    BY <1>12 DEF CursorRight, get_cur_line_number
  <2> QED  BY <1>6, <2>2, <2>4, <2>5
<1> QED  BY <1>7, <1>8, <1>11, <1>12

\* ENTER goes to the start of the next line, making it at the end.
LEMMA NewlineDoc == DocInv /\ EditNewline => [Doc!Next]_Doc!vars
<1> SUFFICES ASSUME DocInv, EditNewline PROVE [Doc!Next]_Doc!vars
  OBVIOUS
<1> PICK n, ln : ln = get_cur_line_number /\ n = ln + 1
  OBVIOUS
<1>1. /\ ~do_exit /\ editor_mode = "EDIT" /\ do_exit' = do_exit
      /\ editor_mode' = editor_mode /\ cur_x' = 0
      /\ ln < MaxLineCount /\ FetchLine(n)
  BY DEF EditNewline, EditKey
<1>2. ln \in Nat /\ n \in Nat /\ n <= MaxLineCount /\ n < MaxLineCount + 1
  BY <1>1, DocFacts, SizeAssumption
<1>3. get_cur_line_number' = n
  <2>1. cur_y \in Nat /\ top_screen_line \in Nat /\ ln = top_screen_line + cur_y
    BY DocFacts, CursorNumbers DEF get_cur_line_number
  <2> QED  BY <2>1 DEF EditNewline, get_cur_line_number
<1>4. \A m \in 0..(n - 1) : IsLine(m)
  <2>1. \A m \in 0..(n - 1) : m \in 0..(ln - 1) \/ m = ln
    BY <1>2
  <2>2. \A m \in 0..(ln - 1) : IsLine(m)
    BY DocFacts, CursorNumbers
  <2>3. IsLine(ln)
    BY DocFacts, EditHasLine DEF EditNewline
  <2> QED  BY <2>1, <2>2, <2>3
<1>5. /\ IsLine(n) => DocText' = DocText
      /\ ~IsLine(n) => DocText' = Append(DocText, <<>>)
      /\ IsLine(n) <=> n < LineCount
  BY <1>1, <1>2, <1>4, DocFacts, TextFetched
<1>6. DocText' = IF n < Len(DocText) THEN DocText ELSE Append(DocText, <<>>)
  BY <1>5, DocFacts
<1>7. Doc!NextLine
  BY <1>1, <1>2, <1>3, <1>6 DEF Doc!NextLine
<1> QED  BY <1>7 DEF Doc!Next

\* A refused ENTER goes to the start of the line.
LEMMA RefusedDoc == DocInv /\ EditNewlineRefused => [Doc!Next]_Doc!vars
<1> SUFFICES ASSUME DocInv, EditNewlineRefused PROVE [Doc!Next]_Doc!vars
  OBVIOUS
<1>1. text_array' = text_array
  BY DEF EditNewlineRefused, FetchNothing, store
<1>2. DocText' = DocText
  BY <1>1, SameText
<1>3. Doc!Home
  BY <1>2 DEF Doc!Home, EditNewlineRefused, EditKey, get_cur_line_number
<1> QED  BY <1>3 DEF Doc!Next

\* DEL takes away the character before the cursor.
LEMMA DelDoc == DocInv /\ EditDel => [Doc!Next]_Doc!vars
<1> SUFFICES ASSUME DocInv, EditDel PROVE [Doc!Next]_Doc!vars
  OBVIOUS
<1> PICK n, x : n = get_cur_line_number /\ x = cur_x
  OBVIOUS
<1> PICK old, l : old = text_array[n] /\ l = DeleteBefore(old, x)
  OBVIOUS
<1>1. /\ ~do_exit /\ editor_mode = "EDIT" /\ do_exit' = do_exit
      /\ editor_mode' = editor_mode /\ cur_x' = x - 1
      /\ get_cur_line_number' = n
  BY DEF EditDel, EditKey, get_cur_line_number
<1>2. cur_line = n /\ n \notin BootCurLine /\ IsLine(n)
  BY DocFacts, EditHasLine DEF EditDel
<1>3. /\ old \in Lines /\ old.len <= old.size /\ old.len # 0
      /\ x \in Nat \ {0} /\ x <= old.len
  BY <1>2, DocFacts DEF EditDel, CursorWithinLine
<1>4. /\ l \in Lines /\ l.len = old.len - 1 /\ l.size = old.size
      /\ LineText(l) = Doc!RemoveAt(LineText(old), x)
  BY <1>3, DeleteFacts, ShownDelete
<1>5. l.len <= l.size
  BY <1>3, <1>4, LineFacts, SizeAssumption
<1>6. text_array' = [text_array EXCEPT ![n] = l] /\ UNCHANGED live
  BY <1>2 DEF EditDel
<1>7. DocText' = [DocText EXCEPT ![n + 1] = LineText(l)]
  BY <1>2, <1>4, <1>5, <1>6, DocFacts, TextRewritten
<1>8. DocText[n + 1] = LineText(old)
  BY <1>2, DocFacts
<1>9. DocText' = [DocText EXCEPT ![n + 1] = Doc!RemoveAt(@, x)]
  BY <1>4, <1>7, <1>8
<1>10. x > 0
  BY <1>3
<1>11. Doc!Backspace
  BY <1>1, <1>9, <1>10 DEF Doc!Backspace
<1> QED  BY <1>11 DEF Doc!Next

\* A character replaces the one under the cursor or extends the line.
LEMMA TypeDoc ==
  ASSUME NEW c \in TextChars PROVE DocInv /\ EditType(c) => [Doc!Next]_Doc!vars
<1> SUFFICES ASSUME DocInv, EditType(c) PROVE [Doc!Next]_Doc!vars
  OBVIOUS
<1> PICK n, x : n = get_cur_line_number /\ x = cur_x
  OBVIOUS
<1> PICK old, l : old = text_array[n] /\ l = PutChar(old, x, c)
  OBVIOUS
<1>1. /\ ~do_exit /\ editor_mode = "EDIT" /\ do_exit' = do_exit
      /\ editor_mode' = editor_mode /\ cur_x' = x + 1 /\ x < MaxLineLen
      /\ get_cur_line_number' = n
  BY DEF EditType, EditKey, get_cur_line_number
<1>2. cur_line = n /\ n \notin BootCurLine /\ IsLine(n)
  BY DocFacts, EditHasLine DEF EditType
<1>3. old \in Lines /\ old.len <= old.size /\ x \in Nat /\ x <= old.len
  BY <1>2, DocFacts DEF CursorWithinLine
<1>4. /\ l \in Lines /\ l.len <= l.size
      /\ LineText(l) = IF x < Len(LineText(old))
                       THEN Doc!ReplaceAt(LineText(old), x + 1, c)
                       ELSE Append(LineText(old), c)
  BY <1>1, <1>3, PutFacts, ShownPut
<1>5. text_array' = [text_array EXCEPT ![n] = l] /\ UNCHANGED live
  BY <1>2 DEF EditType
<1>6. DocText' = [DocText EXCEPT ![n + 1] = LineText(l)]
  BY <1>2, <1>4, <1>5, DocFacts, TextRewritten
<1>7. DocText[n + 1] = LineText(old)
  BY <1>2, DocFacts
<1>8. DocText' = [DocText EXCEPT ![n + 1] =
                    IF x < Len(@) THEN Doc!ReplaceAt(@, x + 1, c) ELSE Append(@, c)]
  BY <1>4, <1>6, <1>7
<1>9. Doc!Type(c)
  BY <1>1, <1>8 DEF Doc!Type
<1> QED  BY <1>9 DEF Doc!Next

\* ESC leaves edit mode, q! closes the text; the rest of the prompt is not
\* the text's concern.
LEMMA RestDoc ==
  ASSUME DocInv
  PROVE  /\ EditEsc => Doc!Leave
         /\ PromptEnter => Doc!Close \/ UNCHANGED Doc!vars
         /\ ColonCmd \/ PromptDel \/ PromptEsc \/ Exited \/ UNCHANGED vars
              \/ (\E c \in PromptChars : PromptChar(c)) => UNCHANGED Doc!vars
<1>1. UNCHANGED <<cursor, store>> =>
        UNCHANGED <<DocText, cur_x, get_cur_line_number>>
  BY SameText DEF cursor, store, get_cur_line_number
<1>2. EditEsc => Doc!Leave
  BY <1>1 DEF EditEsc, EditKey, Doc!Leave
<1>3. PromptEnter => Doc!Close \/ UNCHANGED Doc!vars
  <2> SUFFICES ASSUME PromptEnter PROVE Doc!Close \/ UNCHANGED Doc!vars
    OBVIOUS
  <2>1. /\ editor_mode = "CMD" /\ ~do_exit /\ editor_mode' = editor_mode
        /\ UNCHANGED <<DocText, cur_x, get_cur_line_number>>
    BY <1>1 DEF PromptEnter, DocInv, PromptInCmd
  <2>2. do_exit' = do_exit \/ do_exit' = TRUE
    <3>1. do_exit \in BOOLEAN
      BY DEF DocInv, Inv, TypeOK
    <3> QED  BY <3>1 DEF PromptEnter
  <2> QED  BY <2>1, <2>2 DEF Doc!Close, Doc!vars
<1>4. ColonCmd \/ PromptDel \/ PromptEsc \/ Exited \/ UNCHANGED vars
        \/ (\E c \in PromptChars : PromptChar(c)) => UNCHANGED Doc!vars
  BY <1>1 DEF ColonCmd, PromptDel, PromptEsc, Exited, PromptChar, vars, Doc!vars
<1> QED  BY <1>2, <1>3, <1>4

\* The prompt's keys and no others keep the prompt open.
LEMMA NextPrompt == PromptInCmd /\ [Next]_vars => PromptInCmd'
<1> SUFFICES ASSUME PromptInCmd, [Next]_vars PROVE PromptInCmd'
  OBVIOUS
<1>1. CASE ColonCmd
  BY <1>1 DEF ColonCmd, CmdKey, PromptInCmd
<1>2. CASE (CmdKey \/ EditKey) /\ ~ColonCmd /\ at_prompt' = at_prompt
  BY <1>2 DEF CmdKey, EditKey, PromptInCmd
<1>3. CASE at_prompt' = FALSE
  BY <1>3 DEF PromptInCmd
<1>4. CASE UNCHANGED <<at_prompt, editor_mode, do_exit>>
  BY <1>4 DEF PromptInCmd
<1> QED
  BY <1>1, <1>2, <1>3, <1>4
  DEF Next, InsertCmd, CursorUp, CursorDown, CursorLeft, CursorRight, ColonCmd,
      PromptChar, PromptDel, PromptEnter, PromptEsc, EditEsc, EditNewline,
      EditNewlineRefused, EditDel, EditType, Exited, CmdKey, EditKey, prompt, vars

\* At the start the text is empty.
LEMMA InitDoc == Init => Doc!Init /\ PromptInCmd
<1> SUFFICES ASSUME Init PROVE Doc!Init /\ PromptInCmd
  OBVIOUS
<1>1. {n \in DOMAIN text_array : IsLine(n)} = {}
  BY DEF Init, IsLine
<1>2. LineCount = 0
  BY <1>1, FS_EmptySet DEF LineCount
<1>3. DocText = <<>>
  BY <1>2 DEF DocText
<1> QED  BY <1>3 DEF Init, Doc!Init, PromptInCmd, get_cur_line_number

\* Whatever keys are pressed and whatever allocations fail, the lines, their
\* buffers, the viewport and the line cache show a text with a cursor that
\* changes as TextDoc says: the refinement, for every size and alphabet.
THEOREM DocHolds ==
  ASSUME Wild \notin BootCurLine
  PROVE  Spec => ImplementsDoc
<1>1. DocInv /\ [Next]_vars => [Doc!Next]_Doc!vars
  BY InsertDoc, MoveDoc, NewlineDoc, RefusedDoc, DelDoc, TypeDoc, RestDoc
  DEF Next, Doc!Next
<1>2. Init => DocInv
  BY InitInv, InitText, InitDoc DEF DocInv
<1>3. DocInv /\ [Next]_vars => DocInv'
  BY NextInv, NextText, NextPrompt DEF DocInv
<1>4. Init => Doc!Init
  BY InitDoc
<1> QED  BY <1>1, <1>2, <1>3, <1>4, PTL DEF Spec, ImplementsDoc, Doc!Spec

-----------------------------------------------------------------------------
(* The prompt: no exit but on the command.                                 *)

\* The prompt's buffer holds what is on the prompt line, up to p; what an
\* earlier command or DEL left lies behind.
PromptShown ==
  /\ plan \in 0..5
  /\ ~at_prompt => typed = <<>>
  /\ at_prompt =>
       /\ typed \in Seq(PromptChars) /\ Len(typed) = p
       /\ \A i \in 1..p : typed[i] = tmp_buf[i - 1]

\* The keys of the quitting sequence are keys of the editor.
LEMMA QuitKeyIsKey ==
  ASSUME {"q", "!"} \subseteq PromptChars, plan \in 0..5, QuitNext
  PROVE  /\ [Next]_vars /\ plan' \in 0..5
         /\ TypedNext \/ (do_exit /\ UNCHANGED <<vars, typed>>)
<1>1. CASE FreeKey
  BY <1>1 DEF FreeKey
<1>2. CASE QuitKey
  <2> PICK k : k = Quitting[plan + 1]
    OBVIOUS
  <2>1. plan \in 0..4
    BY <1>2 DEF QuitKey, Quitting
  <2>2. k \in {"ESC", ":", "q", "!", "CR"}
    <3>1. plan = 0 \/ plan = 1 \/ plan = 2 \/ plan = 3 \/ plan = 4
      BY <2>1
    <3> QED  BY <3>1 DEF Quitting
  <2>3. (Accepted(k) \/ Refused(k)) /\ TypedNext /\ plan' = plan + 1
    BY <1>2 DEF QuitKey
  <2>4. Accepted(k) => PromptEsc \/ EditEsc \/ ColonCmd \/ PromptEnter
                         \/ (k \in {"q", "!"} /\ PromptChar(k))
    BY <2>2 DEF Accepted
  <2>5. [Next]_vars
    BY <2>3, <2>4 DEF Next, Refused
  <2> QED  BY <2>1, <2>3, <2>5
<1>3. CASE Exited /\ UNCHANGED <<typed, plan>>
  BY <1>3 DEF Exited
<1> QED  BY <1>1, <1>2, <1>3 DEF QuitNext

\* What a key does to the prompt.
LEMMA PromptSteps ==
  ASSUME [Next]_vars
  PROVE  \/ UNCHANGED <<at_prompt, p, tmp_buf>>
         \/ ~at_prompt /\ at_prompt' /\ p' = 0
         \/ at_prompt' = FALSE
         \/ at_prompt /\ at_prompt' /\ \E c \in PromptChars : PromptChar(c)
         \/ at_prompt /\ at_prompt' /\ PromptDel
BY DEF Next, InsertCmd, CursorUp, CursorDown, CursorLeft, CursorRight, ColonCmd,
       CmdKey, PromptChar, PromptDel, PromptEnter, PromptEsc, EditEsc,
       EditNewline, EditNewlineRefused, EditDel, EditType, Exited, prompt, vars

\* Every key keeps the buffer in step with the prompt line.
LEMMA QuitNextShown ==
  ASSUME {"q", "!"} \subseteq PromptChars
  PROVE  Inv /\ PromptShown /\ [QuitNext]_quitVars => PromptShown'
<1> SUFFICES ASSUME Inv, PromptShown, [QuitNext]_quitVars PROVE PromptShown'
  OBVIOUS
<1>1. CASE UNCHANGED quitVars
  BY <1>1 DEF PromptShown, quitVars, vars, prompt
<1>2. CASE QuitNext
  <2>1. /\ [Next]_vars /\ plan' \in 0..5
        /\ TypedNext \/ (do_exit /\ UNCHANGED <<vars, typed>>)
    BY <1>2, QuitKeyIsKey DEF PromptShown
  <2>2. CASE UNCHANGED <<vars, typed>>
    BY <2>1, <2>2 DEF PromptShown, vars, prompt
  <2>3. CASE TypedNext
    <3>1. p \in Nat /\ tmp_buf \in [0..(TmpBufLen - 1) -> PromptChars \cup {Nul}]
      BY SizeAssumption DEF Inv, TypeOK
    <3>2. CASE UNCHANGED <<at_prompt, p, tmp_buf>>
      BY <2>1, <2>3, <3>1, <3>2 DEF TypedNext, PromptShown
    <3>3. CASE ~at_prompt /\ at_prompt' /\ p' = 0
      <4>1. typed' = <<>>
        BY <2>3, <3>3 DEF TypedNext
      <4>2. <<>> \in Seq(PromptChars) /\ Len(<<>>) = 0 /\ 1..0 = {}
        OBVIOUS
      <4> QED  BY <2>1, <3>3, <4>1, <4>2 DEF PromptShown
    <3>4. CASE at_prompt' = FALSE
      BY <2>1, <2>3, <3>4 DEF TypedNext, PromptShown
    <3>5. ASSUME at_prompt, at_prompt', NEW c \in PromptChars, PromptChar(c)
          PROVE  PromptShown'
      <4>1. /\ p < TmpBufLen /\ p' = p + 1
            /\ tmp_buf' = [tmp_buf EXCEPT ![p] = c]
        BY <3>5 DEF PromptChar
      <4>2. p \in 0..(TmpBufLen - 1)
        BY <3>1, <4>1, SizeAssumption
      <4>3. tmp_buf'[p] = c /\ \A i \in 1..p : tmp_buf'[i - 1] = tmp_buf[i - 1]
        <5>1. \A i \in 1..p : i - 1 \in 0..(TmpBufLen - 1) /\ i - 1 # p
          BY <4>2, SizeAssumption
        <5> QED  BY <3>1, <4>1, <4>2, <5>1
      <4>4. typed' = Append(typed, c)
        BY <2>3, <3>1, <3>5, <4>1, <4>3 DEF TypedNext
      <4>5. /\ typed \in Seq(PromptChars) /\ Len(typed) = p
            /\ \A i \in 1..p : typed[i] = tmp_buf[i - 1]
        BY <3>5 DEF PromptShown
      <4>6. /\ typed' \in Seq(PromptChars) /\ Len(typed') = p + 1
            /\ \A i \in 1..p : typed'[i] = typed[i]
            /\ typed'[p + 1] = c
        BY <4>4, <4>5, AppendProperties
      <4>7. \A i \in 1..(p + 1) : typed'[i] = tmp_buf'[i - 1]
        <5>1. \A i \in 1..(p + 1) : i \in 1..p \/ (i = p + 1 /\ i - 1 = p)
          BY <3>1
        <5> QED  BY <4>3, <4>5, <4>6, <5>1
      <4> QED  BY <2>1, <3>5, <4>1, <4>6, <4>7 DEF PromptShown
    <3>6. CASE at_prompt /\ at_prompt' /\ PromptDel
      <4>1. p > 0 /\ p' = p - 1 /\ tmp_buf' = tmp_buf
        BY <3>6 DEF PromptDel
      <4>2. typed' = SubSeq(typed, 1, p - 1)
        <5>1. typed' = Front(typed)
          BY <2>3, <3>1, <3>6, <4>1 DEF TypedNext
        <5>2. Len(typed) = p
          BY <3>6 DEF PromptShown
        <5> QED  BY <5>1, <5>2 DEF Front
      <4>3. /\ typed \in Seq(PromptChars) /\ Len(typed) = p
            /\ \A i \in 1..p : typed[i] = tmp_buf[i - 1]
        BY <3>6 DEF PromptShown
      <4>4. /\ typed' \in Seq(PromptChars) /\ Len(typed') = p - 1
            /\ \A i \in 1..(p - 1) : typed'[i] = typed[i]
        <5>1. \A i \in 1..(p - 1) : typed[i] \in PromptChars
          BY <3>1, <4>3, ElementOfSeq
        <5> QED  BY <3>1, <4>1, <4>2, <5>1, SubSeqProperties
      <4> QED  BY <2>1, <3>1, <3>6, <4>1, <4>3, <4>4 DEF PromptShown
    <3> QED  BY <2>1, <3>2, <3>3, <3>4, <3>5, <3>6, PromptSteps
  <2> QED  BY <2>1, <2>2, <2>3
<1> QED  BY <1>1, <1>2

\* Only ENTER behind "q!" ends the editor.
LEMMA ExitCommanded ==
  ASSUME {"q", "!"} \subseteq PromptChars
  PROVE  Inv /\ PromptShown /\ [QuitNext]_quitVars
           => [do_exit' # do_exit => at_prompt /\ typed = <<"q", "!">>]_quitVars
<1> SUFFICES ASSUME Inv, PromptShown, QuitNext, do_exit' # do_exit
             PROVE  at_prompt /\ typed = <<"q", "!">>
  OBVIOUS
<1>1. [Next]_vars
  BY QuitKeyIsKey DEF PromptShown
<1>2. PromptEnter
  BY <1>1 DEF Next, InsertCmd, CursorUp, CursorDown, CursorLeft, CursorRight, ColonCmd,
       PromptChar, PromptDel, PromptEsc, EditEsc, EditNewline, EditNewlineRefused,
       EditDel, EditType, Exited, vars
<1>3. at_prompt /\ QuitEntered
  <2>1. do_exit \in BOOLEAN
    BY DEF Inv, TypeOK
  <2> QED  BY <1>2, <2>1 DEF PromptEnter
<1>4. /\ typed \in Seq(PromptChars) /\ Len(typed) = 2
      /\ typed[1] = "q" /\ typed[2] = "!"
  BY <1>3 DEF PromptShown, QuitEntered
<1>5. typed = <<"q", "!">>
  BY <1>4
<1> QED  BY <1>3, <1>5

\* The editor, which does not save the text, ends only when the prompt line
\* reads exactly "q!" as ENTER is pressed (handle_colon_cmd).
THEOREM QuitOnlyOnCommandHolds ==
  ASSUME {"q", "!"} \subseteq PromptChars
  PROVE  QuitSpec => QuitOnlyOnCommand
<1>1. QuitInit => Inv /\ PromptShown
  <2>1. QuitInit => Inv
    BY InitInv DEF QuitInit
  <2>2. QuitInit => PromptShown
    BY DEF QuitInit, Init, PromptShown
  <2> QED  BY <2>1, <2>2
<1>2. Inv /\ PromptShown /\ [QuitNext]_quitVars => Inv' /\ PromptShown'
  <2>1. PromptShown /\ [QuitNext]_quitVars => [Next]_vars
    BY QuitKeyIsKey DEF PromptShown, quitVars
  <2> QED  BY <2>1, NextInv, QuitNextShown
<1> QED  BY <1>1, <1>2, ExitCommanded, PTL DEF QuitSpec, QuitOnlyOnCommand
=============================================================================
