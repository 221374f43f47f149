------------------------- MODULE EditorScreenProofs -------------------------
(***************************************************************************)
(* That the partial repairs of the key handlers keep the screen a picture  *)
(* of the text, for every screen size, line limit and alphabet.            *)
(***************************************************************************)
EXTENDS EditorProofs, EditorScreen, NaturalsInduction, WellFoundedInduction

-----------------------------------------------------------------------------
(* Induction, with a set in place of the predicate, and folds.             *)

\* A non-empty set of naturals has a least member.
LEMMA Least ==
  ASSUME NEW I \in SUBSET Nat, I # {}
  PROVE  \E m \in I : \A i \in I : m <= i
<1> DEFINE R == OpToRel(<, Nat)
<1>1. PICK m \in I : \A i \in I : <<i, m>> \notin R
  <2>1. IsWellFoundedOn(R, Nat)
    BY NatLessThanWellFounded
  <2> HIDE DEF R
  <2> QED
    BY <2>1, WFMin
<1>2. ASSUME NEW i \in I PROVE m <= i
  <2>1. i \in Nat /\ m \in Nat /\ <<i, m>> \in Nat \X Nat
    OBVIOUS
  <2>2. i < m => <<i, m>> \in R
    BY <2>1 DEF OpToRel
  <2> HIDE DEF R
  <2> QED
    BY <1>1, <2>1, <2>2
<1> QED
  BY <1>2

\* A set that holds 0 and with n also n + 1 holds every natural number.
LEMMA SetInduction ==
  ASSUME NEW S, 0 \in S, \A n \in Nat : n \in S => n + 1 \in S
  PROVE  \A n \in Nat : n \in S
<1> SUFFICES ASSUME Nat \ S # {} PROVE FALSE
  OBVIOUS
<1>1. PICK m \in Nat \ S : \A i \in Nat \ S : m <= i
  BY Least
<1>2. m # 0 /\ m - 1 \in Nat
  BY <1>1
<1>3. m - 1 \in S
  BY <1>1, <1>2
<1>4. m - 1 + 1 \in S
  BY <1>2, <1>3
<1> QED
  BY <1>1, <1>4

LEMMA GreatestIs ==
  ASSUME NEW S, NEW m \in S, \A k \in S : k \in Int /\ m >= k
  PROVE  Max(S) = m
<1>1. \A x \in S : (\A y \in S : x >= y) => x = m
  OBVIOUS
<1> QED
  BY <1>1 DEF Max

\* A non-empty set of indices has a greatest one.
LEMMA GreatestIn ==
  ASSUME NEW n \in Nat, NEW S \in SUBSET (1..n), S # {}
  PROVE  Max(S) \in S
<1> DEFINE I == {n - k : k \in S}
<1>1. I \in SUBSET Nat /\ I # {}
  <2>1. \A k \in S : n - k \in Nat
    OBVIOUS
  <2> QED
    BY <2>1
<1>2. PICK m \in I : \A i \in I : m <= i
  BY <1>1, Least
<1>3. PICK k \in S : m = n - k
  BY <1>2
<1>4. \A j \in S : n - k <= n - j
  BY <1>2, <1>3
<1>5. ASSUME NEW j \in S PROVE j \in Int /\ k >= j
  <2>1. j \in Int /\ k \in Int /\ n - k <= n - j
    BY <1>4
  <2> QED
    BY <2>1
<1> QED
  BY <1>5, GreatestIs

\* h gives every set of the indices 1..n the value F makes of the value of
\* the set without its greatest index, and of that index.
Folded(h, b, n, F) ==
  \A s \in SUBSET (1..n) :
    h[s] = IF s = {} THEN b ELSE F[<<h[s \ {Max(s)}], Max(s)>>]

\* What a fold computes exists.
LEMMA FoldExists ==
  ASSUME NEW X, NEW b \in X, NEW n \in Nat, NEW F \in [X \X (1..n) -> X]
  PROVE  \E h \in [SUBSET (1..n) -> X] : Folded(h, b, n, F)
<1> DEFINE Values(k) == {h \in [SUBSET (1..k) -> X] : Folded(h, b, k, F)}
           S == {k \in Nat : k <= n => Values(k) # {}}
<1>1. 0 \in S
  <2> DEFINE h == [s \in SUBSET (1..0) |-> b]
  <2>1. \A s \in SUBSET (1..0) : s = {}
    OBVIOUS
  <2>2. h \in Values(0)
    BY <2>1 DEF Folded
  <2> HIDE DEF h, Values
  <2> QED
    BY <2>2
<1>2. ASSUME NEW k \in Nat, k \in S PROVE k + 1 \in S
  <2> HIDE DEF Values
  <2> SUFFICES ASSUME k + 1 <= n PROVE Values(k + 1) # {}
    OBVIOUS
  <2>1. PICK g : g \in Values(k)
    BY <1>2
  <2> USE DEF Values
  <2>7. g \in [SUBSET (1..k) -> X]
    BY <2>1
  <2> DEFINE h == [s \in SUBSET (1..(k + 1)) |->
                     IF k + 1 \in s THEN F[<<g[s \ {k + 1}], k + 1>>] ELSE g[s]]
  <2>2. ASSUME NEW s \in SUBSET (1..(k + 1)), k + 1 \in s
        PROVE  /\ s \ {k + 1} \in SUBSET (1..k) /\ s \ {k + 1} \in SUBSET (1..(k + 1))
               /\ Max(s) = k + 1
    <3>1. \A i \in s : i \in Int /\ k + 1 >= i /\ (i # k + 1 => i \in 1..k)
      OBVIOUS
    <3>2. Max(s) = k + 1
      BY <3>1, <2>2, GreatestIs
    <3> QED
      BY <3>1, <3>2
  <2>3. ASSUME NEW s \in SUBSET (1..(k + 1)), k + 1 \notin s
        PROVE  s \in SUBSET (1..k)
    BY <2>3
  <2>4. h \in [SUBSET (1..(k + 1)) -> X]
    <3> SUFFICES ASSUME NEW s \in SUBSET (1..(k + 1)) PROVE h[s] \in X
      OBVIOUS
    <3>1. CASE k + 1 \in s
      <4>1. g[s \ {k + 1}] \in X /\ k + 1 \in 1..n
        BY <2>2, <2>7, <3>1
      <4>2. F[<<g[s \ {k + 1}], k + 1>>] \in X
        BY <4>1
      <4> QED
        BY <3>1, <4>2
    <3>2. CASE k + 1 \notin s
      BY <2>3, <2>7, <3>2
    <3> QED
      BY <3>1, <3>2
  <2>5. ASSUME NEW s \in SUBSET (1..(k + 1))
        PROVE  h[s] = IF s = {} THEN b ELSE F[<<h[s \ {Max(s)}], Max(s)>>]
    <3>1. CASE k + 1 \in s
      <4>1. s \ {k + 1} \in SUBSET (1..(k + 1)) /\ Max(s) = k + 1
        BY <2>2, <3>1
      <4>2. h[s \ {k + 1}] = g[s \ {k + 1}]
        BY <4>1
      <4>3. h[s] = F[<<g[s \ {k + 1}], k + 1>>]
        BY <3>1
      <4> QED
        BY <3>1, <4>1, <4>2, <4>3
    <3>2. CASE k + 1 \notin s /\ s # {}
      <4>1. s \in SUBSET (1..k)
        BY <2>3, <3>2
      <4>2. Max(s) \in s
        BY <4>1, <3>2, GreatestIn
      <4>3. h[s] = g[s] /\ g[s] = F[<<g[s \ {Max(s)}], Max(s)>>]
        BY <2>1, <3>2, <4>1 DEF Folded
      <4>4. s \ {Max(s)} \in SUBSET (1..(k + 1)) /\ k + 1 \notin s \ {Max(s)}
        BY <3>2
      <4>5. h[s \ {Max(s)}] = g[s \ {Max(s)}]
        BY <4>4
      <4> QED
        BY <3>2, <4>3, <4>5
    <3>3. CASE s = {}
      <4>1. h[s] = g[s] /\ s \in SUBSET (1..k)
        BY <3>3
      <4> QED
        BY <2>1, <3>3, <4>1 DEF Folded
    <3> QED
      BY <3>1, <3>2, <3>3
  <2> HIDE DEF h
  <2>6. h \in Values(k + 1)
    BY <2>4, <2>5 DEF Folded
  <2> HIDE DEF Values
  <2> QED
    BY <2>6
<1> HIDE DEF Values
<1>3. \A k \in Nat : k \in S
  <2> HIDE DEF S
  <2> QED
    BY <1>1, <1>2, SetInduction
<1>4. Values(n) # {}
  BY <1>3
<1> QED
  BY <1>4 DEF Values

\* The indices up to i, and those before i.
LEMMA PrefixFacts ==
  ASSUME NEW n \in Nat, NEW i \in 1..n
  PROVE  /\ 1..i \in SUBSET (1..n) /\ 1..i # {}
         /\ Max(1..i) = i /\ (1..i) \ {i} = 1..(i - 1)
<1>1. i \in 1..i /\ \A k \in 1..i : k \in Int /\ i >= k /\ k \in 1..n
  OBVIOUS
<1>2. Max(1..i) = i
  BY <1>1, GreatestIs
<1>3. 1..i \in SUBSET (1..n) /\ 1..i # {}
  BY <1>1
<1>4. (1..i) \ {i} = 1..(i - 1)
  OBVIOUS
<1> QED
  BY <1>2, <1>3, <1>4

-----------------------------------------------------------------------------
(* Drawing on the screen.                                                  *)

\* The characters of a string are written one after the other.
LEMMA WriteInOrder ==
  ASSUME NEW X, NEW G, NEW t \in X, NEW gs \in Seq(G),
         \A u \in X : \A g \in G : TERM_pcw_write_char(u, g) \in X
  PROVE  \E w \in [0..Len(gs) -> X] :
           /\ w[0] = t
           /\ \A i \in 1..Len(gs) : w[i] = TERM_pcw_write_char(w[i - 1], gs[i])
           /\ TERM_pcw_write_chars(t, gs) = w[Len(gs)]
<1> DEFINE n == Len(gs)
           F == [a \in X \X (1..n) |-> TERM_pcw_write_char(a[1], gs[a[2]])]
           Step(h) == [s \in SUBSET (1..n) |->
                         IF s = {} THEN t
                         ELSE TERM_pcw_write_char(h[s \ {Max(s)}], gs[Max(s)])]
           all == CHOOSE h : h = Step(h)
           w == [i \in 0..n |-> all[1..i]]
<1>1. n \in Nat /\ DOMAIN gs = 1..n /\ F \in [X \X (1..n) -> X]
  OBVIOUS
<1>2. PICK h \in [SUBSET (1..n) -> X] : Folded(h, t, n, F)
  <2> HIDE DEF F, n
  <2> QED
    BY <1>1, FoldExists
<1>3. ASSUME NEW s \in SUBSET (1..n), s # {}
      PROVE  F[<<h[s \ {Max(s)}], Max(s)>>] = TERM_pcw_write_char(h[s \ {Max(s)}], gs[Max(s)])
  <2>1. Max(s) \in 1..n
    BY <1>1, <1>3, GreatestIn
  <2>2. h[s \ {Max(s)}] \in X
    BY <1>2
  <2> QED
    BY <2>1, <2>2
<1>4. h = Step(h)
  <2>1. \A s \in SUBSET (1..n) : h[s] = Step(h)[s]
    BY <1>2, <1>3 DEF Folded
  <2> QED
    BY <2>1, <1>2
<1>5. all = Step(all)
  <2> HIDE DEF Step
  <2> QED
    BY <1>4
<1>6. TERM_pcw_write_chars(t, gs) = all[1..n]
  BY <1>1 DEF TERM_pcw_write_chars, FoldLeft, MapThenFoldSet
<1>7. ASSUME NEW i \in 1..n
      PROVE  all[1..i] = TERM_pcw_write_char(all[1..(i - 1)], gs[i])
  <2>1. /\ 1..i \in SUBSET (1..n) /\ 1..i # {}
        /\ Max(1..i) = i /\ (1..i) \ {i} = 1..(i - 1)
    BY <1>1, PrefixFacts
  <2>2. all[1..i] = Step(all)[1..i]
    BY <1>5
  <2> HIDE DEF all
  <2> QED
    BY <2>1, <2>2
<1>8. all[1..0] = t
  <2>1. all[1..0] = Step(all)[1..0]
    BY <1>5
  <2>2. 1..0 = {}
    OBVIOUS
  <2> HIDE DEF all
  <2> QED
    BY <2>1, <2>2
<1> HIDE DEF all
<1>9. w[0] = t /\ w[n] = all[1..n] /\ \A i \in 1..n : w[i] = TERM_pcw_write_char(w[i - 1], gs[i])
  BY <1>1, <1>7, <1>8
<1>10. w \in [0..n -> X]
  <2> DEFINE S == {i \in Nat : i <= n => w[i] \in X}
  <2>1. 0 \in S
    BY <1>9
  <2>2. ASSUME NEW i \in Nat, i \in S PROVE i + 1 \in S
    <3> SUFFICES ASSUME i + 1 <= n PROVE w[i + 1] \in X
      OBVIOUS
    <3>1. w[i] \in X /\ i + 1 \in 1..n
      BY <2>2, <1>1
    <3>2. gs[i + 1] \in G
      BY <3>1
    <3>4. i + 1 - 1 = i
      OBVIOUS
    <3> HIDE DEF w, n
    <3>3. w[i + 1] = TERM_pcw_write_char(w[i + 1 - 1], gs[i + 1])
      BY <3>1, <1>9
    <3> QED
      BY <3>1, <3>2, <3>3, <3>4
  <2>3. \A i \in Nat : i \in S
    <3> HIDE DEF S
    <3> QED
      BY <2>1, <2>2, SetInduction
  <2>4. ASSUME NEW i \in 0..n PROVE w[i] \in X
    <3> HIDE DEF w, n
    <3> QED
      BY <2>3, <1>1
  <2> QED
    BY <2>4
<1> HIDE DEF w
<1> QED
  BY <1>6, <1>9, <1>10

\* What a cell may hold, and a row of such cells.
Glyph == Cells \cup StatusGlyphs \cup {NoLineGlyph}

Columns == 0..(PortW - 1)
Rows    == 0..(PortH - 2)

Row == [Columns -> Glyph]

EmptyRow == [c \in Columns |-> Blank]

\* The screens the editor draws; on the last row only the prompt writes.
Screen ==
  {t \in [top : Nat, height : Nat, width : {PortW},
          pos : {Lost} \cup (Columns \X Nat), cell : [0..(PortH - 1) -> Row]] :
     \A c \in Columns : t.cell[PortH - 1][c] \in StatusGlyphs}

\* The viewport is the text's: all rows but the last.
TextView ==
  {t \in Screen : /\ t.top = 0 /\ t.height = PortH - 1
                  /\ t.pos \in {Lost} \cup (Columns \X Rows)}

LEMMA SizeFacts ==
  /\ PortH \in Nat /\ PortH > 1 /\ PortW \in Nat /\ PortW > 1
  /\ MaxLineLen \in Nat /\ MaxLineLen < PortW /\ InitSize \in Nat /\ InitSize < MaxLineLen
  /\ TmpBufLen \in Nat /\ TmpBufLen + 1 < PortW
BY SizeAssumption, PromptAssumption

\* The parts of a screen in the text's viewport.
LEMMA ViewFacts ==
  ASSUME NEW t \in TextView
  PROVE  /\ t = [top |-> 0, height |-> PortH - 1, width |-> PortW,
                 pos |-> t.pos, cell |-> t.cell]
         /\ t.top = 0 /\ t.height = PortH - 1 /\ t.width = PortW
         /\ t.pos \in {Lost} \cup (Columns \X Rows)
         /\ t.cell \in [0..(PortH - 1) -> Row]
         /\ \A c \in Columns : t.cell[PortH - 1][c] \in StatusGlyphs
BY DEF TextView, Screen

\* A screen with those parts is one.
LEMMA MakeView ==
  ASSUME NEW pos \in {Lost} \cup (Columns \X Rows),
         NEW cell \in [0..(PortH - 1) -> Row],
         \A c \in Columns : cell[PortH - 1][c] \in StatusGlyphs
  PROVE  [top |-> 0, height |-> PortH - 1, width |-> PortW, pos |-> pos, cell |-> cell]
           \in TextView
BY SizeFacts DEF TextView, Screen, Rows

\* A cell of which nothing is known is no text.
LEMMA GarbledView ==
  ASSUME NEW t \in TextView
  PROVE  Garbled(t) \in TextView
<1> DEFINE cell == [r \in 0..(PortH - 1) |-> [c \in Columns |-> Noise]]
<1>1. /\ t = [top |-> 0, height |-> PortH - 1, width |-> PortW, pos |-> t.pos, cell |-> t.cell]
      /\ t.pos \in {Lost} \cup (Columns \X Rows)
      /\ t.cell \in [0..(PortH - 1) -> Row]
  BY ViewFacts
<1>2. Garbled(t) = [top |-> 0, height |-> PortH - 1, width |-> PortW, pos |-> t.pos, cell |-> cell]
  <2>1. \A r \in 0..(PortH - 1) : DOMAIN t.cell[r] = Columns
    BY <1>1 DEF Row
  <2>2. [r \in DOMAIN t.cell |-> [c \in DOMAIN t.cell[r] |-> Noise]] = cell
    BY <1>1, <2>1
  <2>3. Garbled(t) = [t EXCEPT !.cell = cell]
    BY <2>2 DEF Garbled
  <2> HIDE DEF cell
  <2> QED
    BY <1>1, <2>3
<1>3. /\ cell \in [0..(PortH - 1) -> Row]
      /\ \A c \in Columns : cell[PortH - 1][c] \in StatusGlyphs
  BY SizeFacts DEF Row, Glyph, StatusGlyphs
<1> HIDE DEF cell
<1> QED
  BY <1>1, <1>2, <1>3, MakeView

\* The cursor moved: inside the viewport it is where it was sent.
LEMMA MoveView ==
  ASSUME NEW t \in TextView, NEW x \in Int, NEW y \in Int
  PROVE  /\ TERM_pcw_move_cursor(t, x, y) \in TextView
         /\ TERM_pcw_move_cursor(t, x, y).cell = t.cell
         /\ x \in Columns /\ y \in Rows => TERM_pcw_move_cursor(t, x, y).pos = <<x, y>>
<1> DEFINE pos == IF x \in Columns /\ y \in Rows THEN <<x, y>> ELSE Lost
<1>1. /\ t = [top |-> 0, height |-> PortH - 1, width |-> PortW, pos |-> t.pos, cell |-> t.cell]
      /\ t.cell \in [0..(PortH - 1) -> Row]
      /\ \A c \in Columns : t.cell[PortH - 1][c] \in StatusGlyphs
  BY ViewFacts
<1>2. t.width - 1 = PortW - 1 /\ t.height - 1 = PortH - 2
  BY <1>1, SizeFacts, ViewFacts
<1>3. TERM_pcw_move_cursor(t, x, y) = [t EXCEPT !.pos = pos]
  BY <1>2 DEF TERM_pcw_move_cursor, Columns, Rows
<1>4. pos \in {Lost} \cup (Columns \X Rows)
  OBVIOUS
<1>5. [t EXCEPT !.pos = pos]
        = [top |-> 0, height |-> PortH - 1, width |-> PortW, pos |-> pos, cell |-> t.cell]
  BY <1>1
<1>6. x \in Columns /\ y \in Rows => pos = <<x, y>>
  OBVIOUS
<1> HIDE DEF pos
<1> QED
  BY <1>1, <1>3, <1>4, <1>5, <1>6, MakeView

\* A row of the viewport drawn anew, and the cursor put somewhere.
Drawn(t, y, row, pos) ==
  [top |-> 0, height |-> PortH - 1, width |-> PortW, pos |-> pos,
   cell |-> [t.cell EXCEPT ![y] = row]]

LEMMA DrawnView ==
  ASSUME NEW t \in TextView, NEW y \in Rows, NEW row \in Row,
         NEW pos \in {Lost} \cup (Columns \X Rows)
  PROVE  Drawn(t, y, row, pos) \in TextView
<1> DEFINE cell == [t.cell EXCEPT ![y] = row]
<1>1. cell \in [0..(PortH - 1) -> Row] /\ cell[PortH - 1] = t.cell[PortH - 1]
  BY ViewFacts, SizeFacts DEF Rows
<1>2. \A c \in Columns : cell[PortH - 1][c] \in StatusGlyphs
  BY <1>1, ViewFacts
<1> HIDE DEF cell
<1>3. [top |-> 0, height |-> PortH - 1, width |-> PortW, pos |-> pos, cell |-> cell] \in TextView
  BY <1>1, <1>2, MakeView
<1> QED
  BY <1>3 DEF cell, Drawn

\* The row the cursor is on, erased from its first column.
LEMMA EraseView ==
  ASSUME NEW t \in TextView
  PROVE  /\ TERM_pcw_erase_line_end(t) \in TextView
         /\ \A y \in Rows : t.pos = <<0, y>> =>
              TERM_pcw_erase_line_end(t) = Drawn(t, y, EmptyRow, <<0, y>>)
<1>0. /\ t = [top |-> 0, height |-> PortH - 1, width |-> PortW, pos |-> t.pos, cell |-> t.cell]
      /\ t.cell \in [0..(PortH - 1) -> Row]
  BY ViewFacts
<1>1. CASE t.pos = Lost
  <2>1. \A y \in Rows : t.pos # <<0, y>>
    BY <1>1, LostAssumption, SizeFacts DEF Rows
  <2> QED
    BY <1>1, <2>1, GarbledView DEF TERM_pcw_erase_line_end
<1>2. CASE t.pos # Lost
  <2>1. PICK x \in Columns, y \in Rows : t.pos = <<x, y>>
    BY <1>2, ViewFacts
  <2> DEFINE row == [c \in Columns |-> IF c < x THEN t.cell[y][c] ELSE Blank]
  <2>2. /\ t.top + y = y /\ y \in 0..(PortH - 1) /\ t.cell[y] \in Row /\ DOMAIN t.cell[y] = Columns
        /\ \A c \in Columns : c < t.width
    <3>1. t.top = 0 /\ t.width = PortW /\ t.cell \in [0..(PortH - 1) -> Row]
      BY <1>0
    <3>2. y \in 0..(PortH - 1) /\ y \in Int
      BY <2>1, SizeFacts DEF Rows
    <3>3. t.cell[y] \in Row
      BY <3>1, <3>2
    <3>4. DOMAIN t.cell[y] = Columns
      BY <3>3 DEF Row
    <3>5. \A c \in Columns : c < t.width
      BY <3>1, SizeFacts DEF Columns
    <3> QED
      BY <3>1, <3>2, <3>3, <3>4, <3>5
  <2>3. BlankRow(t, y) = EmptyRow
    BY <2>2 DEF BlankRow, EmptyRow
  <2>4. [c \in DOMAIN t.cell[t.top + y] |->
          IF c < t.pos[1] THEN t.cell[t.top + y][c] ELSE BlankRow(t, y)[c]] = row
    BY <2>1, <2>2, <2>3 DEF EmptyRow
  <2>5. TERM_pcw_erase_line_end(t) = [t EXCEPT !.cell[y] = row]
    BY <1>2, <2>1, <2>2, <2>4 DEF TERM_pcw_erase_line_end, WithRow
  <2>6. row \in Row
    BY <2>2 DEF Row, Glyph, StatusGlyphs
  <2>7. x = 0 => row = EmptyRow
    BY DEF EmptyRow, Columns
  <2> HIDE DEF row
  <2>8. TERM_pcw_erase_line_end(t) = Drawn(t, y, row, t.pos)
    BY <1>0, <2>5 DEF Drawn
  <2> QED
    BY <2>1, <2>6, <2>7, <2>8, DrawnView
<1> QED
  BY <1>1, <1>2

\* Scrolling moves rows of the viewport and empties the one that comes in.
LEMMA ScrolledView ==
  ASSUME NEW t \in TextView, NEW d \in {-1, 1}
  PROVE  /\ Scrolled(t, d) \in TextView
         /\ Scrolled(t, d).pos = t.pos
         /\ \A r \in Rows : r + d \in Rows => Scrolled(t, d).cell[r] = t.cell[r + d]
<1> DEFINE cell == [r \in 0..(PortH - 1) |->
                      IF r \notin Rows THEN t.cell[r]
                      ELSE IF r + d \in Rows THEN t.cell[r + d] ELSE EmptyRow]
<1>0. /\ t = [top |-> 0, height |-> PortH - 1, width |-> PortW, pos |-> t.pos, cell |-> t.cell]
      /\ t.cell \in [0..(PortH - 1) -> Row]
      /\ t.pos \in {Lost} \cup (Columns \X Rows)
      /\ \A c \in Columns : t.cell[PortH - 1][c] \in StatusGlyphs
  BY ViewFacts
<1>1. /\ t.top..(t.top + t.height - 1) = Rows /\ DOMAIN t.cell = 0..(PortH - 1)
      /\ \A r \in Int : t.top + (r - t.top) = r
      /\ \A r \in 0..(PortH - 1) : t.cell[r] \in Row /\ DOMAIN t.cell[r] = Columns
      /\ \A c \in Columns : c < t.width
  <2>1. t.top = 0 /\ t.height = PortH - 1 /\ t.width = PortW /\ t.cell \in [0..(PortH - 1) -> Row]
    BY <1>0
  <2>2. t.top..(t.top + t.height - 1) = Rows
    BY <2>1, SizeFacts DEF Rows
  <2>3. \A r \in Int : t.top + (r - t.top) = r
    BY <2>1
  <2>4. \A r \in 0..(PortH - 1) : t.cell[r] \in Row
    BY <2>1
  <2>5. \A r \in 0..(PortH - 1) : DOMAIN t.cell[r] = Columns
    BY <2>4 DEF Row
  <2>6. \A c \in Columns : c < t.width
    BY <2>1, SizeFacts DEF Columns
  <2> QED
    BY <2>1, <2>2, <2>3, <2>4, <2>5, <2>6
<1>2. \A r \in 0..(PortH - 1) : BlankRow(t, r - t.top) = EmptyRow
  BY <1>1 DEF BlankRow, EmptyRow
<1>3. Scrolled(t, d) = [t EXCEPT !.cell = cell]
  BY <1>1, <1>2 DEF Scrolled
<1>4. EmptyRow \in Row /\ \A r \in Rows : r \in 0..(PortH - 1)
  BY SizeFacts DEF EmptyRow, Row, Glyph, StatusGlyphs, Rows
<1>5. cell \in [0..(PortH - 1) -> Row]
  <2>1. \A r \in 0..(PortH - 1) : cell[r] \in Row
    BY <1>1, <1>4
  <2> QED
    BY <2>1
<1>6. PortH - 1 \notin Rows /\ PortH - 1 \in 0..(PortH - 1)
  BY SizeFacts DEF Rows
<1>7. cell[PortH - 1] = t.cell[PortH - 1]
  BY <1>6
<1>8. \A r \in Rows : r + d \in Rows => cell[r] = t.cell[r + d]
  BY <1>4
<1> HIDE DEF cell
<1>9. Scrolled(t, d)
        = [top |-> 0, height |-> PortH - 1, width |-> PortW, pos |-> t.pos, cell |-> cell]
  BY <1>0, <1>3
<1>10. \A c \in Columns : cell[PortH - 1][c] \in StatusGlyphs
  BY <1>0, <1>7
<1>11. [top |-> 0, height |-> PortH - 1, width |-> PortW, pos |-> t.pos, cell |-> cell] \in TextView
  BY <1>0, <1>5, <1>10, MakeView
<1> QED
  BY <1>8, <1>9, <1>11

\* A new cursor, nothing drawn.
LEMMA PlacedView ==
  ASSUME NEW t \in TextView, NEW pos \in {Lost} \cup (Columns \X Rows)
  PROVE  [t EXCEPT !.pos = pos] \in TextView
<1>1. /\ t = [top |-> 0, height |-> PortH - 1, width |-> PortW, pos |-> t.pos, cell |-> t.cell]
      /\ t.cell \in [0..(PortH - 1) -> Row]
      /\ \A c \in Columns : t.cell[PortH - 1][c] \in StatusGlyphs
  BY ViewFacts
<1>2. [t EXCEPT !.pos = pos]
        = [top |-> 0, height |-> PortH - 1, width |-> PortW, pos |-> pos, cell |-> t.cell]
  BY <1>1
<1> QED
  BY <1>1, <1>2, MakeView

\* Up from the first row scrolls down (reverse line feed).
LEMMA UpView ==
  ASSUME NEW t \in TextView
  PROVE  /\ TERM_pcw_cursor_move_up_scroll(t) \in TextView
         /\ t.pos = <<0, 0>> => TERM_pcw_cursor_move_up_scroll(t) = Scrolled(t, -1)
<1>1. CASE t.pos = Lost
  <2>1. t.pos # <<0, 0>>
    BY <1>1, LostAssumption
  <2> QED
    BY <1>1, <2>1, GarbledView DEF TERM_pcw_cursor_move_up_scroll
<1>2. CASE t.pos # Lost
  <2>1. PICK x \in Columns, y \in Rows : t.pos = <<x, y>>
    BY <1>2, ViewFacts
  <2>2. CASE y = 0
    BY <1>2, <2>1, <2>2, ScrolledView DEF TERM_pcw_cursor_move_up_scroll
  <2>3. CASE y # 0
    <3>1. y - 1 \in Rows
      BY <2>3, SizeFacts DEF Rows
    <3>2. TERM_pcw_cursor_move_up_scroll(t) = [t EXCEPT !.pos = <<x, y - 1>>]
      BY <1>2, <2>1, <2>3 DEF TERM_pcw_cursor_move_up_scroll
    <3> QED
      BY <2>1, <2>3, <3>1, <3>2, PlacedView
  <2> QED
    BY <2>2, <2>3
<1> QED
  BY <1>1, <1>2

\* A line feed on the last row scrolls up.
LEMMA LineFeedView ==
  ASSUME NEW t \in TextView
  PROVE  /\ LineFeed(t) \in TextView
         /\ t.pos = <<0, PortH - 2>> => LineFeed(t) = Scrolled(t, 1)
<1>1. CASE t.pos = Lost
  <2>1. t.pos # <<0, PortH - 2>>
    BY <1>1, LostAssumption, SizeFacts
  <2> QED
    BY <1>1, <2>1, GarbledView DEF LineFeed
<1>2. CASE t.pos # Lost
  <2>1. PICK x \in Columns, y \in Rows : t.pos = <<x, y>>
    BY <1>2, ViewFacts
  <2>0. t.height - 1 = PortH - 2
    BY ViewFacts, SizeFacts
  <2>2. CASE y = PortH - 2
    BY <1>2, <2>0, <2>1, <2>2, ScrolledView DEF LineFeed
  <2>3. CASE y # PortH - 2
    <3>1. y + 1 \in Rows
      BY <2>3, SizeFacts DEF Rows
    <3>2. LineFeed(t) = [t EXCEPT !.pos = <<x, y + 1>>]
      BY <1>2, <2>0, <2>1, <2>3 DEF LineFeed
    <3> QED
      BY <2>1, <2>3, <3>1, <3>2, PlacedView
  <2> QED
    BY <2>2, <2>3
<1> QED
  BY <1>1, <1>2

\* A character is drawn at the cursor, which goes on to the next column.
LEMMA WriteView ==
  ASSUME NEW t \in TextView, NEW g \in Glyph
  PROVE  /\ TERM_pcw_write_char(t, g) \in TextView
         /\ \A x \in Columns, y \in Rows :
              t.pos = <<x, y>> /\ x + 1 < PortW =>
                TERM_pcw_write_char(t, g)
                  = Drawn(t, y, [t.cell[y] EXCEPT ![x] = g], <<x + 1, y>>)
<1>1. CASE t.pos = Lost
  <2>1. \A x \in Columns, y \in Rows : t.pos # <<x, y>>
    BY <1>1, LostAssumption, SizeFacts DEF Columns, Rows
  <2> QED
    BY <1>1, <2>1, GarbledView DEF TERM_pcw_write_char
<1>2. CASE t.pos # Lost
  <2>1. PICK x \in Columns, y \in Rows : t.pos = <<x, y>>
    BY <1>2, ViewFacts
  <2> DEFINE row == [t.cell[y] EXCEPT ![x] = g]
             drawn == [t EXCEPT !.cell[y] = row]
  <2>2. t.top + t.pos[2] = y /\ t.pos[1] = x /\ t.width = PortW
    BY <2>1, ViewFacts DEF Rows
  <2>3. t.cell[y] \in Row /\ row \in Row
    BY ViewFacts, SizeFacts DEF Row, Rows
  <2>4. [t EXCEPT !.cell[t.top + t.pos[2]][x] = g] = drawn
    BY <2>2
  <2>5. /\ t = [top |-> 0, height |-> PortH - 1, width |-> PortW, pos |-> t.pos, cell |-> t.cell]
        /\ t.cell \in [0..(PortH - 1) -> Row]
    BY ViewFacts
  <2> HIDE DEF row
  <2>10. drawn = Drawn(t, y, row, <<x, y>>)
    BY <2>1, <2>5 DEF Drawn
  <2>6. \A q : [Drawn(t, y, row, <<x, y>>) EXCEPT !.pos = q] = Drawn(t, y, row, q)
    BY DEF Drawn
  <2>7. \A q : [Drawn(t, y, row, <<x, y>>) EXCEPT !.pos[1] = q] = Drawn(t, y, row, <<q, y>>)
    BY DEF Drawn
  <2> HIDE DEF drawn
  <2>8. CASE x + 1 < PortW
    <3>1. x + 1 \in Columns
      BY <2>8, SizeFacts DEF Columns
    <3>2. TERM_pcw_write_char(t, g) = [drawn EXCEPT !.pos[1] = x + 1]
      BY <1>2, <2>2, <2>4, <2>8 DEF TERM_pcw_write_char
    <3>4. TERM_pcw_write_char(t, g) = Drawn(t, y, row, <<x + 1, y>>)
      BY <2>7, <2>10, <3>2
    <3> QED
      BY <2>1, <2>3, <3>1, <3>4, DrawnView DEF row
  <2>9. CASE ~(x + 1 < PortW)
    <3>1. 0 \in Columns
      BY SizeFacts DEF Columns
    <3>2. TERM_pcw_write_char(t, g) = LineFeed([drawn EXCEPT !.pos[1] = 0])
      BY <1>2, <2>2, <2>4, <2>9 DEF TERM_pcw_write_char
    <3>4. Drawn(t, y, row, <<0, y>>) \in TextView
      BY <2>3, <3>1, DrawnView
    <3>5. TERM_pcw_write_char(t, g) = LineFeed(Drawn(t, y, row, <<0, y>>))
      BY <2>7, <2>10, <3>2
    <3> QED
      BY <2>1, <2>9, <3>4, <3>5, LineFeedView
  <2> QED
    BY <2>8, <2>9
<1> QED
  BY <1>1, <1>2

\* The parts of a screen with a row drawn anew, and that row drawn again.
LEMMA DrawnFacts ==
  ASSUME NEW t \in TextView, NEW y \in Rows, NEW row, NEW pos
  PROVE  /\ Drawn(t, y, row, pos).pos = pos
         /\ Drawn(t, y, row, pos).cell[y] = row
         /\ \A r \in 0..(PortH - 1) : r # y => Drawn(t, y, row, pos).cell[r] = t.cell[r]
         /\ \A other, place : Drawn(Drawn(t, y, row, pos), y, other, place)
                                = Drawn(t, y, other, place)
<1>1. t.cell \in [0..(PortH - 1) -> Row] /\ y \in 0..(PortH - 1)
  BY ViewFacts, SizeFacts DEF Rows
<1>2. \A other : [[t.cell EXCEPT ![y] = row] EXCEPT ![y] = other] = [t.cell EXCEPT ![y] = other]
  BY <1>1
<1> QED
  BY <1>1, <1>2 DEF Drawn

\* The first n of the glyphs written over a row.
Over(row, gs, n) == [c \in Columns |-> IF c < n THEN gs[c + 1] ELSE row[c]]

\* A string short enough not to wrap is drawn from the first column on.
LEMMA WriteCharsView ==
  ASSUME NEW t \in TextView, NEW gs \in Seq(Glyph)
  PROVE  /\ TERM_pcw_write_chars(t, gs) \in TextView
         /\ \A y \in Rows :
              t.pos = <<0, y>> /\ Len(gs) < PortW =>
                TERM_pcw_write_chars(t, gs)
                  = Drawn(t, y, Over(t.cell[y], gs, Len(gs)), <<Len(gs), y>>)
<1> DEFINE n == Len(gs)
<1>1. n \in Nat /\ \A i \in 1..n : gs[i] \in Glyph
  OBVIOUS
<1>2. \A u \in TextView : \A g \in Glyph : TERM_pcw_write_char(u, g) \in TextView
  BY WriteView
<1>3. PICK w \in [0..n -> TextView] :
        /\ w[0] = t
        /\ \A i \in 1..n : w[i] = TERM_pcw_write_char(w[i - 1], gs[i])
        /\ TERM_pcw_write_chars(t, gs) = w[n]
  BY <1>2, WriteInOrder
<1>4. ASSUME NEW y \in Rows, t.pos = <<0, y>>, n < PortW
      PROVE  w[n] = Drawn(t, y, Over(t.cell[y], gs, n), <<n, y>>)
  <2> DEFINE part(i) == Drawn(t, y, Over(t.cell[y], gs, i), <<i, y>>)
             S == {i \in Nat : i <= n => w[i] = part(i)}
  <2>1. t.cell[y] \in Row
    BY ViewFacts, SizeFacts DEF Rows
  <2>2. ASSUME NEW i \in 0..n
        PROVE  i \in Columns /\ Over(t.cell[y], gs, i) \in Row
    BY <1>1, <1>4, <2>1, SizeFacts DEF Columns, Row, Over
  <2>3. 0 \in S
    <3>1. Over(t.cell[y], gs, 0) = t.cell[y]
      BY <2>1, SizeFacts DEF Over, Row, Columns
    <3>2. t = [top |-> 0, height |-> PortH - 1, width |-> PortW, pos |-> <<0, y>>, cell |-> t.cell]
      BY <1>4, ViewFacts
    <3>3. [t.cell EXCEPT ![y] = t.cell[y]] = t.cell
      BY ViewFacts
    <3>4. part(0) = t
      BY <3>1, <3>2, <3>3 DEF Drawn
    <3> QED
      BY <1>3, <3>4
  <2>4. ASSUME NEW i \in Nat, i \in S PROVE i + 1 \in S
    <3> SUFFICES ASSUME i + 1 <= n PROVE w[i + 1] = part(i + 1)
      OBVIOUS
    <3>1. /\ i \in 0..n /\ i + 1 \in 0..n /\ i + 1 \in 1..n /\ i + 1 - 1 = i /\ i + 1 < PortW
          /\ i \in Columns /\ gs[i + 1] \in Glyph
      BY <1>1, <1>4, SizeFacts DEF Columns
    <3>2. w[i] = part(i)
      BY <2>4, <3>1
    <3> HIDE DEF S
    <3>3. w[i + 1] = TERM_pcw_write_char(part(i), gs[i + 1])
      BY <1>3, <3>1, <3>2
    <3>4. part(i) \in TextView /\ part(i).pos = <<i, y>> /\ part(i).cell[y] = Over(t.cell[y], gs, i)
      <4>1. <<i, y>> \in Columns \X Rows
        BY <3>1
      <4> QED
        BY <2>2, <3>1, <4>1, DrawnView, DrawnFacts
    <3>5. [Over(t.cell[y], gs, i) EXCEPT ![i] = gs[i + 1]] = Over(t.cell[y], gs, i + 1)
      <4>1. \A c \in Columns :
              (IF c < i + 1 THEN gs[c + 1] ELSE t.cell[y][c])
                = IF c = i THEN gs[i + 1] ELSE IF c < i THEN gs[c + 1] ELSE t.cell[y][c]
        BY <3>1 DEF Columns
      <4> QED
        BY <3>1, <4>1 DEF Over
    <3> HIDE DEF part
    <3>8. \A x \in Columns, r \in Rows :
            part(i).pos = <<x, r>> /\ x + 1 < PortW =>
              TERM_pcw_write_char(part(i), gs[i + 1])
                = Drawn(part(i), r, [part(i).cell[r] EXCEPT ![x] = gs[i + 1]], <<x + 1, r>>)
      BY <3>1, <3>4, WriteView
    <3>6. TERM_pcw_write_char(part(i), gs[i + 1])
            = Drawn(part(i), y, Over(t.cell[y], gs, i + 1), <<i + 1, y>>)
      BY <3>1, <3>4, <3>5, <3>8
    <3> USE DEF part
    <3>7. Drawn(part(i), y, Over(t.cell[y], gs, i + 1), <<i + 1, y>>) = part(i + 1)
      BY DrawnFacts
    <3> QED
      BY <3>3, <3>6, <3>7
  <2>5. n \in S
    <3> HIDE DEF S
    <3> QED
      BY <1>1, <2>3, <2>4, SetInduction
  <2> QED
    BY <1>1, <2>5
<1> QED
  BY <1>1, <1>3, <1>4

-----------------------------------------------------------------------------
(* Lines on the screen.                                                    *)

\* What a row of the text may have to show.
Showable == {NoLine} \cup {l \in Lines : l.len <= l.size}

\* What repaint_line leaves in the row of the line l.
RowOf(l) == Over(EmptyRow, Glyphs(l), Len(Glyphs(l)))

LEMMA GlyphFacts ==
  ASSUME NEW l \in Showable
  PROVE  Glyphs(l) \in Seq(Glyph) /\ Len(Glyphs(l)) < PortW /\ Len(Glyphs(l)) > 0
<1>1. CASE l = NoLine
  <2>1. Glyphs(l) = <<NoLineGlyph>> /\ NoLineGlyph \in Glyph
    BY <1>1 DEF Glyphs, Glyph
  <2> QED
    BY <2>1, SizeFacts
<1>2. CASE l # NoLine /\ l.len = 0
  <2>1. Glyphs(l) = <<Blank>> /\ Blank \in Glyph
    BY <1>2 DEF Glyphs, Glyph, StatusGlyphs
  <2> QED
    BY <2>1, SizeFacts
<1>3. CASE l # NoLine /\ l.len # 0
  <2>1. /\ l.len \in Nat /\ l.size \in Nat /\ l.len <= l.size /\ l.size <= MaxLineLen
        /\ l.buf \in [0..(l.size - 1) -> Cells]
    BY <1>3, LineFacts, SizeFacts DEF Showable
  <2>2. Glyphs(l) = [i \in 1..l.len |-> l.buf[i - 1]]
    BY <1>3, <2>1, SizeFacts DEF Glyphs
  <2>3. \A i \in 1..l.len : l.buf[i - 1] \in Glyph
    BY <2>1 DEF Glyph
  <2>4. Glyphs(l) \in [1..l.len -> Glyph]
    BY <2>2, <2>3
  <2> QED
    BY <1>3, <2>1, <2>4, SizeFacts
<1> QED
  BY <1>1, <1>2, <1>3

LEMMA RowOfIsRow == \A l \in Showable : RowOf(l) \in Row
<1> SUFFICES ASSUME NEW l \in Showable PROVE RowOf(l) \in Row
  OBVIOUS
<1>1. Glyphs(l) \in Seq(Glyph)
  BY GlyphFacts
<1>2. \A c \in Columns : c < Len(Glyphs(l)) => Glyphs(l)[c + 1] \in Glyph
  BY <1>1 DEF Columns
<1> QED
  BY <1>2 DEF RowOf, Row, Over, EmptyRow, Glyph, StatusGlyphs

\* repaint_line draws exactly its row.
LEMMA RepaintView ==
  ASSUME NEW t \in TextView, NEW y \in Int, NEW l \in Showable
  PROVE  /\ repaint_line(t, y, l) \in TextView
         /\ y \in Rows =>
              \E pos \in Columns \X Rows : repaint_line(t, y, l) = Drawn(t, y, RowOf(l), pos)
<1> DEFINE at == TERM_pcw_move_cursor(t, 0, y)
           erased == TERM_pcw_erase_line_end(at)
           back == TERM_pcw_move_cursor(erased, 0, y)
           gs == Glyphs(l)
<1>1. repaint_line(t, y, l) = TERM_pcw_write_chars(back, gs)
  BY DEF repaint_line
<1>2. gs \in Seq(Glyph) /\ Len(gs) \in Nat /\ Len(gs) < PortW
  BY GlyphFacts
<1> HIDE DEF gs
<1>3. at \in TextView /\ at.cell = t.cell
  BY MoveView
<1>4. erased \in TextView
  BY <1>3, EraseView
<1>5. back \in TextView /\ back.cell = erased.cell
  BY <1>4, MoveView
<1>6. TERM_pcw_write_chars(back, gs) \in TextView
  BY <1>2, <1>5, WriteCharsView
<1>7. ASSUME y \in Rows
      PROVE  /\ <<Len(gs), y>> \in Columns \X Rows
             /\ TERM_pcw_write_chars(back, gs) = Drawn(t, y, RowOf(l), <<Len(gs), y>>)
  <2>1. 0 \in Columns /\ Len(gs) \in Columns
    BY <1>2, SizeFacts DEF Columns
  <2>2. at.pos = <<0, y>>
    BY <1>7, <2>1, MoveView
  <2>3. erased = Drawn(at, y, EmptyRow, <<0, y>>)
    BY <1>3, <1>7, <2>2, EraseView
  <2>4. back.pos = <<0, y>>
    BY <1>4, <1>7, <2>1, MoveView
  <2> HIDE DEF at, erased, back
  <2>5. back.cell = [t.cell EXCEPT ![y] = EmptyRow]
    BY <1>3, <1>5, <2>3 DEF Drawn
  <2>6. back.cell[y] = EmptyRow
    BY <1>7, <2>5, ViewFacts, SizeFacts DEF Rows
  <2>7. TERM_pcw_write_chars(back, gs) = Drawn(back, y, RowOf(l), <<Len(gs), y>>)
    BY <1>2, <1>5, <1>7, <2>4, <2>6, WriteCharsView DEF RowOf, gs
  <2>8. [[t.cell EXCEPT ![y] = EmptyRow] EXCEPT ![y] = RowOf(l)] = [t.cell EXCEPT ![y] = RowOf(l)]
    BY ViewFacts
  <2>9. Drawn(back, y, RowOf(l), <<Len(gs), y>>) = Drawn(t, y, RowOf(l), <<Len(gs), y>>)
    BY <2>5, <2>8 DEF Drawn
  <2> QED
    BY <1>7, <2>1, <2>7, <2>9
<1> QED
  BY <1>1, <1>6, <1>7

-----------------------------------------------------------------------------
(* The whole screen.                                                       *)

\* repaint_screen's loop, over the rows ys.
Painted(u, y) == repaint_line(u, y, LineShownAt(y))

PaintAll(t, ys) == FoldLeft(Painted, t, ys)

\* w holds the screens on the way.
PaintSteps(w, t, ys) ==
  /\ w[0] = t
  /\ \A i \in 1..Len(ys) : w[i] = Painted(w[i - 1], ys[i])
  /\ PaintAll(t, ys) = w[Len(ys)]

\* The rows are painted one after the other.
LEMMA PaintInOrder ==
  ASSUME NEW X, NEW G, NEW t \in X, NEW gs \in Seq(G),
         \A u \in X : \A g \in G : Painted(u, g) \in X
  PROVE  \E w \in [0..Len(gs) -> X] : PaintSteps(w, t, gs)
<1> DEFINE n == Len(gs)
           F == [a \in X \X (1..n) |-> Painted(a[1], gs[a[2]])]
           Step(h) == [s \in SUBSET (1..n) |->
                         IF s = {} THEN t
                         ELSE Painted(h[s \ {Max(s)}], gs[Max(s)])]
           all == CHOOSE h : h = Step(h)
           w == [i \in 0..n |-> all[1..i]]
<1>1. n \in Nat /\ DOMAIN gs = 1..n /\ F \in [X \X (1..n) -> X]
  OBVIOUS
<1>2. PICK h \in [SUBSET (1..n) -> X] : Folded(h, t, n, F)
  <2> HIDE DEF F, n
  <2> QED
    BY <1>1, FoldExists
<1>3. ASSUME NEW s \in SUBSET (1..n), s # {}
      PROVE  F[<<h[s \ {Max(s)}], Max(s)>>] = Painted(h[s \ {Max(s)}], gs[Max(s)])
  <2>1. Max(s) \in 1..n
    BY <1>1, <1>3, GreatestIn
  <2>2. h[s \ {Max(s)}] \in X
    BY <1>2
  <2> QED
    BY <2>1, <2>2
<1>4. h = Step(h)
  <2>1. \A s \in SUBSET (1..n) : h[s] = Step(h)[s]
    BY <1>2, <1>3 DEF Folded
  <2> QED
    BY <2>1, <1>2
<1>5. all = Step(all)
  <2> HIDE DEF Step
  <2> QED
    BY <1>4
<1>6. PaintAll(t, gs) = all[1..n]
  BY <1>1 DEF PaintAll, FoldLeft, MapThenFoldSet
<1>7. ASSUME NEW i \in 1..n
      PROVE  all[1..i] = Painted(all[1..(i - 1)], gs[i])
  <2>1. /\ 1..i \in SUBSET (1..n) /\ 1..i # {}
        /\ Max(1..i) = i /\ (1..i) \ {i} = 1..(i - 1)
    BY <1>1, PrefixFacts
  <2>2. all[1..i] = Step(all)[1..i]
    BY <1>5
  <2> HIDE DEF all
  <2> QED
    BY <2>1, <2>2
<1>8. all[1..0] = t
  <2>1. all[1..0] = Step(all)[1..0]
    BY <1>5
  <2>2. 1..0 = {}
    OBVIOUS
  <2> HIDE DEF all
  <2> QED
    BY <2>1, <2>2
<1> HIDE DEF all
<1>9. w[0] = t /\ w[n] = all[1..n] /\ \A i \in 1..n : w[i] = Painted(w[i - 1], gs[i])
  BY <1>1, <1>7, <1>8
<1>10. w \in [0..n -> X]
  <2> DEFINE S == {i \in Nat : i <= n => w[i] \in X}
  <2>1. 0 \in S
    BY <1>9
  <2>2. ASSUME NEW i \in Nat, i \in S PROVE i + 1 \in S
    <3> SUFFICES ASSUME i + 1 <= n PROVE w[i + 1] \in X
      OBVIOUS
    <3>1. w[i] \in X /\ i + 1 \in 1..n
      BY <2>2, <1>1
    <3>2. gs[i + 1] \in G
      BY <3>1
    <3>4. i + 1 - 1 = i
      OBVIOUS
    <3> HIDE DEF w, n
    <3>3. w[i + 1] = Painted(w[i + 1 - 1], gs[i + 1])
      BY <3>1, <1>9
    <3> QED
      BY <3>1, <3>2, <3>3, <3>4
  <2>3. \A i \in Nat : i \in S
    <3> HIDE DEF S
    <3> QED
      BY <2>1, <2>2, SetInduction
  <2>4. ASSUME NEW i \in 0..n PROVE w[i] \in X
    <3> HIDE DEF w, n
    <3> QED
      BY <2>3, <1>1
  <2> QED
    BY <2>4
<1> HIDE DEF w
<1> QED
  BY <1>6, <1>9, <1>10 DEF PaintSteps

\* Every row of the viewport may be asked for.
TextShowable == \A y \in Int : LineShownAt(y) \in Showable

\* The viewport's rows painted in turn.
LEMMA PaintView ==
  ASSUME NEW t \in TextView, TextShowable
  PROVE  /\ PaintAll(t, [i \in 1..(PortH - 1) |-> i - 1]) \in TextView
         /\ \A y \in Rows :
              PaintAll(t, [i \in 1..(PortH - 1) |-> i - 1]).cell[y] = RowOf(LineShownAt(y))
<1> DEFINE n == PortH - 1
           ys == [i \in 1..n |-> i - 1]
<1>1. /\ n \in Nat /\ ys \in Seq(Rows) /\ Len(ys) = n
      /\ \A i \in 1..n : i - 1 \in Rows /\ i - 1 \in 0..(PortH - 1) /\ i - 1 \in Int
  <2>1. n \in Nat /\ \A i \in 1..n : i - 1 \in Rows /\ i - 1 \in 0..(PortH - 1)
    BY SizeFacts DEF Rows
  <2>2. ys \in [1..n -> Rows]
    BY <2>1
  <2> QED
    BY <2>1, <2>2
<1>2. \A u \in TextView : \A y \in Rows :
        /\ Painted(u, y) \in TextView
        /\ \E pos \in Columns \X Rows : Painted(u, y) = Drawn(u, y, RowOf(LineShownAt(y)), pos)
  <2> SUFFICES ASSUME NEW u \in TextView, NEW y \in Rows
               PROVE  /\ Painted(u, y) \in TextView
                      /\ \E pos \in Columns \X Rows :
                           Painted(u, y) = Drawn(u, y, RowOf(LineShownAt(y)), pos)
    OBVIOUS
  <2>1. y \in Int /\ LineShownAt(y) \in Showable
    BY SizeFacts DEF Rows, TextShowable
  <2> QED
    BY <2>1, RepaintView DEF Painted
<1> HIDE DEF ys
<1>3. PICK w \in [0..Len(ys) -> TextView] : PaintSteps(w, t, ys)
  <2>1. \A u \in TextView : \A y \in Rows : Painted(u, y) \in TextView
    BY <1>2
  <2>2. ys \in Seq(Rows)
    BY <1>1
  <2> HIDE DEF n
  <2> QED
    BY <2>1, <2>2, PaintInOrder
<1> DEFINE S == {i \in Nat : i <= n => \A y \in 0..(i - 1) : w[i].cell[y] = RowOf(LineShownAt(y))}
<1>4. 0 \in S
  OBVIOUS
<1>5. ASSUME NEW i \in Nat, i \in S PROVE i + 1 \in S
  <2> SUFFICES ASSUME i + 1 <= n, NEW y \in 0..i
               PROVE  w[i + 1].cell[y] = RowOf(LineShownAt(y))
    OBVIOUS
  <2>1. /\ i + 1 \in 1..n /\ i + 1 - 1 = i /\ i \in Rows /\ i \in 0..n /\ y \in 0..(PortH - 1)
        /\ y # i => y \in 0..(i - 1)
    <3>1. i \in 0..(n - 1) /\ n \in Nat
      BY <1>1
    <3>2. /\ i + 1 \in 1..n /\ i + 1 - 1 = i /\ i \in 0..n
          /\ y # i => y \in 0..(i - 1)
      BY <3>1
    <3>3. i \in Rows /\ y \in 0..(PortH - 1)
      BY <1>1, SizeFacts DEF Rows
    <3> QED
      BY <3>2, <3>3
  <2>2. ys[i + 1] = i
    BY <2>1 DEF ys
  <2>3. w[i] \in TextView /\ w[i + 1] = Painted(w[i], i)
    <3>1. PICK j \in Int : j = i + 1 /\ j - 1 = i /\ j \in 1..Len(ys)
      BY <1>1, <2>1
    <3>2. w[j] = Painted(w[j - 1], ys[j])
      BY <1>3, <3>1 DEF PaintSteps
    <3>3. i \in 0..Len(ys)
      BY <1>1, <2>1
    <3>4. w[i] \in TextView
      BY <1>3, <3>3
    <3>5. w[j] = Painted(w[i], i)
      BY <2>2, <3>1, <3>2
    <3> QED
      BY <3>1, <3>4, <3>5
  <2>4. PICK pos \in Columns \X Rows : w[i + 1] = Drawn(w[i], i, RowOf(LineShownAt(i)), pos)
    BY <1>2, <2>1, <2>3
  <2>5. y # i => w[i].cell[y] = RowOf(LineShownAt(y))
    BY <1>5, <2>1
  <2> QED
    BY <2>1, <2>3, <2>4, <2>5, DrawnFacts
<1>6. n \in S
  <2> HIDE DEF S
  <2> QED
    BY <1>1, <1>4, <1>5, SetInduction
<1>7. \A y \in Rows : w[n].cell[y] = RowOf(LineShownAt(y))
  BY <1>1, <1>6, SizeFacts DEF Rows
<1>8. w[n] \in TextView /\ PaintAll(t, ys) = w[n]
  BY <1>1, <1>3 DEF PaintSteps
<1> QED
  BY <1>7, <1>8 DEF ys

\* Clearing the screen keeps it a screen.
LEMMA ClearScreen ==
  ASSUME NEW t \in Screen, t.top = 0
  PROVE  TERM_pcw_clr_home(t) \in Screen
<1> DEFINE cell == [r \in 0..(PortH - 1) |->
                      IF r \in t.top..(t.top + t.height - 1) THEN EmptyRow ELSE t.cell[r]]
           cleared == [t EXCEPT !.cell = cell]
           pos == IF 0 \in 0..(cleared.width - 1) /\ 0 \in 0..(cleared.height - 1)
                    THEN <<0, 0>> ELSE Lost
<1>1. /\ t.cell \in [0..(PortH - 1) -> Row] /\ t.height \in Nat /\ t.width = PortW
      /\ \A c \in Columns : t.cell[PortH - 1][c] \in StatusGlyphs
      /\ t = [top |-> 0, height |-> t.height, width |-> PortW, pos |-> t.pos, cell |-> t.cell]
  BY DEF Screen
<1>2. \A r \in 0..(PortH - 1) : t.top + (r - t.top) = r /\ DOMAIN t.cell[r] = Columns
  <2> SUFFICES ASSUME NEW r \in 0..(PortH - 1)
               PROVE  t.top + (r - t.top) = r /\ DOMAIN t.cell[r] = Columns
    OBVIOUS
  <2>1. t.cell[r] \in Row
    BY DEF Screen
  <2>2. r \in Int
    BY SizeFacts
  <2> QED
    BY <2>1, <2>2 DEF Row
<1>3. \A r \in 0..(PortH - 1) : BlankRow(t, r - t.top) = EmptyRow
  <2> SUFFICES ASSUME NEW r \in 0..(PortH - 1) PROVE BlankRow(t, r - t.top) = EmptyRow
    OBVIOUS
  <2>1. t.top + (r - t.top) = r /\ DOMAIN t.cell[r] = Columns /\ \A c \in Columns : c < t.width
    BY <1>1, <1>2, SizeFacts DEF Columns
  <2> QED
    BY <2>1 DEF BlankRow, EmptyRow
<1>4. TERM_pcw_clr_home(t) = [cleared EXCEPT !.pos = pos]
  BY <1>1, <1>3 DEF TERM_pcw_clr_home, TERM_pcw_move_cursor
<1>5. cell \in [0..(PortH - 1) -> Row]
  BY <1>1 DEF EmptyRow, Row, Glyph, StatusGlyphs
<1>6. \A c \in Columns : cell[PortH - 1][c] \in StatusGlyphs
  BY <1>1, SizeFacts DEF EmptyRow, StatusGlyphs
<1>7. pos \in {Lost} \cup (Columns \X Nat)
  BY SizeFacts DEF Columns
<1> HIDE DEF cell, pos
<1>8. [cleared EXCEPT !.pos = pos]
        = [top |-> 0, height |-> t.height, width |-> PortW, pos |-> pos, cell |-> cell]
  <2>1. cleared = [top |-> 0, height |-> t.height, width |-> PortW, pos |-> t.pos, cell |-> cell]
    BY <1>1
  <2> HIDE DEF cleared
  <2> QED
    BY <2>1
<1> QED
  BY <1>1, <1>4, <1>5, <1>6, <1>7, <1>8 DEF Screen

\* The text's viewport set again (set_viewport_normal).
LEMMA NormalView ==
  ASSUME NEW t \in Screen, cur_x \in Int, cur_y \in Int
  PROVE  /\ set_viewport_normal(t) \in TextView
         /\ set_viewport_normal(t).cell = t.cell
         /\ cur_x \in Columns /\ cur_y \in Rows => set_viewport_normal(t).pos = <<cur_x, cur_y>>
<1> DEFINE u == [top |-> 0, height |-> PortH - 1, width |-> PortW, pos |-> Lost, cell |-> t.cell]
<1>1. /\ t.cell \in [0..(PortH - 1) -> Row]
      /\ \A c \in Columns : t.cell[PortH - 1][c] \in StatusGlyphs
  BY DEF Screen
<1>2. TERM_pcw_set_viewport(t, 0, get_editor_port_height, PortW) = u
  <2>1. t = [top |-> t.top, height |-> t.height, width |-> PortW, pos |-> t.pos, cell |-> t.cell]
    BY DEF Screen
  <2> DEFINE t1 == [t EXCEPT !.top = 0]
             t2 == [t1 EXCEPT !.height = PortH - 1]
             t3 == [t2 EXCEPT !.width = PortW]
  <2>2. t1 = [top |-> 0, height |-> t.height, width |-> PortW, pos |-> t.pos, cell |-> t.cell]
    BY <2>1
  <2> HIDE DEF t1
  <2>4. t2 = [top |-> 0, height |-> PortH - 1, width |-> PortW, pos |-> t.pos, cell |-> t.cell]
    BY <2>2
  <2> HIDE DEF t2
  <2>5. t3 = [top |-> 0, height |-> PortH - 1, width |-> PortW, pos |-> t.pos, cell |-> t.cell]
    BY <2>4
  <2> HIDE DEF t3
  <2>6. [t3 EXCEPT !.pos = Lost] = u
    BY <2>5
  <2>3. [t EXCEPT !.top = 0, !.height = PortH - 1, !.width = PortW, !.pos = Lost] = u
    BY <2>6 DEF t1, t2, t3
  <2> QED
    BY <2>3 DEF TERM_pcw_set_viewport, get_editor_port_height
<1>3. u \in TextView /\ u.cell = t.cell
  BY <1>1, MakeView
<1>4. set_viewport_normal(t) = TERM_pcw_move_cursor(u, cur_x, cur_y)
  BY <1>2 DEF set_viewport_normal
<1> HIDE DEF u
<1> QED
  BY <1>3, <1>4, MoveView

\* "r" redraws the whole picture (repaint_screen).
LEMMA RepaintScreenView ==
  ASSUME NEW t \in Screen, t.top = 0, cur_x \in Int, cur_y \in Int, TextShowable
  PROVE  /\ repaint_screen(t) \in TextView
         /\ \A y \in Rows : repaint_screen(t).cell[y] = RowOf(LineShownAt(y))
         /\ cur_x \in Columns /\ cur_y \in Rows => repaint_screen(t).pos = <<cur_x, cur_y>>
<1> DEFINE u == set_viewport_normal(TERM_pcw_clr_home(t))
           painted == PaintAll(u, [i \in 1..(PortH - 1) |-> i - 1])
<1>1. repaint_screen(t) = TERM_pcw_move_cursor(painted, cur_x, cur_y)
  BY DEF repaint_screen, PaintAll, Painted, get_editor_port_height
<1>2. u \in TextView
  BY ClearScreen, NormalView
<1> HIDE DEF u
<1>3. painted \in TextView /\ \A y \in Rows : painted.cell[y] = RowOf(LineShownAt(y))
  BY <1>2, PaintView
<1> HIDE DEF painted
<1> QED
  BY <1>1, <1>3, MoveView

-----------------------------------------------------------------------------
(* The keys.                                                               *)

Lookup(text, n) == IF n \in DOMAIN text THEN text[n] ELSE NoLine

\* The screen t shows the lines of text from the line top on.
Shows(t, text, top) == \A y \in Rows : t.cell[y] = RowOf(Lookup(text, top + y))

\* What the editor's invariants say that the screen depends on.
LEMMA EditorFacts ==
  Inv /\ TextInv =>
    /\ StoreInv /\ CursorInv
    /\ cur_x \in Columns /\ cur_x \in Nat /\ cur_y \in Nat /\ top_screen_line \in Nat
    /\ \A n : Lookup(text_array, n) \in Showable
<1> SUFFICES ASSUME Inv, TextInv
             PROVE  /\ StoreInv /\ CursorInv
                    /\ cur_x \in Columns /\ cur_x \in Nat /\ cur_y \in Nat /\ top_screen_line \in Nat
                    /\ \A n : Lookup(text_array, n) \in Showable
  OBVIOUS
<1>1. StoreInv /\ CursorInv
  BY InvParts
<1>2. cur_x \in Nat /\ cur_y \in Nat /\ top_screen_line \in Nat
  BY <1>1, CursorNumbers
<1>3. ASSUME NEW n PROVE Lookup(text_array, n) \in Showable
  <2>1. CASE IsLine(n)
    BY <1>1, <2>1, LineInStore DEF StoreInv, Showable, Lookup, IsLine
  <2>2. CASE ~IsLine(n)
    BY <2>2 DEF Showable, Lookup, IsLine
  <2> QED
    BY <2>1, <2>2
<1>4. cur_x \in Columns
  <2>1. CASE cur_line \in BootCurLine
    BY <1>2, <2>1, SizeFacts DEF TextInv, CursorWithinLine, Columns
  <2>2. CASE cur_line \notin BootCurLine
    <3>1. IsLine(cur_line) /\ cur_x <= text_array[cur_line].len
      BY <1>1, <2>2 DEF CursorInv, CurLineCached, TextInv, CursorWithinLine
    <3>2. text_array[cur_line] \in Lines /\ text_array[cur_line].len <= text_array[cur_line].size
      BY <1>1, <3>1, LineInStore DEF StoreInv, IsLine
    <3>3. text_array[cur_line].len \in Nat /\ text_array[cur_line].size \in {InitSize, MaxLineLen}
      BY <3>2, LineFacts
    <3> QED
      BY <1>2, <3>1, <3>2, <3>3, SizeFacts DEF Columns
  <2> QED
    BY <2>1, <2>2
<1> QED
  BY <1>1, <1>2, <1>3, <1>4

\* The same after a step.
LEMMA EditorFactsNext ==
  (Inv /\ TextInv)' =>
    /\ StoreInv' /\ CursorInv'
    /\ cur_x' \in Columns /\ cur_x' \in Nat /\ cur_y' \in Nat /\ top_screen_line' \in Nat
    /\ \A n : Lookup(text_array', n) \in Showable
<1>1. (/\ StoreInv /\ CursorInv
       /\ cur_x \in Columns /\ cur_x \in Nat /\ cur_y \in Nat /\ top_screen_line \in Nat
       /\ \A n : Lookup(text_array, n) \in Showable)' <=>
      /\ StoreInv' /\ CursorInv'
      /\ cur_x' \in Columns /\ cur_x' \in Nat /\ cur_y' \in Nat /\ top_screen_line' \in Nat
      /\ \A n : Lookup(text_array', n) \in Showable
  OBVIOUS
<1> QED
  BY <1>1, EditorFacts, PTL

LEMMA ShownLine ==
  \A y : /\ LineShownAt(y) = Lookup(text_array, top_screen_line + y)
         /\ LineShownAt(y)' = Lookup(text_array', top_screen_line' + y)
BY DEF LineShownAt, text_line_lookup, Lookup

\* The screen is right and its cursor where the editor believes it is.
Seen ==
  /\ term \in TextView
  /\ cur_y \in Rows
  /\ Shows(term, text_array, top_screen_line)
  /\ term.pos = <<cur_x, cur_y>>

\* The editor's invariants before and after a step.
EditorStep == Inv /\ TextInv /\ (Inv /\ TextInv)'

\* A handler that only moves the cursor over the screen t.
LEMMA CursorMoved ==
  ASSUME EditorStep, NEW t \in TextView, term' = MoveToCursor(t)
  PROVE  /\ term' \in TextView
         /\ cur_y' \in Rows /\ Shows(t, text_array', top_screen_line') => Seen'
<1>1. cur_x' \in Columns /\ cur_x' \in Int /\ cur_y' \in Int
  BY EditorFactsNext DEF EditorStep
<1>2. term' \in TextView /\ term'.cell = t.cell /\ (cur_y' \in Rows => term'.pos = <<cur_x', cur_y'>>)
  BY <1>1, MoveView DEF MoveToCursor
<1> QED
  BY <1>2 DEF Seen, Shows

\* A handler that redraws the cursor's row of the screen t.
LEMMA CursorRowShown ==
  ASSUME EditorStep, NEW t \in TextView,
         term' = TERM_pcw_move_cursor(CursorRowRedrawn(t), cur_x', cur_y')
  PROVE  /\ term' \in TextView
         /\ /\ cur_y' \in Rows
            /\ \A y \in Rows \ {cur_y'} :
                 t.cell[y] = RowOf(Lookup(text_array', top_screen_line' + y))
            => Seen'
<1> DEFINE l == Lookup(text_array', top_screen_line' + cur_y')
           u == repaint_line(t, cur_y', l)
<1>1. cur_x' \in Columns /\ cur_x' \in Int /\ cur_y' \in Int /\ l \in Showable
  BY EditorFactsNext DEF EditorStep
<1>2. LineShownAt(cur_y)' = l
  BY DEF LineShownAt, text_line_lookup, Lookup
<1>3. CursorRowRedrawn(t) = u
  BY <1>2 DEF CursorRowRedrawn
<1> HIDE DEF l
<1>4. /\ u \in TextView
      /\ cur_y' \in Rows =>
           \E pos \in Columns \X Rows : u = Drawn(t, cur_y', RowOf(l), pos)
  BY <1>1, RepaintView
<1> HIDE DEF u
<1>5. term' \in TextView /\ term'.cell = u.cell /\ (cur_y' \in Rows => term'.pos = <<cur_x', cur_y'>>)
  BY <1>1, <1>3, <1>4, MoveView
<1>6. ASSUME cur_y' \in Rows,
             \A y \in Rows \ {cur_y'} :
               t.cell[y] = RowOf(Lookup(text_array', top_screen_line' + y))
      PROVE  Shows(u, text_array', top_screen_line')
  <2> SUFFICES ASSUME NEW y \in Rows
               PROVE  u.cell[y] = RowOf(Lookup(text_array', top_screen_line' + y))
    BY DEF Shows
  <2>1. PICK pos \in Columns \X Rows : u = Drawn(t, cur_y', RowOf(l), pos)
    BY <1>4, <1>6
  <2>2. y \in 0..(PortH - 1)
    BY SizeFacts DEF Rows
  <2>3. CASE y = cur_y'
    BY <1>6, <2>1, <2>3, DrawnFacts DEF l
  <2>4. CASE y # cur_y'
    BY <1>6, <2>1, <2>2, <2>4, DrawnFacts
  <2> QED
    BY <2>3, <2>4
<1>7. Shows(u, text_array', top_screen_line') => Shows(term', text_array', top_screen_line')
  BY <1>5 DEF Shows
<1> QED
  BY <1>5, <1>6, <1>7 DEF Seen

\* Fetching a line changes no other.
LEMMA LookupFetched ==
  ASSUME NEW n, FetchLine(n), NEW m, m # n
  PROVE  Lookup(text_array', m) = Lookup(text_array, m)
BY DEF FetchLine, Lookup, store

\* "i" redraws the cursor's row, where a first line may have come.
LEMMA InsertShown ==
  ASSUME EditorStep, ShowInsertCmd, term \in TextView
  PROVE  term' \in TextView /\ (Seen /\ cur_y' \in Rows => Seen')
<1>0. cur_y \in Nat /\ top_screen_line \in Nat /\ PortH \in Int
  BY EditorFacts, SizeFacts DEF EditorStep
<1>1. /\ cur_x' = cur_x /\ cur_y' = cur_y /\ top_screen_line' = top_screen_line
      /\ editor_mode = "CMD"
  BY DEF ShowInsertCmd, InsertCmd, CmdKey
<1>2. CASE editor_mode' = "EDIT"
  <2>1. FetchLine(get_cur_line_number)
    BY <1>1, <1>2 DEF ShowInsertCmd, InsertCmd
  <2>2. term' = TERM_pcw_move_cursor(CursorRowRedrawn(term), cur_x', cur_y')
    BY <1>2 DEF ShowInsertCmd, MoveToCursor
  <2>3. ASSUME NEW y \in Rows \ {cur_y'}
        PROVE  Lookup(text_array', top_screen_line' + y) = Lookup(text_array, top_screen_line + y)
    <3>1. top_screen_line + y # get_cur_line_number
      BY <1>0, <1>1, <2>3 DEF get_cur_line_number, Rows
    <3> QED
      BY <1>1, <2>1, <3>1, LookupFetched
  <2> QED
    BY <2>2, <2>3, CursorRowShown DEF Seen, Shows
<1>3. CASE editor_mode' # "EDIT"
  <2>1. term' = term /\ text_array' = text_array
    BY <1>3 DEF ShowInsertCmd, InsertCmd, FetchNothing
  <2> QED
    BY <1>1, <2>1 DEF Seen, Shows
<1> QED
  BY <1>2, <1>3

\* "h" and "l" only move the cursor.
LEMMA AlongShown ==
  ASSUME EditorStep, ShowCursorAlong, term \in TextView
  PROVE  term' \in TextView /\ (Seen /\ cur_y' \in Rows => Seen')
<1>1. /\ text_array' = text_array /\ top_screen_line' = top_screen_line
      /\ term' = MoveToCursor(term)
  BY DEF ShowCursorAlong, CursorLeft, CursorRight, store
<1> QED
  BY <1>1, CursorMoved DEF Seen

\* "k" on the first row scrolls the text down and draws the new first row.
LEMMA UpShown ==
  ASSUME EditorStep, ShowCursorUp, term \in TextView
  PROVE  term' \in TextView /\ (Seen /\ cur_y' \in Rows => Seen')
<1>0. cur_y \in Nat /\ top_screen_line \in Nat /\ PortH \in Int /\ PortH > 1
  BY EditorFacts, SizeFacts DEF EditorStep
<1>1. text_array' = text_array
  BY DEF ShowCursorUp, CursorUp, store
<1>2. CASE cur_y > 0
  <2>1. top_screen_line' = top_screen_line /\ term' = MoveToCursor(term)
    BY <1>0, <1>2 DEF ShowCursorUp, CursorUp
  <2> QED
    BY <1>1, <2>1, CursorMoved DEF Seen
<1>3. CASE cur_y = 0
  <2> DEFINE at == TERM_pcw_move_cursor(term, 0, 0)
             scrolled == TERM_pcw_cursor_move_up_scroll(at)
  <2>1. /\ top_screen_line' = top_screen_line - 1 /\ cur_y' = 0
        /\ term' = MoveToCursor(TopRedrawn(scrolled))
    BY <1>0, <1>3 DEF ShowCursorUp, CursorUp
  <2>2. TopRedrawn(scrolled) = CursorRowRedrawn(scrolled)
    BY <2>1 DEF TopRedrawn, CursorRowRedrawn, LineShownAt
  <2>3. 0 \in Columns /\ 0 \in Rows
    BY SizeFacts DEF Columns, Rows
  <2>4. at \in TextView /\ at.cell = term.cell /\ at.pos = <<0, 0>>
    BY <2>3, MoveView
  <2> HIDE DEF at
  <2>5. scrolled \in TextView /\ scrolled = Scrolled(at, -1)
    BY <2>4, UpView
  <2>6. ASSUME Seen, NEW y \in Rows \ {cur_y'}
        PROVE  scrolled.cell[y] = RowOf(Lookup(text_array', top_screen_line' + y))
    <3>1. y \in Rows /\ y - 1 \in Rows /\ y + (-1) = y - 1 /\ top_screen_line' + y = top_screen_line + (y - 1)
      BY <1>0, <2>1 DEF Rows
    <3>2. Scrolled(at, -1).cell[y] = at.cell[y - 1]
      BY <2>4, <3>1, ScrolledView
    <3> QED
      BY <1>1, <2>4, <2>5, <2>6, <3>1, <3>2 DEF Seen, Shows
  <2> HIDE DEF scrolled
  <2> QED
    BY <2>1, <2>2, <2>5, <2>6, CursorRowShown DEF MoveToCursor
<1> QED
  BY <1>0, <1>2, <1>3

\* The text's rows scrolled up by one.
LEMMA ScrolledUpView ==
  ASSUME term \in TextView
  PROVE  /\ ScrolledUp \in TextView
         /\ \A y \in Rows : y + 1 \in Rows => ScrolledUp.cell[y] = term.cell[y + 1]
<1> DEFINE at == TERM_pcw_move_cursor(term, 0, PortH - 2)
<1>1. 0 \in Columns /\ PortH - 2 \in Rows /\ PortH - 2 \in Int /\ PortH - 1 - 1 = PortH - 2
  BY SizeFacts DEF Columns, Rows
<1>2. at \in TextView /\ at.cell = term.cell /\ at.pos = <<0, PortH - 2>>
  BY <1>1, MoveView
<1>3. ScrolledUp = LineFeed(at)
  BY <1>1 DEF ScrolledUp, get_editor_port_height
<1> HIDE DEF at
<1>4. LineFeed(at) \in TextView /\ LineFeed(at) = Scrolled(at, 1)
  BY <1>2, LineFeedView
<1> QED
  BY <1>2, <1>3, <1>4, ScrolledView

\* "j" never scrolls a screen that is right: it leaves the viewport first.
LEMMA DownShown ==
  ASSUME EditorStep, ShowCursorDown, term \in TextView
  PROVE  term' \in TextView /\ (Seen /\ cur_y' \in Rows => Seen')
<1>0. cur_y \in Nat /\ PortH \in Int
  BY EditorFacts, SizeFacts DEF EditorStep
<1>1. text_array' = text_array
  BY DEF ShowCursorDown, CursorDown, store
<1>2. CASE cur_y < PortH - 1
  <2>1. top_screen_line' = top_screen_line /\ term' = MoveToCursor(term)
    BY <1>0, <1>2 DEF ShowCursorDown, CursorDown, get_editor_port_height
  <2> QED
    BY <1>1, <2>1, CursorMoved DEF Seen
<1>3. CASE ~(cur_y < PortH - 1)
  <2>1. term' = MoveToCursor(CursorRowRedrawn(ScrolledUp))
    BY <1>3 DEF ShowCursorDown, get_editor_port_height
  <2>2. term' \in TextView
    BY <2>1, ScrolledUpView, CursorRowShown DEF MoveToCursor
  <2>3. cur_y \notin Rows
    BY <1>0, <1>3 DEF Rows
  <2> QED
    BY <2>2, <2>3 DEF Seen
<1> QED
  BY <1>2, <1>3

\* "r" makes any screen right.
LEMMA RepaintShown ==
  ASSUME EditorStep, ShowRepaint, term \in TextView
  PROVE  term' \in TextView /\ (cur_y' \in Rows => Seen')
<1>1. /\ cur_x \in Int /\ cur_y \in Int /\ cur_x \in Columns
      /\ top_screen_line \in Nat
      /\ \A n : Lookup(text_array, n) \in Showable
  BY EditorFacts DEF EditorStep
<1>2. TextShowable
  BY <1>1, ShownLine DEF TextShowable
<1>3. term \in Screen /\ term.top = 0
  BY DEF TextView
<1>4. /\ term' = repaint_screen(term) /\ cur_x' = cur_x /\ cur_y' = cur_y
      /\ top_screen_line' = top_screen_line /\ text_array' = text_array
  BY DEF ShowRepaint, vars, cursor, store
<1>5. /\ repaint_screen(term) \in TextView
      /\ \A y \in Rows : repaint_screen(term).cell[y] = RowOf(LineShownAt(y))
      /\ cur_x \in Columns /\ cur_y \in Rows => repaint_screen(term).pos = <<cur_x, cur_y>>
  BY <1>1, <1>2, <1>3, RepaintScreenView
<1>6. Shows(term', text_array', top_screen_line')
  BY <1>4, <1>5, ShownLine DEF Shows
<1> QED
  BY <1>1, <1>4, <1>5, <1>6 DEF Seen

\* ENTER draws the next line's row, after making room for it at the bottom.
LEMMA NewlineShown ==
  ASSUME EditorStep, ShowEditNewline, term \in TextView
  PROVE  term' \in TextView /\ (Seen /\ cur_y' \in Rows => Seen')
<1>0. cur_y \in Nat /\ top_screen_line \in Nat /\ PortH \in Int
  BY EditorFacts, SizeFacts DEF EditorStep
<1>1. /\ FetchLine(get_cur_line_number + 1) /\ cur_x' = 0
      /\ get_cur_line_number = top_screen_line + cur_y
  BY DEF ShowEditNewline, EditNewline, get_cur_line_number
<1>2. CASE cur_y + 1 >= PortH - 1
  <2>1. top_screen_line' = top_screen_line + 1 /\ cur_y' = cur_y
    BY <1>2 DEF ShowEditNewline, EditNewline, get_editor_port_height
  <2>2. term' = TERM_pcw_move_cursor(CursorRowRedrawn(ScrolledUp), cur_x', cur_y')
    BY <1>1, <1>2 DEF ShowEditNewline, get_editor_port_height
  <2>3. ASSUME Seen, NEW y \in Rows \ {cur_y'}
        PROVE  ScrolledUp.cell[y] = RowOf(Lookup(text_array', top_screen_line' + y))
    <3>1. /\ y + 1 \in Rows /\ top_screen_line' + y = top_screen_line + (y + 1)
          /\ top_screen_line + (y + 1) # get_cur_line_number + 1
      BY <1>0, <1>1, <1>2, <2>1, <2>3 DEF Rows, Seen
    <3>2. ScrolledUp.cell[y] = term.cell[y + 1]
      BY <3>1, ScrolledUpView
    <3>3. Lookup(text_array', top_screen_line' + y) = Lookup(text_array, top_screen_line + (y + 1))
      BY <1>1, <3>1, LookupFetched
    <3> QED
      BY <2>3, <3>1, <3>2, <3>3 DEF Seen, Shows
  <2>4. ScrolledUp \in TextView
    BY ScrolledUpView
  <2> QED
    BY <2>2, <2>3, <2>4, CursorRowShown
<1>3. CASE ~(cur_y + 1 >= PortH - 1)
  <2>1. top_screen_line' = top_screen_line /\ cur_y' = cur_y + 1
    BY <1>3 DEF ShowEditNewline, EditNewline, get_editor_port_height
  <2>2. term' = TERM_pcw_move_cursor(CursorRowRedrawn(term), cur_x', cur_y')
    BY <1>1, <1>3 DEF ShowEditNewline, get_editor_port_height
  <2>3. ASSUME NEW y \in Rows \ {cur_y'}
        PROVE  Lookup(text_array', top_screen_line' + y) = Lookup(text_array, top_screen_line + y)
    <3>1. top_screen_line + y # get_cur_line_number + 1
      BY <1>0, <1>1, <2>1, <2>3 DEF Rows
    <3> QED
      BY <1>1, <2>1, <3>1, LookupFetched
  <2> QED
    BY <2>2, <2>3, CursorRowShown DEF Seen, Shows
<1> QED
  BY <1>2, <1>3

\* DEL redraws the only line it changes.
LEMMA DelShown ==
  ASSUME EditorStep, ShowEditDel, term \in TextView
  PROVE  term' \in TextView /\ (Seen /\ cur_y' \in Rows => Seen')
<1>0. /\ cur_y \in Nat /\ top_screen_line \in Nat /\ PortH \in Int
      /\ StoreInv /\ CursorInv
  BY EditorFacts, SizeFacts DEF EditorStep
<1>1. cur_line = top_screen_line + cur_y
  BY <1>0, EditHasLine DEF ShowEditDel, EditDel, get_cur_line_number
<1>2. /\ top_screen_line' = top_screen_line /\ cur_y' = cur_y
      /\ text_array' = [text_array EXCEPT ![cur_line] = DeleteBefore(@, cur_x)]
      /\ term' = TERM_pcw_move_cursor(CursorRowRedrawn(term), cur_x', cur_y')
  BY DEF ShowEditDel, EditDel, MoveToCursor
<1>3. ASSUME NEW y \in Rows \ {cur_y'}
      PROVE  Lookup(text_array', top_screen_line' + y) = Lookup(text_array, top_screen_line + y)
  <2>1. top_screen_line + y # cur_line
    BY <1>0, <1>1, <1>2, <1>3 DEF Rows
  <2> QED
    BY <1>2, <2>1 DEF Lookup
<1> QED
  BY <1>2, <1>3, CursorRowShown DEF Seen, Shows

\* A line's row: its characters, then blanks.
LEMMA LineRow ==
  ASSUME NEW l \in Lines, l.len <= l.size
  PROVE  RowOf(l) = [k \in Columns |-> IF k < l.len THEN l.buf[k] ELSE Blank]
<1>1. /\ l.len \in Nat /\ l.len < PortW /\ l # NoLine
  BY LineFacts, LineAssumption, SizeFacts
<1>2. CASE l.len = 0
  <2>1. Glyphs(l) = <<Blank>>
    BY <1>1, <1>2 DEF Glyphs
  <2>2. \A k \in Columns : (IF k < 1 THEN <<Blank>>[k + 1] ELSE Blank) = Blank
    BY DEF Columns
  <2> QED
    BY <1>2, <2>1, <2>2 DEF RowOf, Over, EmptyRow, Columns
<1>3. CASE l.len # 0
  <2>1. Glyphs(l) = [i \in 1..l.len |-> l.buf[i - 1]]
    BY <1>1, <1>3 DEF Glyphs
  <2>2. Len(Glyphs(l)) = l.len
    BY <1>1, <2>1
  <2>3. \A k \in Columns : k < l.len => Glyphs(l)[k + 1] = l.buf[k]
    BY <1>1, <2>1 DEF Columns
  <2> QED
    BY <2>2, <2>3 DEF RowOf, Over, EmptyRow
<1> QED
  BY <1>2, <1>3

\* A character typed into a line, on its row.
LEMMA PutRow ==
  ASSUME NEW l \in Lines, l.len <= l.size, NEW x \in Nat, x < MaxLineLen, x <= l.len,
         NEW c \in TextChars
  PROVE  RowOf(PutChar(l, x, c)) = [RowOf(l) EXCEPT ![x] = c]
<1> DEFINE m == PutChar(l, x, c)
<1>1. /\ m \in Lines /\ m.len <= m.size
      /\ m.len = IF x + 1 > l.len THEN x + 1 ELSE l.len
      /\ m.buf[x] = c
      /\ \A i \in 0..(l.size - 1) : i # x => m.buf[i] = l.buf[i]
  BY PutFacts
<1> HIDE DEF m
<1>2. l.len \in Nat /\ l.size \in Nat /\ x \in Columns
  BY LineFacts, SizeFacts DEF Columns
<1>3. /\ RowOf(l) = [k \in Columns |-> IF k < l.len THEN l.buf[k] ELSE Blank]
      /\ RowOf(m) = [k \in Columns |-> IF k < m.len THEN m.buf[k] ELSE Blank]
  BY <1>1, LineRow
<1>4. ASSUME NEW k \in Columns
      PROVE  (IF k < m.len THEN m.buf[k] ELSE Blank)
               = IF k = x THEN c ELSE IF k < l.len THEN l.buf[k] ELSE Blank
  <2>1. CASE k = x
    BY <1>1, <1>2, <2>1
  <2>2. CASE k # x
    <3>1. k < m.len <=> k < l.len
      BY <1>1, <1>2, <2>2 DEF Columns
    <3>2. k < l.len => m.buf[k] = l.buf[k]
      BY <1>1, <1>2, <2>2 DEF Columns
    <3> QED
      BY <2>2, <3>1, <3>2
  <2> QED
    BY <2>1, <2>2
<1>5. RowOf(m) = [RowOf(l) EXCEPT ![x] = c]
  BY <1>2, <1>3, <1>4
<1> QED
  BY <1>5 DEF m

\* A typed character appears where the screen's cursor is, which is where the
\* line takes it.
LEMMA TypeShown ==
  ASSUME EditorStep, NEW c \in TextChars, ShowEditType(c), term \in TextView
  PROVE  term' \in TextView /\ (Seen /\ cur_y' \in Rows => Seen')
<1>0. /\ cur_x \in Nat /\ cur_x \in Columns /\ cur_y \in Nat /\ top_screen_line \in Nat
      /\ PortH \in Int /\ StoreInv /\ CursorInv
  BY EditorFacts, SizeFacts DEF EditorStep
<1> DEFINE l == text_array[cur_line]
<1>1. /\ cur_line = top_screen_line + cur_y /\ IsLine(cur_line) /\ l \in Lines
      /\ cur_line \notin BootCurLine
  BY <1>0, EditHasLine DEF ShowEditType, EditType, get_cur_line_number
<1>2. l.len <= l.size /\ cur_x <= l.len
  BY <1>0, <1>1 DEF StoreInv, IsLine, EditorStep, TextInv, CursorWithinLine
<1> HIDE DEF l
<1>3. /\ top_screen_line' = top_screen_line /\ cur_y' = cur_y /\ cur_x' = cur_x + 1
      /\ cur_x < MaxLineLen
      /\ text_array' = [text_array EXCEPT ![cur_line] = PutChar(l, cur_x, c)]
      /\ term' = TERM_pcw_write_char(term, c)
  BY DEF ShowEditType, EditType, l
<1>4. c \in Glyph /\ cur_x + 1 < PortW /\ cur_x + 1 \in Columns
  BY <1>0, <1>3, SizeFacts DEF Glyph, Cells, Columns
<1>5. term' \in TextView
  BY <1>3, <1>4, WriteView
<1>6. ASSUME Seen PROVE Seen'
  <2> DEFINE row == [term.cell[cur_y] EXCEPT ![cur_x] = c]
  <2>1. cur_y \in Rows /\ cur_y \in 0..(PortH - 1) /\ term.pos = <<cur_x, cur_y>>
    BY <1>0, <1>6, SizeFacts DEF Seen, Rows
  <2>2. term' = Drawn(term, cur_y, row, <<cur_x + 1, cur_y>>)
    BY <1>0, <1>3, <1>4, <2>1, WriteView
  <2>3. Lookup(text_array, cur_line) = l /\ Lookup(text_array', cur_line) = PutChar(l, cur_x, c)
    BY <1>1, <1>3 DEF Lookup, IsLine, l
  <2>4. row = RowOf(PutChar(l, cur_x, c))
    <3>1. term.cell[cur_y] = RowOf(l)
      BY <1>1, <1>6, <2>1, <2>3 DEF Seen, Shows
    <3> QED
      BY <1>0, <1>1, <1>2, <1>3, <3>1, PutRow
  <2> HIDE DEF row
  <2>5. term'.pos = <<cur_x', cur_y'>> /\ term'.cell[cur_y] = row
        /\ \A r \in 0..(PortH - 1) : r # cur_y => term'.cell[r] = term.cell[r]
    BY <1>3, <1>6, <2>1, <2>2, DrawnFacts DEF Seen
  <2>6. ASSUME NEW y \in Rows
        PROVE  term'.cell[y] = RowOf(Lookup(text_array', top_screen_line' + y))
    <3>1. y \in 0..(PortH - 1)
      BY <1>0 DEF Rows
    <3>2. CASE y = cur_y
      BY <1>1, <1>3, <2>3, <2>4, <2>5, <3>2
    <3>3. CASE y # cur_y
      <4>1. top_screen_line + y # cur_line
        BY <1>0, <1>1, <3>3, <3>1
      <4>2. Lookup(text_array', top_screen_line + y) = Lookup(text_array, top_screen_line + y)
        BY <1>3, <4>1 DEF Lookup
      <4> QED
        BY <1>3, <1>6, <2>5, <3>1, <3>3, <4>2 DEF Seen, Shows
    <3> QED
      BY <3>2, <3>3
  <2> QED
    BY <1>3, <1>5, <2>1, <2>5, <2>6 DEF Seen, Shows
<1> QED
  BY <1>5, <1>6

\* The viewport is the prompt's: the status row, the cursor at column x.
PromptView(x) ==
  {t \in Screen : t.top = PortH - 1 /\ t.height = PortH /\ t.pos = <<x, 0>>}

\* The screens t and u show the same text.
SameRows(t, u) == \A y \in Rows : u.cell[y] = t.cell[y]

\* A character of the command line, drawn on the status row.
LEMMA PromptWritten ==
  ASSUME NEW x \in Nat, x + 1 < PortW, NEW t \in PromptView(x), NEW g \in StatusGlyphs
  PROVE  /\ TERM_pcw_write_char(t, g) \in PromptView(x + 1)
         /\ SameRows(t, TERM_pcw_write_char(t, g))
<1> DEFINE row  == [t.cell[PortH - 1] EXCEPT ![x] = g]
           cell == [t.cell EXCEPT ![PortH - 1] = row]
           drawn == [t EXCEPT !.cell[t.top + t.pos[2]][x] = g]
           u == [top |-> PortH - 1, height |-> PortH, width |-> PortW,
                 pos |-> <<x + 1, 0>>, cell |-> cell]
<1>1. /\ t = [top |-> PortH - 1, height |-> PortH, width |-> PortW,
              pos |-> <<x, 0>>, cell |-> t.cell]
      /\ t.cell \in [0..(PortH - 1) -> Row]
      /\ \A c \in Columns : t.cell[PortH - 1][c] \in StatusGlyphs
  BY DEF PromptView, Screen
<1>2. /\ x \in Columns /\ x + 1 \in Columns /\ x + 1 \in Nat /\ PortH - 1 \in Nat
      /\ PortH - 1 \in 0..(PortH - 1) /\ PortH - 1 + 0 = PortH - 1
      /\ \A y \in Rows : y # PortH - 1 /\ y \in 0..(PortH - 1)
  BY SizeFacts DEF Columns, Rows
<1>3. t.pos # Lost /\ t.pos = <<x, 0>> /\ t.top = PortH - 1 /\ t.width = PortW
  BY <1>1, <1>2, LostAssumption
<1>4. t.top + t.pos[2] = PortH - 1 /\ t.pos[1] = x
  BY <1>2, <1>3
<1>5. row \in Row /\ \A c \in Columns : row[c] \in StatusGlyphs
  BY <1>1, <1>2 DEF Row, Glyph
<1>6. drawn = [t EXCEPT !.cell = cell]
  BY <1>1, <1>4
<1>7. TERM_pcw_write_char(t, g) = [drawn EXCEPT !.pos[1] = x + 1]
  BY <1>3, <1>4 DEF TERM_pcw_write_char
<1>8. /\ cell \in [0..(PortH - 1) -> Row]
      /\ cell[PortH - 1] = row /\ \A y \in Rows : cell[y] = t.cell[y]
  BY <1>1, <1>2, <1>5
<1> HIDE DEF row, cell
<1>9. drawn = [top |-> PortH - 1, height |-> PortH, width |-> PortW,
               pos |-> <<x, 0>>, cell |-> cell]
  BY <1>1, <1>6
<1> HIDE DEF drawn
<1>10. TERM_pcw_write_char(t, g) = u
  BY <1>7, <1>9
<1>11. u \in PromptView(x + 1)
  BY <1>2, <1>5, <1>8, SizeFacts DEF PromptView, Screen
<1> QED
  BY <1>8, <1>10, <1>11 DEF SameRows

\* ":" opens the status row and writes itself there.
LEMMA ColonShown ==
  ASSUME ShowColonCmd, term \in TextView
  PROVE  term' \in PromptView(p' + 1) /\ SameRows(term, term')
<1> DEFINE u == [top |-> PortH - 1, height |-> PortH, width |-> PortW,
                 pos |-> <<0, 0>>, cell |-> term.cell]
<1>1. /\ term = [top |-> 0, height |-> PortH - 1, width |-> PortW,
                 pos |-> term.pos, cell |-> term.cell]
      /\ term.cell \in [0..(PortH - 1) -> Row]
      /\ \A c \in Columns : term.cell[PortH - 1][c] \in StatusGlyphs
  BY ViewFacts
<1>2. /\ 0 \in Columns /\ PortH - 1 \in Nat /\ 0 \in 0..(PortH - 1)
      /\ 0 \in 0..(PortW - 1) /\ 0 + 1 < PortW
  BY SizeFacts DEF Columns
<1>3. set_viewport_cmd(term) = u
  <2> DEFINE t1 == [term EXCEPT !.top = PortH - 1]
             t2 == [t1 EXCEPT !.height = PortH]
             t3 == [t2 EXCEPT !.width = PortW]
             t4 == [t3 EXCEPT !.pos = Lost]
  <2>1. t1 = [top |-> PortH - 1, height |-> PortH - 1, width |-> PortW,
              pos |-> term.pos, cell |-> term.cell]
    BY <1>1
  <2> HIDE DEF t1
  <2>2. t2 = [top |-> PortH - 1, height |-> PortH, width |-> PortW,
              pos |-> term.pos, cell |-> term.cell]
    BY <2>1
  <2> HIDE DEF t2
  <2>3. t3 = [top |-> PortH - 1, height |-> PortH, width |-> PortW,
              pos |-> term.pos, cell |-> term.cell]
    BY <2>2
  <2> HIDE DEF t3
  <2>4. t4 = [top |-> PortH - 1, height |-> PortH, width |-> PortW,
              pos |-> Lost, cell |-> term.cell]
    BY <2>3
  <2>5. TERM_pcw_set_viewport(term, PortH - 1, PortH, PortW) = t4
    BY DEF TERM_pcw_set_viewport, t1, t2, t3
  <2> HIDE DEF t4
  <2>6. TERM_pcw_move_cursor(t4, 0, 0) = [t4 EXCEPT !.pos = <<0, 0>>]
    BY <1>2, <2>4 DEF TERM_pcw_move_cursor
  <2>7. [t4 EXCEPT !.pos = <<0, 0>>] = u
    BY <2>4
  <2> QED
    BY <2>5, <2>6, <2>7 DEF set_viewport_cmd
<1>4. u \in PromptView(0)
  BY <1>1, <1>2, SizeFacts DEF PromptView, Screen
<1>5. u.cell = term.cell
  OBVIOUS
<1>6. term' = TERM_pcw_write_char(u, ":") /\ p' = 0
  BY <1>3 DEF ShowColonCmd, ColonCmd
<1> HIDE DEF u
<1>7. ":" \in StatusGlyphs
  BY DEF StatusGlyphs
<1> QED
  BY <1>2, <1>4, <1>5, <1>6, <1>7, PromptWritten DEF SameRows

\* Each character of the command is drawn behind the last one.
LEMMA PromptCharShown ==
  ASSUME ControlInv, NEW c \in PromptChars, ShowPromptChar(c), term \in PromptView(p + 1)
  PROVE  term' \in PromptView(p' + 1) /\ SameRows(term, term')
<1>1. /\ p \in Nat /\ p + 1 + 1 < PortW /\ p' = p + 1 /\ p + 1 \in Nat
      /\ term' = TERM_pcw_write_char(term, c)
  BY SizeFacts DEF ControlInv, ShowPromptChar, PromptChar
<1>2. c \in StatusGlyphs
  BY DEF StatusGlyphs
<1> QED
  BY <1>1, <1>2, PromptWritten

\* DEL at the prompt goes back a column.
LEMMA PromptDelShown ==
  ASSUME ControlInv, ShowPromptDel, term \in PromptView(p + 1)
  PROVE  term' \in PromptView(p' + 1) /\ SameRows(term, term')
<1>1. /\ p \in Nat /\ p > 0 /\ p' = p - 1 /\ p' + 1 = p /\ p + 1 - 1 = p /\ p \in Columns
      /\ p + 1 # 0
      /\ term' = BackSpace(term)
  BY SizeFacts DEF ControlInv, ShowPromptDel, PromptDel, Columns
<1>2. /\ term = [top |-> PortH - 1, height |-> PortH, width |-> PortW,
                 pos |-> <<p + 1, 0>>, cell |-> term.cell]
      /\ term.cell \in [0..(PortH - 1) -> Row]
      /\ \A c \in Columns : term.cell[PortH - 1][c] \in StatusGlyphs
  BY DEF PromptView, Screen
<1>3. term.pos # Lost /\ term.pos[1] = p + 1
  BY <1>1, <1>2, LostAssumption
<1>4. term' = [term EXCEPT !.pos[1] = p]
  BY <1>1, <1>3 DEF BackSpace
<1>5. term' = [top |-> PortH - 1, height |-> PortH, width |-> PortW,
               pos |-> <<p, 0>>, cell |-> term.cell]
  BY <1>2, <1>4
<1> QED
  BY <1>1, <1>2, <1>5, SizeFacts DEF PromptView, Screen, SameRows

\* Leaving the prompt goes back to the text and to the cursor in it.
LEMMA PromptLeaveShown ==
  ASSUME EditorStep, ShowPromptLeave, term \in Screen
  PROVE  /\ term' \in TextView /\ SameRows(term, term')
         /\ cur_y \in Rows => term'.pos = <<cur_x, cur_y>>
<1>1. cur_x \in Columns /\ cur_x \in Int /\ cur_y \in Int
  BY EditorFacts DEF EditorStep
<1>2. term' = set_viewport_normal(term)
  BY DEF ShowPromptLeave
<1> QED
  BY <1>1, <1>2, NormalView DEF SameRows

-----------------------------------------------------------------------------
(* The invariant.                                                          *)

\* Whose viewport it is, and where the prompt's cursor is in it.
ViewInv == IF at_prompt THEN term \in PromptView(p + 1) ELSE term \in TextView

\* What a screen that is right shows: the text, and the cursor in it.
PictureInv ==
  ~faulted => /\ cur_y \in Rows
              /\ Shows(term, text_array, top_screen_line)
              /\ ~at_prompt => term.pos = <<cur_x, cur_y>>

ScreenInv == ViewInv /\ PictureInv

\* A step of the editor with its screen is a step of the editor.
LEMMA ScreenStepIsStep == [ScreenNext]_screenVars => [Next]_vars
BY DEF ScreenNext, ScreenStep, screenVars, Next, ShowInsertCmd, ShowCursorUp,
       ShowCursorDown, ShowCursorAlong, ShowRepaint, ShowColonCmd, ShowPromptChar,
       ShowPromptDel, ShowPromptLeave, ShowNothing, ShowEditNewline, ShowEditDel,
       ShowEditType

\* A key of the text: the viewport is the text's before it and after it.
LEMMA TextKeyKeeps ==
  ASSUME EditorStep, ScreenInv, faulted' = Faulting,
         ~at_prompt, ~at_prompt', term' \in TextView,
         Seen /\ cur_y' \in Rows => Seen',
         ShowRepaint /\ cur_y' \in Rows => Seen'
  PROVE  ScreenInv'
<1>1. cur_y' \in Nat /\ PortH \in Nat
  BY EditorFactsNext, SizeFacts DEF EditorStep
<1>2. ASSUME ~faulted' PROVE cur_y' \in Rows
  BY <1>1, <1>2 DEF Faulting, InPort, get_editor_port_height, Rows
<1>3. ASSUME ~faulted', ~ShowRepaint PROVE Seen
  BY <1>3 DEF Faulting, ScreenInv, ViewInv, PictureInv, Seen
<1>4. ~faulted' => Seen'
  BY <1>2, <1>3
<1> QED
  BY <1>4 DEF ScreenInv, ViewInv, PictureInv, Seen

\* A key of the prompt, or one that opens or leaves it.
LEMMA PromptKeyKeeps ==
  ASSUME EditorStep, ScreenInv, faulted' = Faulting, ~ShowRepaint,
         UNCHANGED <<cursor, text_array>>,
         SameRows(term, term'), ViewInv',
         ~at_prompt' /\ cur_y \in Rows => term'.pos = <<cur_x, cur_y>>
  PROVE  ScreenInv'
<1>1. ASSUME ~faulted'
      PROVE  /\ cur_y \in Rows /\ Shows(term', text_array, top_screen_line)
             /\ ~at_prompt' => term'.pos = <<cur_x, cur_y>>
  BY <1>1 DEF Faulting, ScreenInv, PictureInv, Shows, SameRows
<1> QED
  BY <1>1 DEF ScreenInv, PictureInv, cursor

\* Nothing is sent: a refused newline that moves the cursor is recorded.
LEMMA NothingShown ==
  ASSUME EditorStep, ScreenInv, ShowNothing, faulted' = Faulting
  PROVE  ScreenInv'
<1>1. UNCHANGED <<term, cur_y, top_screen_line, text_array, at_prompt>> /\ ~at_prompt
  <2>1. CASE EditEsc
    BY <2>1 DEF ShowNothing, EditEsc, EditKey, cursor, store, prompt
  <2>2. CASE EditNewlineRefused
    BY <2>2 DEF ShowNothing, EditNewlineRefused, FetchNothing, EditKey, store, prompt
  <2> QED
    BY <2>1, <2>2 DEF ShowNothing
<1>2. ~faulted' => cur_x' = cur_x
  BY DEF Faulting, ShowNothing, EditEsc, EditNewlineRefused, cursor
<1>3. ~ShowRepaint
  BY DEF ShowNothing, EditEsc, EditNewlineRefused, EditKey, ShowRepaint, CmdKey
<1> QED
  BY <1>1, <1>2, <1>3 DEF ScreenInv, ViewInv, PictureInv, Faulting

\* No key breaks the picture unless faulted records it.
LEMMA StepKeeps ==
  ASSUME EditorStep, ScreenInv, ScreenStep, faulted' = Faulting
  PROVE  ScreenInv'
<1>1. ASSUME ShowInsertCmd \/ ShowCursorUp \/ ShowCursorDown \/ ShowCursorAlong
               \/ ShowRepaint \/ ShowEditNewline \/ ShowEditDel
               \/ \E c \in TextChars : ShowEditType(c)
      PROVE  ScreenInv'
  <2>1. ~at_prompt /\ ~at_prompt'
    BY <1>1 DEF ShowInsertCmd, InsertCmd, ShowCursorUp, CursorUp, ShowCursorDown,
       CursorDown, ShowCursorAlong, CursorLeft, CursorRight, ShowRepaint,
       ShowEditNewline, EditNewline, ShowEditDel, EditDel, ShowEditType, EditType,
       CmdKey, EditKey, prompt, vars
  <2>2. term \in TextView
    BY <2>1 DEF ScreenInv, ViewInv
  <2>3. term' \in TextView
    BY <1>1, <2>2, InsertShown, UpShown, DownShown, AlongShown, RepaintShown,
       NewlineShown, DelShown, TypeShown
  <2>4. Seen /\ cur_y' \in Rows => Seen'
    BY <1>1, <2>2, InsertShown, UpShown, DownShown, AlongShown, RepaintShown,
       NewlineShown, DelShown, TypeShown
  <2>5. ShowRepaint /\ cur_y' \in Rows => Seen'
    BY <2>2, RepaintShown
  <2> QED
    BY <2>1, <2>3, <2>4, <2>5, TextKeyKeeps
<1>2. ASSUME ShowColonCmd PROVE ScreenInv'
  <2>1. /\ ~at_prompt /\ at_prompt' /\ ~at_prompt /\ UNCHANGED <<cursor, text_array>>
        /\ ~ShowRepaint
    BY <1>2 DEF ShowColonCmd, ColonCmd, CmdKey, store, ShowRepaint, vars, prompt
  <2>2. term \in TextView
    BY <2>1 DEF ScreenInv, ViewInv
  <2> QED
    BY <1>2, <2>1, <2>2, ColonShown, PromptKeyKeeps DEF ViewInv
<1>3. ASSUME ShowPromptDel \/ \E c \in PromptChars : ShowPromptChar(c)
      PROVE  ScreenInv'
  <2>1. at_prompt /\ at_prompt' /\ UNCHANGED <<cursor, text_array>> /\ ~ShowRepaint
    BY <1>3 DEF ShowPromptDel, PromptDel, ShowPromptChar, PromptChar, store,
       ShowRepaint, CmdKey
  <2>2. term \in PromptView(p + 1) /\ ControlInv
    BY <2>1, InvParts DEF ScreenInv, ViewInv, EditorStep
  <2>3. term' \in PromptView(p' + 1) /\ SameRows(term, term')
    BY <1>3, <2>2, PromptDelShown, PromptCharShown
  <2> QED
    BY <2>1, <2>3, PromptKeyKeeps DEF ViewInv
<1>4. ASSUME ShowPromptLeave PROVE ScreenInv'
  <2>1. at_prompt /\ ~at_prompt' /\ UNCHANGED <<cursor, text_array>> /\ ~ShowRepaint
    BY <1>4 DEF ShowPromptLeave, PromptEnter, PromptEsc, store, ShowRepaint, CmdKey
  <2>2. term \in Screen
    BY <2>1 DEF ScreenInv, ViewInv, PromptView
  <2> QED
    BY <1>4, <2>1, <2>2, PromptLeaveShown, PromptKeyKeeps DEF ViewInv
<1>5. ASSUME ShowNothing PROVE ScreenInv'
  BY <1>5, NothingShown
<1>6. ASSUME Exited /\ UNCHANGED term PROVE ScreenInv'
  <2>1. UNCHANGED <<vars, term>> /\ (~faulted' => ~faulted \/ ShowRepaint) /\ ~ShowRepaint
    BY <1>6 DEF Exited, Faulting, ShowRepaint, CmdKey
  <2> QED
    BY <2>1 DEF ScreenInv, ViewInv, PictureInv, vars, cursor, store, prompt
<1> QED
  BY <1>1, <1>2, <1>3, <1>4, <1>5, <1>6 DEF ScreenStep

\* The inductive step.
LEMMA NextScreen ==
  ASSUME Wild \notin BootCurLine
  PROVE  Inv /\ TextInv /\ ScreenInv /\ [ScreenNext]_screenVars
           => (Inv /\ TextInv /\ ScreenInv)'
<1> SUFFICES ASSUME Inv, TextInv, ScreenInv, [ScreenNext]_screenVars
             PROVE  (Inv /\ TextInv)' /\ ScreenInv'
  OBVIOUS
<1>1. EditorStep
  BY ScreenStepIsStep, NextInv, NextText DEF EditorStep
<1>2. CASE ScreenNext
  BY <1>1, <1>2, StepKeeps DEF ScreenNext, EditorStep
<1>3. CASE UNCHANGED screenVars
  BY <1>1, <1>3 DEF EditorStep, ScreenInv, ViewInv, PictureInv, screenVars, vars,
     cursor, store, prompt
<1> QED
  BY <1>2, <1>3

\* main's first picture is right.
LEMMA InitScreen == ScreenInit => Inv /\ TextInv /\ ScreenInv
<1> SUFFICES ASSUME ScreenInit PROVE Inv /\ TextInv /\ ScreenInv
  OBVIOUS
<1>1. Inv /\ TextInv
  BY InitInv, InitText DEF ScreenInit
<1>2. /\ cur_x \in Int /\ cur_y \in Int /\ cur_x \in Columns /\ cur_y \in Rows
      /\ top_screen_line \in Nat
      /\ \A n : Lookup(text_array, n) \in Showable
  BY <1>1, EditorFacts, SizeFacts DEF ScreenInit, Init, Rows
<1>3. TextShowable
  BY <1>2, ShownLine DEF TextShowable
<1>4. BlankScreen \in Screen /\ BlankScreen.top = 0
  <2>1. [r \in 0..(PortH - 1) |-> [c \in 0..(PortW - 1) |-> Blank]] \in [0..(PortH - 1) -> Row]
    BY DEF Row, Columns, Glyph, StatusGlyphs
  <2>2. <<0, 0>> \in Columns \X Nat
    BY SizeFacts DEF Columns
  <2>3. PortH - 1 \in 0..(PortH - 1)
    BY SizeFacts
  <2> QED
    BY <2>1, <2>2, <2>3, SizeFacts DEF BlankScreen, Screen, Columns, StatusGlyphs
<1>5. /\ term \in TextView
      /\ \A y \in Rows : term.cell[y] = RowOf(LineShownAt(y))
      /\ term.pos = <<cur_x, cur_y>>
  BY <1>2, <1>3, <1>4, RepaintScreenView DEF ScreenInit
<1>6. Shows(term, text_array, top_screen_line)
  BY <1>5, ShownLine DEF Shows
<1> QED
  BY <1>1, <1>2, <1>5, <1>6 DEF ScreenInv, ViewInv, PictureInv, ScreenInit, Init

\* The invariant is the picture the property asks for.
LEMMA InvShows == ScreenInv => DisplayFaithful
<1> SUFFICES ASSUME ScreenInv, ~faulted
             PROVE  /\ \A y \in 0..(get_editor_port_height - 1) : RowFaithful(y)
                    /\ ~at_prompt => CursorFaithful
                    /\ \A c \in 0..(PortW - 1) : term.cell[PortH - 1][c] \in StatusGlyphs
  BY DEF DisplayFaithful
<1>1. term \in Screen
  BY DEF ScreenInv, ViewInv, PromptView, TextView
<1>2. ASSUME NEW y \in 0..(get_editor_port_height - 1) PROVE RowFaithful(y)
  <2>1. y \in Rows
    BY SizeFacts DEF get_editor_port_height, Rows
  <2>2. term.cell[y] = RowOf(LineShownAt(y))
    BY <2>1, ShownLine DEF ScreenInv, PictureInv, Shows
  <2>3. RowOf(LineShownAt(y))
          = [c \in Columns |-> IF c < Len(Glyphs(LineShownAt(y)))
                                 THEN Glyphs(LineShownAt(y))[c + 1] ELSE Blank]
    BY DEF RowOf, Over, EmptyRow
  <2> QED
    BY <2>2, <2>3 DEF RowFaithful, Columns
<1>3. ~at_prompt => CursorFaithful
  BY DEF ScreenInv, ViewInv, PictureInv, CursorFaithful, TextView
<1>4. \A c \in 0..(PortW - 1) : term.cell[PortH - 1][c] \in StatusGlyphs
  BY <1>1 DEF Screen, Columns
<1> QED
  BY <1>2, <1>3, <1>4

\* The partial repairs of the key handlers add up to the picture
\* repaint_screen draws, on every screen, as long as "j" has not left the
\* viewport and no refused newline has moved the cursor unseen.
THEOREM DisplayHolds ==
  ASSUME Wild \notin BootCurLine
  PROVE  ScreenSpec => []DisplayFaithful
<1>1. Inv /\ TextInv /\ ScreenInv /\ [ScreenNext]_screenVars
        => (Inv /\ TextInv /\ ScreenInv)'
  BY NextScreen
<1> QED
  BY <1>1, InitScreen, InvShows, PTL DEF ScreenSpec
=============================================================================
