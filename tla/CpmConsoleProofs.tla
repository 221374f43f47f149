-------------------------- MODULE CpmConsoleProofs --------------------------
(***************************************************************************)
(* What cpm_gets returns and what its newline spoils, for every size of    *)
(* the line buffer and every user.                                         *)
(***************************************************************************)
EXTENDS CpmConsole, SequenceTheorems, TLAPS

Inv ==
  /\ DOMAIN mem = 0..(Size + 3)
  /\ GetsReturnsLine
  /\ CellsKept

-----------------------------------------------------------------------------

\* The smallest element of a set of which one is known.
LEMMA MinIs ==
  ASSUME NEW I \in SUBSET Int, NEW m \in I, \A i \in I : m <= i
  PROVE  Min(I) = m
  <1>1. m \in I /\ \A i \in I : m <= i
    OBVIOUS
  <1>2. \A k \in I : (\A i \in I : k <= i) => k = m
    OBVIOUS
  <1> QED BY <1>1, <1>2 DEF Min

\* Four numbers or some of them have a smallest.
LEMMA MinOfFour ==
  ASSUME NEW p \in Int, NEW I \in SUBSET (p..(p + 3)), I # {}
  PROVE  Min(I) \in I
  <1>1. I \in SUBSET Int OBVIOUS
  <1>2. CASE p \in I
    <2>1. \A i \in I : p <= i OBVIOUS
    <2> QED BY <1>1, <1>2, <2>1, MinIs
  <1>3. CASE p \notin I /\ p + 1 \in I
    <2>1. \A i \in I : p + 1 <= i BY <1>3
    <2> QED BY <1>1, <1>3, <2>1, MinIs
  <1>4. CASE p \notin I /\ p + 1 \notin I /\ p + 2 \in I
    <2>1. \A i \in I : p + 2 <= i BY <1>4
    <2> QED BY <1>1, <1>4, <2>1, MinIs
  <1>5. CASE p \notin I /\ p + 1 \notin I /\ p + 2 \notin I
    <2>1. \A i \in I : i = p + 3 BY <1>5
    <2>2. p + 3 \in I BY <2>1
    <2>3. \A i \in I : p + 3 <= i BY <2>1
    <2> QED BY <1>1, <2>2, <2>3, MinIs
  <1> QED BY <1>2, <1>3, <1>4, <1>5

\* strcpy over the buffer and the cells behind it, for a line of len bytes
\* and its newline: it copies those, and only those when a zero follows.
LEMMA Copied ==
  ASSUME NEW S, NEW q \in Seq(S), Len(q) = Size + 4, NEW len \in 0..Size,
         \A j \in 1..(len + 1) : 0 # q[j],
         len + 2 <= Size => q[len + 2] = 0
  PROVE  /\ CString(q) \in Seq(S) /\ Len(CString(q)) >= len + 1
         /\ \A j \in 1..(len + 1) : CString(q)[j] = q[j]
         /\ len + 2 <= Size => Len(CString(q)) = len + 1
  <1> DEFINE I == {i \in 1..Len(q) : q[i] = 0}
             end == IF I # {} THEN Min(I) ELSE 0
  <1>1. CString(q) = IF end = 0 THEN q ELSE SubSeq(q, 1, end - 1)
    BY DEF CString, SelectInSeq
  <1>2. I \in SUBSET Int /\ \A i \in I : i >= len + 2 /\ i <= Size + 4
    BY SizeAssumption
  <1>3. len + 2 <= Size => end = len + 2
    <2> SUFFICES ASSUME len + 2 <= Size PROVE Min(I) = len + 2 /\ I # {}
      OBVIOUS
    <2>1. len + 2 \in I BY SizeAssumption
    <2> HIDE DEF I
    <2> QED BY <1>2, <2>1, MinIs
  <1>4. end = 0 \/ end \in I
    <2>1. CASE len + 2 <= Size
      <3>1. len + 2 \in I BY <2>1, SizeAssumption
      <3> QED BY <1>3, <2>1, <3>1
    <2>2. CASE ~(len + 2 <= Size)
      <3>1. I \in SUBSET ((Size + 1)..(Size + 1 + 3)) BY <1>2, <2>2, SizeAssumption
      <3> HIDE DEF I
      <3>2. Size + 1 \in Int BY SizeAssumption
      <3>3. I # {} => Min(I) \in I BY <3>1, <3>2, MinOfFour
      <3> QED BY <3>3
    <2> QED BY <2>1, <2>2
  <1> HIDE DEF I, end
  <1>5. CASE end = 0
    <2>1. CString(q) = q BY <1>1, <1>5
    <2>2. ~(len + 2 <= Size) BY <1>3, <1>5
    <2> QED BY <2>1, <2>2, SizeAssumption
  <1>6. CASE end \in I
    <2>1. end \in Int /\ end >= len + 2 /\ end <= Size + 4 BY <1>2, <1>6
    <2>2. CString(q) = SubSeq(q, 1, end - 1) BY <1>1, <2>1
    <2>3. /\ SubSeq(q, 1, end - 1) \in Seq(S) /\ Len(SubSeq(q, 1, end - 1)) = end - 1
          /\ \A j \in 1..(end - 1) : SubSeq(q, 1, end - 1)[j] = q[j]
      BY <2>1, SubSeqProperties
    <2> QED BY <1>3, <2>1, <2>2, <2>3
  <1> QED BY <1>4, <1>5, <1>6

\* What cpm_gets leaves in memory for a line s.
AfterGets(e, s, regs) ==
  /\ DOMAIN e = 0..(Size + 3)
  /\ Len(s) \in 0..Size /\ s \in Seq(Chars)
  /\ \A i \in 0..(Size + 3) : i < Len(s) => e[i] = s[i + 1]
  /\ e[Len(s)] = Newline
  /\ \A i \in 0..(Size - 1) : i > Len(s) => e[i] = 0
  /\ e[Size] = IF Len(s) = Size THEN Newline ELSE regs.b
  /\ e[Size + 1] = regs.a /\ e[Size + 2] = regs.h /\ e[Size + 3] = regs.l

LEMMA Memory ==
  ASSUME NEW m, DOMAIN m = 0..(Size + 3), NEW s \in Lines, NEW regs,
         NEW e, e = EndLine(cpmbdos_extn(ReadLine(Cleared(m), s), regs), Len(s))
  PROVE  AfterGets(e, s, regs)
  <1>1. PICK n \in 0..Size : s \in [1..n -> Chars]
    BY DEF Lines
  <1>2. s \in Seq(Chars) /\ Len(s) = n
    BY <1>1, SizeAssumption, LenProperties, SeqDef
  <1> DEFINE r == cpmbdos_extn(ReadLine(Cleared(m), s), regs)
  <1>3. DOMAIN r = 0..(Size + 3)
    BY DEF cpmbdos_extn, ReadLine, Cleared
  <1>4. \A i \in 0..(Size + 3) : i < Len(s) => r[i] = s[i + 1]
    BY <1>2, SizeAssumption DEF cpmbdos_extn, ReadLine, Cleared
  <1>5. \A i \in 0..(Size - 1) : i > Len(s) => r[i] = 0
    BY <1>2, SizeAssumption DEF cpmbdos_extn, ReadLine, Cleared
  <1>6. r[Size] = regs.b /\ r[Size + 1] = regs.a /\ r[Size + 2] = regs.h /\ r[Size + 3] = regs.l
    BY SizeAssumption DEF cpmbdos_extn, ReadLine, Cleared
  <1>7. e = [r EXCEPT ![Len(s)] = Newline]
    BY DEF EndLine
  <1> HIDE DEF r
  <1>8. n \in 0..(Size + 3)
    BY SizeAssumption
  <1>9. DOMAIN e = 0..(Size + 3) /\ e[n] = Newline /\ \A i \in 0..(Size + 3) : i # n => e[i] = r[i]
    BY <1>2, <1>3, <1>7, <1>8
  <1>10. Len(s) \in 0..Size BY <1>2
  <1>11. \A i \in 0..(Size + 3) : i < Len(s) => e[i] = s[i + 1]
    BY <1>2, <1>4, <1>9
  <1>12. \A i \in 0..(Size - 1) : i > Len(s) => e[i] = 0
    BY <1>2, <1>5, <1>9, SizeAssumption
  <1>13. e[Size] = IF Len(s) = Size THEN Newline ELSE regs.b
    <2>1. CASE n = Size BY <1>2, <1>9, <2>1
    <2>2. CASE n # Size BY <1>2, <1>6, <1>9, <2>2, SizeAssumption
    <2> QED BY <2>1, <2>2
  <1>14. e[Size + 1] = regs.a /\ e[Size + 2] = regs.h /\ e[Size + 3] = regs.l
    <2>1. /\ Size + 1 \in 0..(Size + 3) /\ Size + 1 # n
          /\ Size + 2 \in 0..(Size + 3) /\ Size + 2 # n
          /\ Size + 3 \in 0..(Size + 3) /\ Size + 3 # n
      BY SizeAssumption
    <2> QED BY <1>6, <1>9, <2>1
  <1>15. DOMAIN e = 0..(Size + 3) BY <1>9
  <1>16. e[Len(s)] = Newline BY <1>2, <1>9
  <1>17. s \in Seq(Chars) BY <1>2
  <1> QED BY <1>10, <1>11, <1>12, <1>13, <1>14, <1>15, <1>16, <1>17, Zenon DEF AfterGets

\* A line comes back as GetsReturnsLine says.
LEMMA GetsStep ==
  ASSUME Inv, NEW s \in Lines, NEW regs \in Regs, cpm_gets(s, regs)
  PROVE  Inv'
  <1>1. PICK e : e = mem' OBVIOUS
  <1>2. e = EndLine(cpmbdos_extn(ReadLine(Cleared(mem), s), regs), Len(s))
    BY <1>1 DEF cpm_gets
  <1>3. DOMAIN mem = 0..(Size + 3) BY DEF Inv
  <1>4. /\ DOMAIN e = 0..(Size + 3)
        /\ Len(s) \in 0..Size /\ s \in Seq(Chars)
        /\ \A i \in 0..(Size + 3) : i < Len(s) => e[i] = s[i + 1]
        /\ e[Len(s)] = Newline
        /\ \A i \in 0..(Size - 1) : i > Len(s) => e[i] = 0
        /\ e[Size] = IF Len(s) = Size THEN Newline ELSE regs.b
        /\ e[Size + 1] = regs.a /\ e[Size + 2] = regs.h /\ e[Size + 3] = regs.l
    <2>1. PICK m : m = mem OBVIOUS
    <2>2. DOMAIN m = 0..(Size + 3) BY <1>3, <2>1
    <2>3. e = EndLine(cpmbdos_extn(ReadLine(Cleared(m), s), regs), Len(s))
      BY <1>2, <2>1
    <2>4. AfterGets(e, s, regs) BY <2>2, <2>3, Memory
    <2> QED BY <2>4, Zenon DEF AfterGets
  <1> DEFINE q == [j \in 1..(Size + 4) |-> e[j - 1]]
             S == {e[i] : i \in 0..(Size + 3)}
             t == Append(s, Newline)
  <1>5. str' = CString(q)
    BY <1>1 DEF cpm_gets, From
  <1>6. q \in Seq(S) /\ Len(q) = Size + 4
    <2>1. q \in [1..(Size + 4) -> S] BY SizeAssumption
    <2> QED BY <2>1, SizeAssumption, LenProperties, SeqDef
  <1>7. t \in Seq(Chars \cup {Newline}) /\ Len(t) = Len(s) + 1
        /\ \A j \in 1..(Len(s) + 1) : t[j] = q[j] /\ 0 # q[j]
    <2>1. t \in Seq(Chars \cup {Newline}) /\ Len(t) = Len(s) + 1
      BY <1>4, AppendProperties
    <2>2. ASSUME NEW j \in 1..(Len(s) + 1) PROVE t[j] = q[j] /\ 0 # q[j]
      <3>1. q[j] = e[j - 1] BY <1>4, SizeAssumption
      <3>2. CASE j = Len(s) + 1
        BY <1>4, <3>1, <3>2, AppendProperties, SizeAssumption
      <3>3. CASE j # Len(s) + 1
        <4>1. j \in 1..Len(s) /\ j - 1 \in 0..(Size + 3) /\ j - 1 < Len(s)
          BY <1>4, <3>3, SizeAssumption
        <4>2. e[j - 1] = s[j] BY <1>4, <4>1
        <4>3. s[j] \in Chars BY <1>4, <4>1, ElementOfSeq
        <4>4. t[j] = s[j] BY <1>4, <4>1, AppendProperties
        <4> QED BY <3>1, <4>2, <4>3, <4>4, SizeAssumption
      <3> QED BY <3>2, <3>3
    <2> QED BY <2>1, <2>2
  <1>8. Len(s) + 2 <= Size => q[Len(s) + 2] = 0
    BY <1>4, SizeAssumption
  <1> HIDE DEF q, S, t
  <1>9. /\ CString(q) \in Seq(S) /\ Len(CString(q)) >= Len(s) + 1
        /\ \A j \in 1..(Len(s) + 1) : CString(q)[j] = q[j]
        /\ Len(s) + 2 <= Size => Len(CString(q)) = Len(s) + 1
    <2>1. Len(s) \in 0..Size /\ \A j \in 1..(Len(s) + 1) : 0 # q[j]
      BY <1>4, <1>7
    <2> QED BY <1>6, <1>8, <2>1, Copied
  <1>10. PICK u : u = CString(q) OBVIOUS
  <1>11. Len(s) + 2 <= Size => u = t
    BY <1>4, <1>7, <1>9, <1>10, SeqEqual
  <1>12. IsPrefix(t, u)
    <2>1. Len(t) <= Len(u) BY <1>7, <1>9, <1>10
    <2>2. SubSeq(t, 1, Len(t)) = SubSeq(u, 1, Len(t))
      BY <1>4, <1>7, <1>9, <1>10
    <2> QED BY <2>1, <2>2 DEF IsPrefix
  <1>13. GetsReturnsLine'
    <2>1. line' = s /\ str' = u BY <1>5, <1>10 DEF cpm_gets
    <2> QED BY <2>1, <1>11, <1>12 DEF GetsReturnsLine, t
  <1>14. CellsKept'
    <2>1. stored' = regs /\ full' = (Len(s) = Size) BY DEF cpm_gets
    <2> QED BY <1>1, <1>4, <2>1 DEF CellsKept
  <1> QED BY <1>1, <1>4, <1>13, <1>14 DEF Inv

\* Any other call stores the registers and touches no line.
LEMMA OtherStep ==
  ASSUME Inv, NEW regs \in Regs, OtherCall(regs)
  PROVE  Inv'
  <1>1. PICK e : e = mem' OBVIOUS
  <1>2. e = cpmbdos_extn(mem, regs) /\ stored' = regs /\ full' = FALSE /\ UNCHANGED <<str, line>>
    BY <1>1 DEF OtherCall
  <1>3. DOMAIN e = 0..(Size + 3)
    BY <1>2 DEF Inv, cpmbdos_extn
  <1>4. e[Size] = regs.b /\ e[Size + 1] = regs.a /\ e[Size + 2] = regs.h /\ e[Size + 3] = regs.l
    BY <1>2, SizeAssumption DEF Inv, cpmbdos_extn
  <1>5. CellsKept' BY <1>1, <1>2, <1>4 DEF CellsKept
  <1>6. GetsReturnsLine' BY <1>2 DEF Inv, GetsReturnsLine
  <1> QED BY <1>1, <1>3, <1>5, <1>6 DEF Inv

\* A call that comes too early has cleared the line's bytes and nothing else
\* before the gate is reached.
LEMMA TooEarlyStep ==
  ASSUME Inv, GetsTooEarly
  PROVE  Inv'
  <1>1. PICK e : e = mem' OBVIOUS
  <1>2. e = Cleared(mem) /\ UNCHANGED <<str, line, stored, full>>
    BY <1>1 DEF GetsTooEarly
  <1>3. DOMAIN e = 0..(Size + 3)
    BY <1>2 DEF Inv, Cleared
  <1>4. \A i \in Cells : e[i] = mem[i]
    BY <1>2, SizeAssumption DEF Inv, Cleared, Cells
  <1>5. /\ Size \in Cells /\ Size + 1 \in Cells
        /\ Size + 2 \in Cells /\ Size + 3 \in Cells
    BY SizeAssumption DEF Cells
  <1>6. CellsKept' BY <1>1, <1>2, <1>4, <1>5 DEF Inv, CellsKept
  <1>7. GetsReturnsLine' BY <1>2 DEF Inv, GetsReturnsLine
  <1> QED BY <1>1, <1>3, <1>6, <1>7 DEF Inv

LEMMA InitInv == Init => Inv
  BY SizeAssumption DEF Init, Inv, GetsReturnsLine, CellsKept

LEMMA NextInv == Inv /\ [Next]_vars => Inv'
  <1> SUFFICES ASSUME Inv, [Next]_vars PROVE Inv' OBVIOUS
  <1>1. CASE UNCHANGED <<mem, str, line, stored, full>>
    BY <1>1 DEF Inv, GetsReturnsLine, CellsKept
  <1>2. CASE \E s \in Lines, regs \in Regs : cpm_gets(s, regs)
    BY <1>2, GetsStep
  <1>3. CASE \E regs \in Regs : OtherCall(regs)
    BY <1>3, OtherStep
  <1>4. CASE GetsTooEarly
    BY <1>4, TooEarlyStep
  <1>5. CASE cpm_sysfunc_init \/ cpm_reset \/ Stop \/ UNCHANGED vars
    <2>1. UNCHANGED <<mem, str, line, stored, full>>
      BY <1>5 DEF cpm_sysfunc_init, cpm_reset, Stop, vars
    <2> QED BY <1>1, <2>1
  <1> QED BY <1>2, <1>3, <1>4, <1>5 DEF Next

-----------------------------------------------------------------------------

THEOREM InvHolds == Spec => []Inv
  BY InitInv, NextInv, PTL DEF Spec

\* Every line that leaves room for its newline and a zero comes back
\* exactly, and every other one as the start of the string.
THEOREM GetsReturnsLineHolds == Spec => []GetsReturnsLine
  BY InvHolds, PTL DEF Inv

\* The gate's cells hold what BDOS returned last, but for the one byte a
\* full line's newline takes until the next call through the gate.
THEOREM CellsKeptHolds == Spec => []CellsKept
  BY InvHolds, PTL DEF Inv
=============================================================================
