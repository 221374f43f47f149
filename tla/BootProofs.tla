----------------------------- MODULE BootProofs -----------------------------
(***************************************************************************)
(* The way from the linker's file to a running program, for every file,    *)
(* memory map and start of the vectors: the image is the records', no      *)
(* damaged file is stored, the heap keeps clear of program and BDOS and    *)
(* loses no byte, and each interrupt has its handler.                      *)
(***************************************************************************)
EXTENDS Boot, SequenceTheorems, NaturalsInduction, WellFoundedInduction, TLAPS

-----------------------------------------------------------------------------
(* Interrupt vectors.                                                      *)

\* Once a channel may interrupt, the words its interrupts point at are its
\* handlers'.
VecInv ==
  /\ vector \in Nat
  /\ stage \notin {"enable", "running"} => intOn = {}
  /\ intOn # {} => \A s \in Handled : vec_table[(vector + HandNo(s)) \div 2] = s
  /\ OwnHandler

\* The mask leaves bits 4 to 7 of an even start, so that a handler's own bits
\* are added to it and no two share a word.
LEMMA MaskedStart ==
  ASSUME NEW v \in VecStarts
  PROVE  \E k \in 0..15 : Masked(v) = 16 * k
<1>1. PICK i \in 0..127 : v = 2 * i
  BY VecAssumption
<1>2. v \div 16 \in 0..15 /\ v % 2 = 0
  BY <1>1
<1> QED
  BY <1>2 DEF Masked

LEMMA HandNos ==
  /\ \A s \in Handled : HandNo(s) \in {2, 4, 6, 10, 12, 14}
  /\ \A s, t \in Handled : HandNo(s) = HandNo(t) => s = t
BY DEF Handled, HandNo, Source, Channels

LEMMA InitVec == Init => VecInv
<1> SUFFICES ASSUME Init PROVE VecInv
  OBVIOUS
<1>1. vector = 0 /\ intOn = {} /\ served = <<NoSource, NoSource>>
  BY DEF Init, VecInit
<1> QED
  BY <1>1 DEF VecInv, OwnHandler

LEMMA SetupVec ==
  ASSUME VecInv, NEW v \in VecStarts, modprn_setupInterrupts(v)
  PROVE  /\ vector' \in Nat
         /\ \A s \in Handled : vec_table'[(vector' + HandNo(s)) \div 2] = s
<1>1. PICK k \in 0..15 : Masked(v) = 16 * k
  BY MaskedStart
<1>2. vector' = 16 * k
  BY <1>1 DEF modprn_setupInterrupts
<1>3. \A s \in Handled : /\ Index(16 * k + HandNo(s)) \in 0..127
                         /\ Index(16 * k + HandNo(s)) = 8 * k + HandNo(s) \div 2
  BY HandNos DEF Index
<1>4. ASSUME NEW s \in Handled
      PROVE  vec_table'[(vector' + HandNo(s)) \div 2] = s
  <2> DEFINE i == Index(16 * k + HandNo(s))
  <2>1. \A t \in Handled : i = Index(16 * k + HandNo(t)) => t = s
    <3> SUFFICES ASSUME NEW t \in Handled, i = Index(16 * k + HandNo(t)) PROVE t = s
      OBVIOUS
    <3>1. HandNo(s) \div 2 = HandNo(t) \div 2
      <4>1. HandNo(s) \div 2 \in Int /\ HandNo(t) \div 2 \in Int
        BY HandNos
      <4> QED
        BY <1>3, <4>1
    <3>2. HandNo(s) = HandNo(t)
      BY <3>1, HandNos
    <3> QED
      BY <3>2, HandNos
  <2>2. (CHOOSE t \in Handled : i = Index(16 * k + HandNo(t))) = s
    BY <2>1
  <2>3. i \in 0..127
    BY <1>3
  <2>4. vec_table'[i] = s
    BY <1>1, <2>2, <2>3 DEF modprn_setupInterrupts
  <2> QED
    BY <1>2, <2>4 DEF Index
<1> QED
  BY <1>2, <1>4

LEMMA InterruptVec ==
  ASSUME VecInv, NEW c \in Channels, Interrupt(c)
  PROVE  OwnHandler'
<1> DEFINE s == Source(c, IF c \in rxError THEN "special" ELSE "rx")
           status == (IF c = "A" THEN 4 ELSE 0) + (IF c \in rxError THEN 3 ELSE 2)
<1>1. s \in Handled /\ HandNo(s) = 2 * status
  BY DEF Handled, Channels, Source, HandNo
<1>2. vec_table[(vector + HandNo(s)) \div 2] = s
  BY <1>1 DEF VecInv, Interrupt
<1>3. served' = <<s, vec_table[(vector + 2 * status) \div 2]>>
  BY DEF Interrupt
<1> QED
  BY <1>1, <1>2, <1>3 DEF OwnHandler

LEMMA NextVec == VecInv /\ [Next]_vars => VecInv'
<1> SUFFICES ASSUME VecInv, [Next]_vars PROVE VecInv'
  OBVIOUS
<1>1. CASE Load
  BY <1>1 DEF VecInv, Load, Go, vecVars, OwnHandler
<1>2. CASE Pack
  BY <1>2 DEF VecInv, Pack, Go, vecVars, OwnHandler
<1>3. CASE Send
  BY <1>3 DEF VecInv, Send, Go, vecVars, OwnHandler
<1>4. CASE StartProgram
  BY <1>4 DEF VecInv, StartProgram, Go, vecVars, OwnHandler
<1>5. CASE EditHeap
  BY <1>5 DEF VecInv, EditHeap, Go, vecVars, OwnHandler
<1>6. CASE Serial
  <2>1. CASE Go("main", "vectors") /\ hw_setupInterrupts
    BY <2>1 DEF VecInv, Go, hw_setupInterrupts, OwnHandler
  <2>2. CASE Go("vectors", "enable") /\ \E v \in VecStarts : modprn_setupInterrupts(v)
    <3>1. PICK v \in VecStarts : modprn_setupInterrupts(v)
      BY <2>2
    <3>2. served' = served /\ stage' = "enable"
      BY <2>2, <3>1 DEF Go, modprn_setupInterrupts
    <3> QED
      BY <3>1, <3>2, SetupVec DEF VecInv, OwnHandler
  <2>3. CASE Go("enable", "running") /\ hw_enableInterrupts
    BY <2>3 DEF VecInv, Go, hw_enableInterrupts, OwnHandler
  <2>4. CASE /\ stage \in {"enable", "running"}
             /\ \E c \in Channels : Arrive(c) \/ Interrupt(c)
             /\ UNCHANGED <<stage, program>>
    <3>1. PICK c \in Channels : Arrive(c) \/ Interrupt(c)
      BY <2>4
    <3>2. vec_table' = vec_table /\ vector' = vector /\ intOn' = intOn /\ stage' = stage
      BY <2>4, <3>1 DEF Arrive, Interrupt
    <3>3. OwnHandler'
      BY <3>1, InterruptVec DEF Arrive, OwnHandler, VecInv
    <3> QED
      BY <3>2, <3>3 DEF VecInv
  <2> QED
    BY <1>6, <2>1, <2>2, <2>3, <2>4 DEF Serial
<1>7. CASE UNCHANGED vars
  BY <1>7 DEF VecInv, vars, vecVars, OwnHandler
<1> QED
  BY <1>1, <1>2, <1>3, <1>4, <1>5, <1>6, <1>7 DEF Next

\* For every even start of the vectors, each interrupt gets the handler
\* written for its channel and kind.
THEOREM OwnHandlerHolds == Spec => []OwnHandler
<1>1. VecInv => OwnHandler
  BY DEF VecInv
<1> QED
  BY <1>1, InitVec, NextVec, PTL DEF Spec

-----------------------------------------------------------------------------
(* The image.                                                              *)

\* Of the first k records of f, the last to cover a has given it the byte b.
Written(f, k, a, b) ==
  \/ b = 0 /\ \A i \in 1..k : ~Covers(f[i], a)
  \/ \E i \in 1..k : /\ Covers(f[i], a) /\ b = At(f[i], a)
                    /\ \A j \in (i + 1)..k : ~Covers(f[j], a)

Read == Len(hex) - Len(records)

\* memory holds what the records read so far have written, and none of them
\* reaches beyond uiLastByte.
HexInv ==
  /\ hex \in Seq(Record) /\ records \in Seq(Record)
  /\ \A i \in DOMAIN hex : End(hex[i]) <= MemSize
  /\ Read \in 0..Len(hex)
  /\ \A i \in DOMAIN records : records[i] = hex[Read + i]
  /\ DOMAIN memory = 0..(MemSize - 1)
  /\ \A a \in DOMAIN memory : Written(hex, Read, a, memory[a])
  /\ uiLastByte \in 0..MemSize
  /\ \A i \in 1..Read : End(hex[i]) <= uiLastByte
  /\ stage = "load" => /\ com = NotWritten
                       /\ \E i \in DOMAIN hex : hex[i].type = 0 /\ End(hex[i]) > Start
  /\ ImageFaithful

LEMMA EndType == \A r \in Record : End(r) \in Nat
BY DEF Record, End

LEMMA MaxOf ==
  ASSUME NEW S, NEW m \in S, \A k \in S : k \in Int /\ m >= k
  PROVE  Max(S) = m
<1>1. \A x \in S : (\A y \in S : x >= y) => x = m
  OBVIOUS
<1> QED
  BY <1>1 DEF Max

LEMMA InitHex == Init => HexInv
<1> SUFFICES ASSUME Init PROVE HexInv
  OBVIOUS
<1>1. /\ hex \in HexFiles /\ records = hex /\ memory = Zeros /\ uiLastByte = 0 /\ com = NotWritten
      /\ \E i \in DOMAIN hex : hex[i].type = 0 /\ End(hex[i]) > Start
  BY DEF Init, HexInit
<1>2. hex \in Seq(Record) /\ \A i \in DOMAIN hex : End(hex[i]) <= MemSize
  BY <1>1, FilesAssumption
<1>3. Read = 0
  BY <1>1, <1>2 DEF Read
<1>4. \A a \in 0..(MemSize - 1) : Written(hex, 0, a, 0)
  BY DEF Written
<1> QED
  BY <1>1, <1>2, <1>3, <1>4, MemoryAssumption DEF HexInv, Zeros, ImageFaithful

\* One record more.
LEMMA OneMore ==
  ASSUME NEW f, NEW k \in Nat, NEW a, NEW b, Written(f, k, a, b)
  PROVE  Written(f, k + 1, a, IF Covers(f[k + 1], a) THEN At(f[k + 1], a) ELSE b)
<1>1. CASE Covers(f[k + 1], a)
  BY <1>1 DEF Written
<1>2. CASE ~Covers(f[k + 1], a)
  <2>1. 1..(k + 1) = (1..k) \cup {k + 1}
    OBVIOUS
  <2>2. CASE b = 0 /\ \A i \in 1..k : ~Covers(f[i], a)
    BY <1>2, <2>1, <2>2 DEF Written
  <2>3. CASE \E i \in 1..k : /\ Covers(f[i], a) /\ b = At(f[i], a)
                             /\ \A j \in (i + 1)..k : ~Covers(f[j], a)
    <3>1. PICK i \in 1..k : /\ Covers(f[i], a) /\ b = At(f[i], a)
                           /\ \A j \in (i + 1)..k : ~Covers(f[j], a)
      BY <2>3
    <3>2. \A j \in (i + 1)..(k + 1) : j \in (i + 1)..k \/ j = k + 1
      OBVIOUS
    <3>3. \A j \in (i + 1)..(k + 1) : ~Covers(f[j], a)
      BY <1>2, <3>1, <3>2
    <3> QED
      BY <1>2, <2>1, <3>1, <3>3 DEF Written
  <2> QED
    BY <2>2, <2>3 DEF Written
<1> QED
  BY <1>1, <1>2

LEMMA ReadHex ==
  ASSUME HexInv, stage = "load", ReadRecord, stage' = "load"
  PROVE  HexInv'
<1> DEFINE r == Head(records)
<1>1. /\ records # <<>> /\ records' = Tail(records) /\ hex' = hex /\ com' = com
      /\ memory' = [a \in DOMAIN memory |-> IF Covers(r, a) THEN At(r, a) ELSE memory[a]]
      /\ uiLastByte' = LastByte(uiLastByte, r)
  BY DEF ReadRecord
<1>2. /\ records' \in Seq(Record) /\ Len(records') = Len(records) - 1
      /\ \A i \in DOMAIN records' : i + 1 \in DOMAIN records /\ records'[i] = records[i + 1]
      /\ r = records[1] /\ 1 \in DOMAIN records
  BY <1>1 DEF HexInv
<1>3. Len(hex) \in Nat /\ Len(records) \in Nat /\ Len(records) > 0 /\ DOMAIN hex = 1..Len(hex)
  BY <1>1 DEF HexInv
<1>4. Read' = Read + 1 /\ Read' \in 0..Len(hex) /\ Read + 1 \in DOMAIN hex
  BY <1>1, <1>2, <1>3 DEF Read, HexInv
<1>5. r = hex[Read + 1] /\ r \in Record /\ End(r) \in Nat /\ End(r) <= MemSize
  <2>1. r = hex[Read + 1]
    BY <1>2 DEF HexInv
  <2>2. hex[Read + 1] \in Record /\ End(hex[Read + 1]) <= MemSize
    BY <1>4 DEF HexInv
  <2> QED
    BY <2>1, <2>2, EndType
<1>6. \A i \in DOMAIN records' : records'[i] = hex'[Read' + i]
  <2> SUFFICES ASSUME NEW i \in DOMAIN records' PROVE records'[i] = hex'[Read' + i]
    OBVIOUS
  <2>1. records'[i] = hex[Read + (i + 1)]
    BY <1>2 DEF HexInv
  <2>2. i \in Int
    BY <1>2
  <2>3. Read + (i + 1) = Read' + i
    BY <1>3, <1>4, <2>2 DEF HexInv
  <2> QED
    BY <1>1, <2>1, <2>3
<1>7. \A a \in DOMAIN memory' : Written(hex', Read', a, memory'[a])
  <2> SUFFICES ASSUME NEW a \in DOMAIN memory PROVE Written(hex, Read + 1, a, memory'[a])
    BY <1>1, <1>4
  <2>1. Written(hex, Read, a, memory[a]) /\ Read \in Nat
    BY <1>3 DEF HexInv
  <2>2. memory'[a] = IF Covers(hex[Read + 1], a) THEN At(hex[Read + 1], a) ELSE memory[a]
    BY <1>1, <1>5
  <2> QED
    BY <2>1, <2>2, OneMore
<1>8. uiLastByte' \in 0..MemSize /\ \A i \in 1..Read' : End(hex'[i]) <= uiLastByte'
  <2>1. uiLastByte' \in 0..MemSize /\ End(r) <= uiLastByte' /\ uiLastByte <= uiLastByte'
    BY <1>1, <1>5 DEF HexInv, LastByte
  <2>2. \A i \in 1..Read' : i \in 1..Read \/ i = Read + 1
    BY <1>3, <1>4 DEF HexInv
  <2>3. \A i \in 1..Read' : End(hex[i]) \in Nat
    BY <1>3, <1>4, EndType DEF HexInv
  <2>4. ASSUME NEW i \in 1..Read' PROVE End(hex[i]) <= uiLastByte'
    <3>1. CASE i \in 1..Read
      <4>1. End(hex[i]) <= uiLastByte
        BY <3>1 DEF HexInv
      <4> QED
        BY <2>1, <2>3, <4>1 DEF HexInv
    <3>2. CASE i = Read + 1
      BY <1>5, <2>1, <3>2
    <3> QED
      BY <2>2, <3>1, <3>2
  <2> QED
    BY <1>1, <2>1, <2>4
<1> QED
  BY <1>1, <1>2, <1>4, <1>6, <1>7, <1>8 DEF HexInv, ImageFaithful

\* With every record read, the file is as long as the highest of them.
LEMMA WriteHex ==
  ASSUME HexInv, stage = "load", WriteCom
  PROVE  ImageFaithful'
<1> DEFINE Writers(a) == {i \in DOMAIN hex : Covers(hex[i], a)}
           last == uiLastByte
<1>1. /\ records = <<>> /\ hex' = hex /\ memory' = memory
      /\ com' = [i \in 1..(last - Start) |-> memory[Start + i - 1]]
  BY DEF WriteCom
<1>2. Read = Len(hex) /\ DOMAIN hex = 1..Read /\ Len(hex) \in Nat
  BY <1>1 DEF Read, HexInv
<1>3. \A i \in DOMAIN hex : End(hex[i]) \in Nat /\ End(hex[i]) <= last /\ hex[i].address \in Nat
  <2> SUFFICES ASSUME NEW i \in DOMAIN hex
               PROVE  End(hex[i]) \in Nat /\ End(hex[i]) <= last /\ hex[i].address \in Nat
    OBVIOUS
  <2>1. hex[i] \in Record /\ End(hex[i]) <= last
    BY <1>2 DEF HexInv
  <2> QED
    BY <2>1, EndType DEF Record
<1>4. last \in Nat /\ last <= MemSize /\ last - Start \in Nat
  BY <1>3, MemoryAssumption DEF HexInv
<1>5. Len(com') = last - Start /\ DOMAIN com' = 1..(last - Start)
  BY <1>1, <1>4
<1>6. ASSUME NEW a \in DOMAIN memory, Writers(a) # {}, a >= Start
      PROVE  a - Start < Len(com')
  <2>1. PICK i \in DOMAIN hex : Covers(hex[i], a)
    BY <1>6
  <2>2. a < End(hex[i])
    BY <1>3, <2>1 DEF Covers
  <2> QED
    BY <1>3, <1>4, <1>5, <1>6, <2>2, MemoryAssumption DEF HexInv
<1>7. ASSUME NEW j \in DOMAIN com'
      PROVE  com'[j] = IF Writers(Start + j - 1) = {} THEN 0
                       ELSE At(hex[Max(Writers(Start + j - 1))], Start + j - 1)
  <2> DEFINE a == Start + j - 1
  <2>1. a \in DOMAIN memory /\ com'[j] = memory[a]
    BY <1>1, <1>4, <1>5, <1>7, MemoryAssumption DEF HexInv
  <2>2. Written(hex, Read, a, memory[a])
    BY <2>1 DEF HexInv
  <2> HIDE DEF a
  <2>3. CASE memory[a] = 0 /\ \A i \in 1..Read : ~Covers(hex[i], a)
    BY <1>2, <2>1, <2>3 DEF a
  <2>4. CASE \E i \in 1..Read : /\ Covers(hex[i], a) /\ memory[a] = At(hex[i], a)
                                /\ \A k \in (i + 1)..Read : ~Covers(hex[k], a)
    <3>1. PICK i \in 1..Read : /\ Covers(hex[i], a) /\ memory[a] = At(hex[i], a)
                              /\ \A k \in (i + 1)..Read : ~Covers(hex[k], a)
      BY <2>4
    <3>2. i \in Writers(a) /\ \A k \in Writers(a) : k \in Int /\ i >= k
      BY <1>2, <3>1
    <3>3. Max(Writers(a)) = i
      <4> HIDE DEF Writers
      <4> QED
        BY <3>2, MaxOf
    <3> QED
      BY <2>1, <3>1, <3>2, <3>3 DEF a
  <2> QED
    BY <2>2, <2>3, <2>4 DEF Written
<1> QED
  BY <1>1, <1>6, <1>7 DEF ImageFaithful

LEMMA StartHex ==
  ASSUME stage' # "load", hex' = <<>>, records' = <<>>, memory' = Zeros, uiLastByte' = 0, com' = NotWritten
  PROVE  HexInv'
<1>1. <<>> \in Seq(Record) /\ Len(<<>>) = 0 /\ DOMAIN <<>> = {}
  OBVIOUS
<1>2. Read' = 0
  BY <1>1 DEF Read
<1>3. \A a \in 0..(MemSize - 1) : Written(<<>>, 0, a, 0)
  BY DEF Written
<1>4. ImageFaithful'
  BY DEF ImageFaithful
<1> QED
  BY <1>1, <1>2, <1>3, <1>4, MemoryAssumption DEF HexInv, Zeros

LEMMA NextHex == HexInv /\ [Next]_vars => HexInv'
<1> SUFFICES ASSUME HexInv, [Next]_vars PROVE HexInv'
  OBVIOUS
<1>1. ASSUME UNCHANGED hexVars, stage' = "load" => stage = "load" PROVE HexInv'
  BY <1>1 DEF HexInv, hexVars, Read, ImageFaithful
<1>2. CASE Load
  <2>1. CASE ReadRecord /\ Go("load", "load")
    BY <2>1, ReadHex DEF Go
  <2>2. CASE WriteCom /\ Go("load", "pack")
    <3>1. /\ UNCHANGED <<records, hex, memory, uiLastByte>>
          /\ stage' = "pack"
      BY <2>2 DEF WriteCom, Go
    <3>2. ImageFaithful'
      BY <2>2, WriteHex DEF Go
    <3> QED
      BY <3>1, <3>2 DEF HexInv, Read
  <2> QED
    BY <1>2, <2>1, <2>2 DEF Load
<1>3. CASE Pack
  BY <1>1, <1>3 DEF Pack, Go
<1>4. CASE Send
  BY <1>1, <1>4 DEF Send, Go
<1>5. CASE StartProgram
  BY <1>5, StartHex DEF StartProgram, Go
<1>6. CASE EditHeap
  BY <1>1, <1>6 DEF EditHeap, Go
<1>7. CASE Serial
  BY <1>1, <1>7 DEF Serial, Go
<1>8. CASE UNCHANGED vars
  BY <1>1, <1>8 DEF vars
<1> QED
  BY <1>2, <1>3, <1>4, <1>5, <1>6, <1>7, <1>8 DEF Next

\* Whatever file the linker writes, in whatever order and however
\* overlapping its records, load's image holds each record's bytes.
THEOREM ImageFaithfulHolds == Spec => []ImageFaithful
<1>1. HexInv => ImageFaithful
  BY DEF HexInv
<1> QED
  BY <1>1, InitHex, NextHex, PTL DEF Spec
-----------------------------------------------------------------------------
(* The heap.                                                               *)

\* Numbers that are not negative have a smallest.
LEMMA MinIn ==
  ASSUME NEW I \in SUBSET Nat, I # {}
  PROVE  Min(I) \in I
<1> DEFINE R == OpToRel(<, Nat)
<1>1. PICK m \in I : \A i \in I : <<i, m>> \notin R
  <2>1. IsWellFoundedOn(R, Nat)
    BY NatLessThanWellFounded
  <2> HIDE DEF R
  <2> QED
    BY <2>1, WFMin
<1>2. ASSUME NEW i \in I PROVE m <= i
  <2>1. i \in Nat /\ m \in Nat /\ <<i, m>> \in Nat \X Nat
    OBVIOUS
  <2>2. i < m => <<i, m>> \in R
    BY <2>1 DEF OpToRel
  <2> HIDE DEF R
  <2> QED
    BY <1>1, <2>1, <2>2
<1> QED
  BY <1>2 DEF Min

\* What a block may be.
Sound ==
  {b \in [from : Int, to : Int] :
     b.from <= b.to /\ (Within(b, HeapStart, HeapEnd) \/ Within(b, ProgEnd, Bdos))}

\* The program has been started.
Started == stage \in {"main", "vectors", "enable", "running"}

\* What blocks free and in use may be.
SoundHeap(l, u) == l \in Seq(Sound) /\ \A b \in u : Free(b) \in Sound

HeapInv ==
  /\ SoundHeap(heap_free, live)
  /\ Started => free_tpa_start = ProgEnd /\ free_tpa_end = TpaEnd

LEMMA Removed ==
  ASSUME NEW S, NEW l \in Seq(S), NEW i \in DOMAIN l
  PROVE  RemoveAt(l, i) \in Seq(S)
<1>1. SubSeq(l, 1, i - 1) \in Seq(S) /\ SubSeq(l, i + 1, Len(l)) \in Seq(S)
  OBVIOUS
<1> QED
  BY <1>1 DEF RemoveAt

LEMMA Inserted ==
  ASSUME NEW S, NEW l \in Seq(S), NEW i \in 1..(Len(l) + 1), NEW e \in S
  PROVE  InsertAt(l, i, e) \in Seq(S)
<1>1. SubSeq(l, 1, i - 1) \in Seq(S) /\ SubSeq(l, i, Len(l)) \in Seq(S) /\ <<e>> \in Seq(S)
  OBVIOUS
<1> QED
  BY <1>1 DEF InsertAt

\* Two sound blocks that touch lie in the same heap, because the stack is
\* between the two.
LEMMA JoinedSound ==
  ASSUME NEW l \in Seq(Sound), NEW i \in Int
  PROVE  Joined(l, i) \in Seq(Sound)
<1>1. CASE i \in 1..(Len(l) - 1) /\ l[i].to = l[i + 1].from
  <2>1. i \in DOMAIN l /\ i + 1 \in DOMAIN l
    BY <1>1
  <2>2. l[i] \in Sound /\ l[i + 1] \in Sound
    BY <2>1
  <2> DEFINE b == [l[i] EXCEPT !.to = l[i + 1].to]
             m == [l EXCEPT ![i].to = l[i + 1].to]
  <2>3. /\ l[i] \in [from : Int, to : Int] /\ l[i + 1] \in [from : Int, to : Int]
        /\ l[i].from <= l[i].to /\ l[i + 1].from <= l[i + 1].to
        /\ Within(l[i], HeapStart, HeapEnd) \/ Within(l[i], ProgEnd, Bdos)
        /\ Within(l[i + 1], HeapStart, HeapEnd) \/ Within(l[i + 1], ProgEnd, Bdos)
    BY <2>2 DEF Sound
  <2>4. b \in [from : Int, to : Int] /\ b.from = l[i].from /\ b.to = l[i + 1].to
    BY <2>3
  <2>5. b.from <= b.to /\ (Within(b, HeapStart, HeapEnd) \/ Within(b, ProgEnd, Bdos))
    <3>1. PICK pf \in Int, pt \in Int, qf \in Int, qt \in Int :
            pf = l[i].from /\ pt = l[i].to /\ qf = l[i + 1].from /\ qt = l[i + 1].to
      BY <2>3
    <3> HIDE DEF b
    <3>2. pt = qf /\ pf <= pt /\ qf <= qt
      BY <1>1, <2>3, <3>1
    <3>3. /\ (HeapStart <= pf /\ pt <= HeapEnd) \/ (ProgEnd <= pf /\ pt <= Bdos)
          /\ (HeapStart <= qf /\ qt <= HeapEnd) \/ (ProgEnd <= qf /\ qt <= Bdos)
      <4>1. Within(l[i], HeapStart, HeapEnd) \/ Within(l[i], ProgEnd, Bdos)
        BY <2>3
      <4>2. Within(l[i + 1], HeapStart, HeapEnd) \/ Within(l[i + 1], ProgEnd, Bdos)
        BY <2>3
      <4> QED
        BY <3>1, <4>1, <4>2 DEF Within
    <3>4. pf <= qt /\ ((HeapStart <= pf /\ qt <= HeapEnd) \/ (ProgEnd <= pf /\ qt <= Bdos))
      BY <3>2, <3>3, MapAssumption
    <3>5. b.from = pf /\ b.to = qt
      BY <2>4, <3>1
    <3> QED
      BY <3>4, <3>5 DEF Within
  <2>6. b \in Sound
    BY <2>4, <2>5 DEF Sound
  <2>7. m \in Seq(Sound) /\ DOMAIN m = DOMAIN l
    BY <2>1, <2>6
  <2> QED
    BY <1>1, <2>1, <2>7, Removed DEF Joined
<1> QED
  BY <1>1 DEF Joined

\* The two things that are done to a list l and blocks in use u, whoever asks
\* for them.  A piece of block i is taken: the block is cut, and what is behind
\* the cut stays in the list unless it is nothing.
Takes(l, u, m, v, size, i, cut) ==
  LET b == l[i]
  IN  /\ b.from + size + NextSize <= cut /\ b.from < cut /\ cut <= b.to
      /\ v = u \cup {[from |-> b.from, size |-> size, to |-> cut]}
      /\ \/ cut < b.to /\ m = [l EXCEPT ![i] = [from |-> cut, to |-> b.to]]
         \/ cut = b.to /\ m = RemoveAt(l, i)

\* A block goes to some place of the list, and is joined with the block behind
\* it and the one in front.
Puts(l, u, m, v, b) ==
  /\ \E i \in 1..(Len(l) + 1) : m = Joined(Joined(InsertAt(l, i, Free(b)), i), i - 1)
  /\ v = u \ {b}

LEMMA CutTakes ==
  ASSUME NEW l \in Seq(Sound), NEW u, NEW i \in DOMAIN l, NEW size \in Sizes,
         Length(l[i]) >= Total(size)
  PROVE  \E cut \in Int : Takes(l, u, CutFrom(l, i, size), u \cup {Used(l[i], size)}, size, i, cut)
<1> DEFINE b     == l[i]
           total == Total(size)
           split == Splits(b, size)
           cut   == IF split THEN b.from + total ELSE b.to
           m     == CutFrom(l, i, size)
           v     == u \cup {Used(b, size)}
<1>1. b \in [from : Int, to : Int] /\ Length(b) >= total
  BY DEF Sound
<1>2. total \in Nat /\ total > 0 /\ size + NextSize <= total /\ Header \in Nat /\ Header > 0
      /\ size \in Int /\ NextSize \in Int
  BY MapAssumption DEF Total
<1>3. split => Length(b) >= total + Header
  BY DEF Splits
<1>4. m = IF split THEN [l EXCEPT ![i] = [b EXCEPT !.from = @ + total]] ELSE RemoveAt(l, i)
  BY DEF CutFrom
<1>5. Used(b, size) = [from |-> b.from, size |-> size, to |-> cut]
  BY DEF Used
<1> HIDE DEF total, split, m
<1>6. [b EXCEPT !.from = @ + total] = [from |-> b.from + total, to |-> b.to]
  BY <1>1
<1>7. /\ b.from \in Int /\ b.to \in Int /\ b.from + total <= b.to
      /\ split => b.from + total < b.to
  BY <1>1, <1>2, <1>3 DEF Length
<1> HIDE DEF b
<1>8. cut \in Int /\ b.from + size + NextSize <= cut /\ b.from < cut /\ cut <= b.to
  BY <1>2, <1>7
<1>9. \/ cut < b.to /\ m = [l EXCEPT ![i] = [from |-> cut, to |-> b.to]]
      \/ cut = b.to /\ m = RemoveAt(l, i)
  BY <1>4, <1>6, <1>7
<1>10. v = u \cup {[from |-> b.from, size |-> size, to |-> cut]}
  BY <1>5
<1> HIDE DEF cut, v
<1>11. Takes(l, u, m, v, size, i, cut)
  BY <1>8, <1>9, <1>10 DEF Takes, b
<1> QED
  BY <1>8, <1>11 DEF m, v, b

\* The block malloc finds is large enough.
LEMMA Fit ==
  ASSUME NEW l \in Seq(Sound), NEW size, FirstFit(l, size) # 0
  PROVE  FirstFit(l, size) \in DOMAIN l /\ Length(l[FirstFit(l, size)]) >= Total(size)
<1> DEFINE I == {j \in 1..Len(l) : Length(l[j]) >= Total(size)}
           i == FirstFit(l, size)
<1>1. i = IF I # {} THEN Min(I) ELSE 0
  BY DEF FirstFit, SelectInSeq
<1>2. i \in I
  <2>1. I # {} /\ I \subseteq Nat
    BY <1>1
  <2> HIDE DEF I
  <2> QED
    BY <1>1, <2>1, MinIn
<1> QED
  BY <1>2

LEMMA FreedPuts ==
  ASSUME NEW l \in Seq(Sound), NEW u, NEW b
  PROVE  Puts(l, u, Freed(l, b), u \ {b}, b)
<1> DEFINE I      == {j \in 1..Len(l) : l[j].from >= b.from + NextSize}
           behind == SelectInSeq(l, LAMBDA f : f.from >= b.from + NextSize)
           i      == IF behind = 0 THEN Len(l) + 1 ELSE behind
<1>1. Freed(l, b) = Joined(Joined(InsertAt(l, i, Free(b)), i), i - 1)
  BY DEF Freed
<1>2. behind = IF I # {} THEN Min(I) ELSE 0
  BY DEF SelectInSeq
<1>3. Len(l) \in Nat
  OBVIOUS
<1>4. I # {} => behind \in I
  <2>1. I \subseteq Nat
    BY <1>3
  <2> HIDE DEF I
  <2> QED
    BY <1>2, <2>1, MinIn
<1>5. i \in 1..(Len(l) + 1)
  BY <1>2, <1>3, <1>4
<1> HIDE DEF i
<1> QED
  BY <1>1, <1>5 DEF Puts

\* A piece of a sound block is sound.
LEMMA CutSound ==
  ASSUME NEW b \in Sound, NEW f \in Int, NEW t \in Int, b.from <= f, f <= t, t <= b.to
  PROVE  [from |-> f, to |-> t] \in Sound
<1>1. b.from \in Int /\ b.to \in Int /\ {HeapStart, HeapEnd, ProgEnd, Bdos} \subseteq Int
  BY MapAssumption DEF Sound
<1>2. \A lo, hi \in {HeapStart, HeapEnd, ProgEnd, Bdos} :
        Within(b, lo, hi) => Within([from |-> f, to |-> t], lo, hi)
  BY <1>1 DEF Within
<1>3. Within([from |-> f, to |-> t], HeapStart, HeapEnd) \/ Within([from |-> f, to |-> t], ProgEnd, Bdos)
  BY <1>2 DEF Sound
<1> QED
  BY <1>3 DEF Sound

LEMMA TakesSound ==
  ASSUME NEW l, NEW u, NEW m, NEW v, SoundHeap(l, u), NEW size, NEW i \in DOMAIN l,
         NEW cut \in Int, Takes(l, u, m, v, size, i, cut)
  PROVE  SoundHeap(m, v)
<1> DEFINE b == l[i]
           used == [from |-> b.from, size |-> size, to |-> cut]
<1>1. b \in Sound /\ b.from \in Int /\ b.to \in Int
  <2>1. b \in Sound
    BY DEF SoundHeap
  <2> QED
    BY <2>1 DEF Sound
<1>2. Free(used) \in Sound
  <2>1. Free(used) = [from |-> b.from, to |-> cut]
    BY DEF Free
  <2> HIDE DEF used
  <2> QED
    BY <1>1, <2>1, CutSound DEF Takes
<1>3. cut < b.to => [from |-> cut, to |-> b.to] \in Sound
  BY <1>1, CutSound DEF Takes
<1>4. v = u \cup {used}
  BY DEF Takes
<1>5. m \in Seq(Sound)
  <2>1. l \in Seq(Sound)
    BY DEF SoundHeap
  <2>2. CASE cut < b.to /\ m = [l EXCEPT ![i] = [from |-> cut, to |-> b.to]]
    BY <1>3, <2>1, <2>2
  <2>3. CASE m = RemoveAt(l, i)
    BY <2>1, <2>3, Removed
  <2> QED
    BY <2>2, <2>3 DEF Takes
<1> HIDE DEF used
<1> QED
  BY <1>2, <1>4, <1>5 DEF SoundHeap

LEMMA PutsSound ==
  ASSUME NEW l, NEW u, NEW m, NEW v, SoundHeap(l, u), NEW b \in u, Puts(l, u, m, v, b)
  PROVE  SoundHeap(m, v)
<1>1. PICK i \in 1..(Len(l) + 1) :
        m = Joined(Joined(InsertAt(l, i, Free(b)), i), i - 1)
  BY DEF Puts
<1>2. l \in Seq(Sound) /\ Len(l) \in Nat /\ Free(b) \in Sound /\ v \subseteq u
  BY DEF SoundHeap, Puts
<1>3. InsertAt(l, i, Free(b)) \in Seq(Sound) /\ i \in Int /\ i - 1 \in Int
  BY <1>2, Inserted
<1>4. m \in Seq(Sound)
  BY <1>1, <1>3, JoinedSound
<1> QED
  BY <1>2, <1>4 DEF SoundHeap

-----------------------------------------------------------------------------
(* No byte of a heap is in two blocks, and none is in none.                *)

\* The blocks of a list are not empty and do not overlap.
Parts(l) ==
  /\ \A i \in DOMAIN l : l[i].from < l[i].to
  /\ \A i, j \in DOMAIN l : i # j => Apart(l[i], l[j])

\* None of them overlaps the block b.
Clear(l, b) == \A i \in DOMAIN l : Apart(l[i], b)

\* The address is in one of them.
Lists(l, address) == \E i \in DOMAIN l : Holds(l[i], address)

\* The list m is l but for its block i, in place of which it has the block e.
Replaces(m, l, i, e) ==
  /\ DOMAIN m = DOMAIN l
  /\ m[i] = e
  /\ \A j \in DOMAIN l \ {i} : m[j] = l[j]

LEMMA RemovedAt ==
  ASSUME NEW S, NEW l \in Seq(S), NEW i \in DOMAIN l
  PROVE  /\ DOMAIN RemoveAt(l, i) = 1..(Len(l) - 1)
         /\ \A k \in 1..(Len(l) - 1) : RemoveAt(l, i)[k] = l[IF k < i THEN k ELSE k + 1]
<1> DEFINE a == SubSeq(l, 1, i - 1)
           b == SubSeq(l, i + 1, Len(l))
<1>1. i \in 1..Len(l) /\ Len(l) \in Nat
  OBVIOUS
<1>2. /\ a \in Seq(S) /\ b \in Seq(S)
      /\ Len(a) = i - 1 /\ Len(b) = Len(l) - i
      /\ \A k \in 1..(i - 1) : a[k] = l[k]
      /\ \A k \in 1..(Len(l) - i) : b[k] = l[k + i]
  BY <1>1
<1> HIDE DEF a, b
<1>3. DOMAIN (a \o b) = 1..(Len(l) - 1)
  BY <1>1, <1>2
<1>4. ASSUME NEW k \in 1..(Len(l) - 1)
      PROVE  (a \o b)[k] = l[IF k < i THEN k ELSE k + 1]
  <2>1. CASE k < i
    BY <1>1, <1>2, <2>1
  <2>2. CASE ~(k < i)
    <3>1. PICK u \in Int : u = k - (i - 1)
      BY <1>1
    <3>2. u \in 1..(Len(l) - i) /\ u + i = k + 1
      BY <1>1, <2>2, <3>1
    <3>3. Len(a) = i - 1 /\ k \in 1..(Len(a) + Len(b)) /\ ~(k <= Len(a)) /\ u = k - Len(a)
      <4>1. Len(a) = i - 1 /\ Len(b) = Len(l) - i
        BY <1>2
      <4> QED
        BY <1>1, <2>2, <3>1, <4>1
    <3>4. \A j \in 1..(Len(a) + Len(b)) :
            (a \o b)[j] = IF j <= Len(a) THEN a[j] ELSE b[j - Len(a)]
      <4>1. a \in Seq(S) /\ b \in Seq(S)
        BY <1>2
      <4> QED
        BY <4>1, ConcatProperties
    <3>5. (a \o b)[k] = b[u]
      BY <3>3, <3>4
    <3>6. b[u] = l[u + i]
      BY <1>2, <3>2
    <3> QED
      BY <2>2, <3>2, <3>5, <3>6
  <2> QED
    BY <2>1, <2>2
<1>5. RemoveAt(l, i) = a \o b
  BY DEF RemoveAt, a, b
<1> QED
  BY <1>3, <1>4, <1>5

LEMMA InsertedAt ==
  ASSUME NEW S, NEW l \in Seq(S), NEW i \in 1..(Len(l) + 1), NEW e \in S
  PROVE  /\ DOMAIN InsertAt(l, i, e) = 1..(Len(l) + 1)
         /\ InsertAt(l, i, e)[i] = e
         /\ \A k \in 1..(Len(l) + 1) :
              k # i => InsertAt(l, i, e)[k] = l[IF k < i THEN k ELSE k - 1]
<1> DEFINE a == SubSeq(l, 1, i - 1)
           b == SubSeq(l, i, Len(l))
<1>1. i \in Nat /\ i >= 1 /\ i <= Len(l) + 1 /\ Len(l) \in Nat
  OBVIOUS
<1>2. /\ a \in Seq(S) /\ b \in Seq(S) /\ <<e>> \in Seq(S) /\ Len(<<e>>) = 1 /\ <<e>>[1] = e
      /\ Len(a) = i - 1 /\ Len(b) = Len(l) - i + 1
      /\ \A k \in 1..(i - 1) : a[k] = l[k]
      /\ \A k \in 1..(Len(l) - i + 1) : b[k] = l[k + i - 1]
  <2>1. a \in Seq(S) /\ Len(a) = i - 1 /\ \A k \in 1..(i - 1) : a[k] = l[k]
    BY <1>1
  <2>2. b \in Seq(S) /\ Len(b) = Len(l) - i + 1
    BY <1>1
  <2>3. \A k \in 1..(Len(l) - i + 1) : b[k] = l[k + i - 1]
    BY <1>1
  <2>4. <<e>> \in Seq(S) /\ Len(<<e>>) = 1 /\ <<e>>[1] = e
    OBVIOUS
  <2> HIDE DEF a, b
  <2> QED
    BY <2>1, <2>2, <2>3, <2>4
<1> HIDE DEF a, b
<1> DEFINE c == a \o <<e>>
<1>3. /\ c \in Seq(S) /\ Len(c) = i
      /\ c[i] = e /\ \A k \in 1..(i - 1) : c[k] = l[k]
  BY <1>1, <1>2
<1> HIDE DEF c
<1>4. DOMAIN (c \o b) = 1..(Len(l) + 1) /\ (c \o b)[i] = e
  BY <1>1, <1>2, <1>3
<1>5. ASSUME NEW k \in 1..(Len(l) + 1), k # i
      PROVE  (c \o b)[k] = l[IF k < i THEN k ELSE k - 1]
  <2>1. CASE k < i
    BY <1>1, <1>2, <1>3, <2>1
  <2>2. CASE ~(k < i)
    <3>1. (c \o b)[k] = b[k - i] /\ k - i \in 1..(Len(l) - i + 1)
      BY <1>1, <1>2, <1>3, <1>5, <2>2
    <3>2. k - i + i - 1 = k - 1
      BY <1>1
    <3> QED
      BY <1>2, <2>2, <3>1, <3>2
  <2> QED
    BY <2>1, <2>2
<1>6. InsertAt(l, i, e) = c \o b
  BY DEF InsertAt, a, b, c
<1> QED
  BY <1>4, <1>5, <1>6

\* A block taken from the list.
LEMMA RemovedParts ==
  ASSUME NEW S, NEW l \in Seq(S), NEW i \in DOMAIN l, Parts(l)
  PROVE  /\ Parts(RemoveAt(l, i)) /\ Clear(RemoveAt(l, i), l[i])
         /\ \A b : Clear(l, b) => Clear(RemoveAt(l, i), b)
         /\ \A address : Lists(l, address) =>
              Lists(RemoveAt(l, i), address) \/ Holds(l[i], address)
<1> DEFINE m == RemoveAt(l, i)
           at(k) == IF k < i THEN k ELSE k + 1
<1>1. DOMAIN m = 1..(Len(l) - 1) /\ \A k \in DOMAIN m : m[k] = l[at(k)]
  BY RemovedAt
<1>2. i \in Int /\ Len(l) \in Nat /\ DOMAIN l = 1..Len(l)
  OBVIOUS
<1>3. /\ \A k \in DOMAIN m : at(k) \in DOMAIN l /\ at(k) # i
      /\ \A j, k \in DOMAIN m : j # k => at(j) # at(k)
  BY <1>1, <1>2
<1>4. \A j \in DOMAIN l \ {i} : \E k \in DOMAIN m : j = at(k)
  <2> SUFFICES ASSUME NEW j \in DOMAIN l \ {i} PROVE \E k \in DOMAIN m : j = at(k)
    OBVIOUS
  <2>1. CASE j < i
    BY <1>1, <1>2, <2>1
  <2>2. CASE ~(j < i)
    <3>1. j - 1 \in DOMAIN m /\ j = at(j - 1)
      BY <1>1, <1>2, <2>2
    <3> QED
      BY <3>1
  <2> QED
    BY <2>1, <2>2
<1> HIDE DEF m, at
<1>5. Parts(m) /\ Clear(m, l[i]) /\ \A b : Clear(l, b) => Clear(m, b)
  BY <1>1, <1>3 DEF Parts, Clear
<1>6. \A address : Lists(l, address) => Lists(m, address) \/ Holds(l[i], address)
  BY <1>1, <1>4 DEF Lists
<1> QED
  BY <1>5, <1>6 DEF m

\* A block put into the list.
LEMMA InsertedParts ==
  ASSUME NEW S, NEW l \in Seq(S), NEW i \in 1..(Len(l) + 1), NEW e \in S,
         Parts(l), e.from < e.to, Clear(l, e)
  PROVE  /\ Parts(InsertAt(l, i, e))
         /\ \A b : Clear(l, b) /\ Apart(e, b) => Clear(InsertAt(l, i, e), b)
         /\ \A address : Lists(l, address) \/ Holds(e, address)
                           => Lists(InsertAt(l, i, e), address)
<1> DEFINE m == InsertAt(l, i, e)
           at(k) == IF k < i THEN k ELSE k - 1
<1>0. DOMAIN m = 1..(Len(l) + 1)
  BY InsertedAt
<1>a. m[i] = e /\ \A k \in 1..(Len(l) + 1) : k # i => m[k] = l[at(k)]
  BY InsertedAt
<1> HIDE DEF m
<1>1. /\ DOMAIN m = 1..(Len(l) + 1) /\ m[i] = e
      /\ \A k \in DOMAIN m : k # i => m[k] = l[at(k)]
  <2>1. \A k \in DOMAIN m : k # i => m[k] = l[at(k)]
    BY <1>0, <1>a
  <2> QED
    BY <2>1, <1>0, <1>a
<1>2. i \in Int /\ Len(l) \in Nat /\ DOMAIN l = 1..Len(l) /\ i \in DOMAIN m
  BY <1>1
<1>3. /\ \A k \in DOMAIN m : k # i => at(k) \in DOMAIN l
      /\ \A j, k \in DOMAIN m : j # i /\ k # i /\ j # k => at(j) # at(k)
  BY <1>1, <1>2
<1>4. \A j \in DOMAIN l : \E k \in DOMAIN m : k # i /\ j = at(k)
  <2> SUFFICES ASSUME NEW j \in DOMAIN l PROVE \E k \in DOMAIN m : k # i /\ j = at(k)
    OBVIOUS
  <2>1. CASE j < i
    BY <1>1, <1>2, <2>1
  <2>2. CASE ~(j < i)
    <3>1. j + 1 \in DOMAIN m /\ j + 1 # i /\ j = at(j + 1)
      BY <1>1, <1>2, <2>2
    <3> QED
      BY <3>1
  <2> QED
    BY <2>1, <2>2
<1> HIDE DEF m, at
<1>5. Parts(m)
  BY <1>1, <1>3 DEF Parts, Clear, Apart
<1>6. \A b : Clear(l, b) /\ Apart(e, b) => Clear(m, b)
  BY <1>1, <1>3 DEF Clear
<1>7. \A address : Lists(l, address) \/ Holds(e, address) => Lists(m, address)
  BY <1>1, <1>2, <1>4 DEF Lists
<1> QED
  BY <1>5, <1>6, <1>7 DEF m

\* A piece left in place of a block.
LEMMA CutParts ==
  ASSUME NEW l, NEW i \in DOMAIN l, NEW m, NEW e, Replaces(m, l, i, e), Parts(l),
         l[i] \in [from : Int, to : Int], e \in [from : Int, to : Int],
         \A j \in DOMAIN l : l[j] \in [from : Int, to : Int],
         l[i].from <= e.from, e.from < e.to, e.to <= l[i].to
  PROVE  /\ Parts(m)
         /\ \A b : b.from \in Int /\ b.to \in Int /\ Clear(l, b) => Clear(m, b)
         /\ \A address : Lists(l, address) => Lists(m, address) \/ Holds(l[i], address)
<1>1. \A b : b.from \in Int /\ b.to \in Int /\ Apart(l[i], b) => Apart(e, b)
  BY DEF Apart
<1>2. ASSUME NEW j \in DOMAIN m, NEW k \in DOMAIN m, j # k
      PROVE  Apart(m[j], m[k])
  <2>1. j \in DOMAIN l /\ k \in DOMAIN l /\ Apart(l[j], l[k]) /\ Apart(l[k], l[j])
    BY <1>2 DEF Replaces, Parts
  <2>2. CASE j = i
    BY <1>1, <1>2, <2>1, <2>2 DEF Replaces
  <2>3. CASE k = i
    <3>1. Apart(e, l[j])
      BY <1>1, <1>2, <2>1, <2>3
    <3> QED
      BY <1>2, <2>1, <2>3, <3>1 DEF Replaces, Apart
  <2>4. CASE j # i /\ k # i
    BY <2>1, <2>4 DEF Replaces
  <2> QED
    BY <2>2, <2>3, <2>4
<1>3. Parts(m)
  BY <1>2 DEF Replaces, Parts
<1>4. \A b : b.from \in Int /\ b.to \in Int /\ Clear(l, b) => Clear(m, b)
  BY <1>1 DEF Replaces, Clear
<1>5. \A address : Lists(l, address) => Lists(m, address) \/ Holds(l[i], address)
  BY DEF Replaces, Lists
<1> QED
  BY <1>3, <1>4, <1>5

\* Two blocks that touch made one.
LEMMA JoinedParts ==
  ASSUME NEW l \in Seq(Sound), NEW i \in Int, Parts(l)
  PROVE  /\ Parts(Joined(l, i))
         /\ \A b : b.from \in Int /\ b.to \in Int /\ b.from < b.to /\ Clear(l, b)
                     => Clear(Joined(l, i), b)
         /\ \A address \in Int : Lists(l, address) => Lists(Joined(l, i), address)
<1>1. CASE i \in 1..(Len(l) - 1) /\ l[i].to = l[i + 1].from
  <2> DEFINE e == [l[i] EXCEPT !.to = l[i + 1].to]
             w == [l EXCEPT ![i].to = l[i + 1].to]
             m == RemoveAt(w, i + 1)
             at(k) == IF k < i + 1 THEN k ELSE k + 1
  <2>0. Joined(l, i) = m
    BY <1>1 DEF Joined
  <2>1. i \in DOMAIN l /\ i + 1 \in DOMAIN l /\ DOMAIN l = 1..Len(l) /\ Len(l) \in Nat
    BY <1>1
  <2>2. \A j \in DOMAIN l : l[j] \in [from : Int, to : Int]
    BY DEF Sound
  <2>3. /\ e = [from |-> l[i].from, to |-> l[i + 1].to]
        /\ l[i].from \in Int /\ l[i].to \in Int /\ l[i + 1].to \in Int
        /\ l[i].from < l[i].to /\ l[i].to < l[i + 1].to
    BY <1>1, <2>1, <2>2 DEF Parts
  <2>4. /\ w \in Seq([from : Int, to : Int]) /\ Len(w) = Len(l) /\ DOMAIN w = DOMAIN l
        /\ w[i] = e /\ \A j \in DOMAIN l : j # i => w[j] = l[j]
    <3>1. w = [l EXCEPT ![i] = e]
      OBVIOUS
    <3> HIDE DEF e, w
    <3>2. e \in [from : Int, to : Int]
      BY <2>3
    <3>3. Sound \subseteq [from : Int, to : Int]
      BY DEF Sound
    <3>4. l \in Seq([from : Int, to : Int])
      BY <3>3, SeqMonotonic
    <3> DEFINE T == [from : Int, to : Int]
    <3>5. e \in T /\ l \in Seq(T)
      BY <3>2, <3>4
    <3> HIDE DEF T
    <3>6. w \in Seq(T) /\ Len(w) = Len(l)
      BY <2>1, <3>1, <3>5
    <3>7. DOMAIN w = DOMAIN l /\ w[i] = e /\ \A j \in DOMAIN l : j # i => w[j] = l[j]
      BY <2>1, <3>1
    <3> QED
      BY <3>6, <3>7 DEF T
  <2> HIDE DEF e, w
  <2>5. DOMAIN m = 1..(Len(l) - 1) /\ \A k \in 1..(Len(l) - 1) : m[k] = w[at(k)]
    <3>1. w \in Seq([from : Int, to : Int]) /\ i + 1 \in DOMAIN w /\ Len(w) = Len(l)
      BY <2>1, <2>4
    <3>2. /\ DOMAIN m = 1..(Len(w) - 1)
          /\ \A k \in 1..(Len(w) - 1) : m[k] = w[at(k)]
      BY <3>1, RemovedAt
    <3> HIDE DEF m
    <3> QED
      BY <3>1, <3>2
  <2> HIDE DEF m
  <2>6. /\ \A k \in DOMAIN m : at(k) \in DOMAIN l /\ at(k) # i + 1 /\ (at(k) = i <=> k = i)
        /\ \A j, k \in DOMAIN m : j # k => at(j) # at(k)
        /\ i \in DOMAIN m
    BY <1>1, <2>1, <2>5
  <2>7. \A j \in DOMAIN l : j # i + 1 => \E k \in DOMAIN m : j = at(k)
    <3> SUFFICES ASSUME NEW j \in DOMAIN l, j # i + 1 PROVE \E k \in DOMAIN m : j = at(k)
      OBVIOUS
    <3>1. CASE j < i + 1
      BY <1>1, <2>1, <2>5, <3>1
    <3>2. CASE ~(j < i + 1)
      <4>1. j - 1 \in DOMAIN m /\ j = at(j - 1)
        BY <2>1, <2>5, <3>2
      <4> QED
        BY <4>1
    <3> QED
      BY <3>1, <3>2
  <2> HIDE DEF at
  <2>8. /\ m[i] = e
        /\ \A k \in DOMAIN m : k # i =>
             /\ m[k] = l[at(k)] /\ at(k) \in DOMAIN l /\ at(k) # i /\ at(k) # i + 1
    BY <2>4, <2>5, <2>6
  \* What is clear of the two is clear of the one they make.
  <2>9. ASSUME NEW b, b.from \in Int, b.to \in Int, b.from < b.to,
               Apart(l[i], b), Apart(l[i + 1], b)
        PROVE  Apart(e, b)
    BY <1>1, <2>3, <2>9 DEF Apart
  <2>10. ASSUME NEW k \in DOMAIN m, k # i
         PROVE  Apart(e, m[k]) /\ Apart(m[k], e)
    <3>1. /\ m[k].from \in Int /\ m[k].to \in Int /\ m[k].from < m[k].to
          /\ Apart(l[i], m[k]) /\ Apart(l[i + 1], m[k])
      BY <2>1, <2>2, <2>8, <2>10 DEF Parts
    <3> QED
      BY <2>9, <3>1 DEF Apart
  <2>11. \A k \in DOMAIN m : m[k].from < m[k].to
    BY <2>3, <2>8 DEF Parts
  <2>12. \A j, k \in DOMAIN m : j # k => Apart(m[j], m[k])
    BY <2>6, <2>8, <2>10 DEF Parts
  <2>13. \A b : b.from \in Int /\ b.to \in Int /\ b.from < b.to /\ Clear(l, b) => Clear(m, b)
    BY <2>1, <2>8, <2>9 DEF Clear
  <2>14. ASSUME NEW address \in Int, Lists(l, address) PROVE Lists(m, address)
    <3>1. PICK j \in DOMAIN l : Holds(l[j], address)
      BY <2>14 DEF Lists
    <3>2. CASE j = i \/ j = i + 1
      <4>1. Holds(e, address)
        BY <1>1, <2>2, <2>3, <3>1, <3>2 DEF Holds
      <4> QED
        BY <2>6, <2>8, <4>1 DEF Lists
    <3>3. CASE j # i /\ j # i + 1
      <4>1. PICK k \in DOMAIN m : j = at(k)
        BY <2>7, <3>3
      <4> QED
        BY <2>6, <2>8, <3>1, <3>3, <4>1 DEF Lists
    <3> QED
      BY <3>2, <3>3
  <2> QED
    BY <2>0, <2>11, <2>12, <2>13, <2>14 DEF Parts
<1>2. CASE ~(i \in 1..(Len(l) - 1) /\ l[i].to = l[i + 1].from)
  BY <1>2 DEF Joined
<1> QED
  BY <1>1, <1>2

Tpa == [from |-> ProgEnd, to |-> TpaEnd]

\* No blocks of the list l and in use u overlap, each is large enough, and
\* before the hand-over (h) the TPA is clear of them all.
Whole(l, u, h) ==
  /\ Parts(l)
  /\ \A b \in u : /\ b.from < b.to /\ Clear(l, b)
                  /\ Length(b) >= b.size + NextSize
  /\ \A b, c \in u : b = c \/ Apart(b, c)
  /\ ~h => Clear(l, Tpa) /\ \A b \in u : Apart(b, Tpa)

\* The address is in a block that is in the list or in use.
Belongs(l, u, address) == Lists(l, address) \/ \E b \in u : Holds(b, address)

BlocksInv == Whole(heap_free, live, handed)

BytesInv ==
  /\ handed => stage = "running"
  /\ Started => \A address \in HeapBytes(handed) : Belongs(heap_free, live, address)

\* What is known of the numbers in blocks.
LEMMA BlockFacts ==
  ASSUME NEW l, NEW u, SoundHeap(l, u)
  PROVE  /\ l \in Seq(Sound)
         /\ \A i \in DOMAIN l : l[i] \in Sound /\ l[i] \in [from : Int, to : Int]
         /\ \A b \in u : b.from \in Int /\ b.to \in Int /\ Free(b) \in Sound
<1>1. \A b \in u : Free(b) \in Sound
  BY DEF SoundHeap
<1>2. \A b \in u : b.from \in Int /\ b.to \in Int
  BY <1>1 DEF Free, Sound
<1>3. \A i \in DOMAIN l : l[i] \in Sound
  BY DEF SoundHeap
<1> QED
  BY <1>1, <1>2, <1>3 DEF SoundHeap, Sound

LEMMA TpaFacts ==
  Tpa.from \in Int /\ Tpa.to \in Int /\ Tpa.from < Tpa.to /\ Tpa \in Sound
<1>1. /\ Tpa \in [from : Int, to : Int] /\ Tpa.from < Tpa.to
      /\ Within(Tpa, ProgEnd, Bdos)
  BY MapAssumption DEF Tpa, TpaEnd, Within
<1> QED
  BY <1>1 DEF Sound

\* Memory taken from the list is in use.
LEMMA TakesWhole ==
  ASSUME NEW l, NEW u, NEW m, NEW v, NEW h, SoundHeap(l, u), Whole(l, u, h),
         NEW size \in Sizes, NEW i \in DOMAIN l, NEW cut \in Int,
         Takes(l, u, m, v, size, i, cut)
  PROVE  /\ Whole(m, v, h)
         /\ \A address \in Int : Belongs(l, u, address) => Belongs(m, v, address)
<1> DEFINE b == l[i]
           used == [from |-> b.from, size |-> size, to |-> cut]
           rest == [from |-> cut, to |-> b.to]
<1>2. /\ b \in [from : Int, to : Int] /\ b.from \in Int /\ b.to \in Int
      /\ b.from < cut /\ cut <= b.to /\ b.from + size + NextSize <= cut
      /\ v = u \cup {used}
      /\ size \in Int /\ NextSize \in Int
  BY BlockFacts, MapAssumption DEF Takes
<1>3. used.from = b.from /\ used.to = cut /\ used.size = size
  OBVIOUS
<1>4. Length(used) >= used.size + NextSize /\ used.from < used.to
  BY <1>2, <1>3 DEF Length
\* Both pieces of the block are clear of what was clear of the list.
<1>5. \A c : c.from \in Int /\ c.to \in Int /\ Clear(l, c) => Apart(used, c) /\ Apart(c, used)
  <2> SUFFICES ASSUME NEW c, c.from \in Int, c.to \in Int, Clear(l, c)
               PROVE  Apart(used, c) /\ Apart(c, used)
    OBVIOUS
  <2>1. Apart(b, c)
    BY DEF Clear
  <2> HIDE DEF b, used
  <2> QED
    BY <1>2, <1>3, <2>1 DEF Apart
<1>6. /\ Parts(m) /\ Clear(m, used)
      /\ \A c : c.from \in Int /\ c.to \in Int /\ Clear(l, c) => Clear(m, c)
      /\ \A address \in Int : Lists(l, address)
           => Lists(m, address) \/ Holds(used, address)
  <2>1. CASE cut < b.to /\ m = [l EXCEPT ![i] = rest]
    <3>1. rest \in [from : Int, to : Int] /\ rest.from = cut /\ rest.to = b.to
      BY <1>2
    <3> HIDE DEF rest
    <3>2. Replaces(m, l, i, rest)
      BY <2>1 DEF Replaces
    <3>3. /\ Parts(m)
          /\ \A c : c.from \in Int /\ c.to \in Int /\ Clear(l, c) => Clear(m, c)
          /\ \A address : Lists(l, address)
                            => Lists(m, address) \/ Holds(b, address)
      <4>1. /\ \A j \in DOMAIN l : l[j] \in [from : Int, to : Int]
            /\ Parts(l)
        BY BlockFacts DEF Whole
      <4>2. b.from <= rest.from /\ rest.from < rest.to /\ rest.to <= b.to
        BY <1>2, <2>1, <3>1
      <4> QED
        BY <1>2, <3>1, <3>2, <4>1, <4>2, CutParts
    <3>4. Clear(m, used)
      <4> SUFFICES ASSUME NEW j \in DOMAIN m PROVE Apart(m[j], used)
        BY DEF Clear
      <4>1. CASE j = i
        BY <1>2, <1>3, <3>1, <3>2, <4>1 DEF Replaces, Apart
      <4>2. CASE j # i
        <5>1. /\ m[j] = l[j] /\ j \in DOMAIN l
              /\ l[j].from \in Int /\ l[j].to \in Int
          BY <3>2, <4>2, BlockFacts DEF Replaces
        <5>2. Apart(l[j], b)
          BY <4>2, <5>1 DEF Whole, Parts
        <5> HIDE DEF b, used
        <5> QED
          BY <1>2, <1>3, <5>1, <5>2 DEF Apart
      <4> QED
        BY <4>1, <4>2
    <3>5. \A address \in Int : Holds(b, address) => Holds(rest, address) \/ Holds(used, address)
      BY <1>2, <1>3, <3>1 DEF Holds
    <3>6. \A address : Holds(rest, address) => Lists(m, address)
      BY <3>2 DEF Replaces, Lists
    <3> QED
      BY <3>3, <3>4, <3>5, <3>6
  <2>2. CASE cut = b.to /\ m = RemoveAt(l, i)
    <3>1. /\ Parts(m) /\ Clear(m, b)
          /\ \A c : Clear(l, c) => Clear(m, c)
          /\ \A address : Lists(l, address)
                            => Lists(m, address) \/ Holds(b, address)
      BY <2>2, BlockFacts, RemovedParts DEF Whole
    <3>2. Clear(m, used)
      BY <1>3, <2>2, <3>1 DEF Clear, Apart
    <3>3. \A address : Holds(b, address) => Holds(used, address)
      BY <1>3, <2>2 DEF Holds
    <3> QED
      BY <3>1, <3>2, <3>3
  <2> QED
    BY <2>1, <2>2 DEF Takes
<1> HIDE DEF used, rest
<1>7. \A c \in u : Apart(used, c) /\ Apart(c, used) /\ Clear(m, c)
  BY <1>5, <1>6, BlockFacts DEF Whole
<1>8. \A c, d \in v : c = d \/ Apart(c, d)
  BY <1>2, <1>7 DEF Whole
<1>9. ~h => Clear(m, Tpa) /\ \A c \in v : Apart(c, Tpa)
  BY <1>2, <1>5, <1>6, TpaFacts DEF Whole
<1>10. \A c \in v : /\ c.from < c.to /\ Clear(m, c)
                        /\ Length(c) >= c.size + NextSize
  BY <1>2, <1>4, <1>6, <1>7 DEF Whole
<1>11. Whole(m, v, h)
  BY <1>6, <1>8, <1>9, <1>10 DEF Whole
<1> QED
  BY <1>2, <1>6, <1>11 DEF Belongs

\* Memory freed is in the list again.
LEMMA PutsWhole ==
  ASSUME NEW l, NEW u, NEW m, NEW v, NEW h, SoundHeap(l, u), Whole(l, u, h),
         NEW b \in u, Puts(l, u, m, v, b)
  PROVE  /\ Whole(m, v, h)
         /\ \A address \in Int : Belongs(l, u, address) => Belongs(m, v, address)
<1>1. PICK i \in 1..(Len(l) + 1) :
        m = Joined(Joined(InsertAt(l, i, Free(b)), i), i - 1)
  BY DEF Puts
<1> DEFINE p == InsertAt(l, i, Free(b))
           q == Joined(p, i)
<1>2. /\ Free(b) \in Sound /\ b.from \in Int /\ b.to \in Int /\ b.from < b.to
      /\ Free(b).from = b.from /\ Free(b).to = b.to
      /\ v = u \ {b} /\ l \in Seq(Sound)
      /\ i \in Int /\ i - 1 \in Int
  BY BlockFacts DEF Whole, Free, Puts
<1>3. /\ Clear(l, Free(b))
      /\ \A c : Apart(b, c) => Apart(Free(b), c)
      /\ \A address : Holds(b, address) => Holds(Free(b), address)
  BY <1>2 DEF Whole, Clear, Apart, Holds
<1>4. /\ p \in Seq(Sound) /\ Parts(p)
      /\ \A c : Clear(l, c) /\ Apart(b, c) => Clear(p, c)
      /\ \A address : Lists(l, address) \/ Holds(b, address) => Lists(p, address)
  BY <1>2, <1>3, Inserted, InsertedParts DEF Whole
<1>5. m = Joined(q, i - 1)
  BY <1>1
<1> HIDE DEF p
<1>6. /\ q \in Seq(Sound) /\ Parts(q)
      /\ \A c : c.from \in Int /\ c.to \in Int /\ c.from < c.to /\ Clear(p, c) => Clear(q, c)
      /\ \A address \in Int : Lists(p, address) => Lists(q, address)
  BY <1>2, <1>4, JoinedSound, JoinedParts
<1> HIDE DEF q
<1>7. /\ Parts(m)
      /\ \A c : c.from \in Int /\ c.to \in Int /\ c.from < c.to /\ Clear(q, c)
                  => Clear(m, c)
      /\ \A address \in Int : Lists(q, address) => Lists(m, address)
  BY <1>2, <1>5, <1>6, JoinedParts
<1>8. \A c : c.from \in Int /\ c.to \in Int /\ c.from < c.to
             /\ Clear(l, c) /\ Apart(b, c) => Clear(m, c)
  <2> SUFFICES ASSUME NEW c, c.from \in Int, c.to \in Int, c.from < c.to,
                      Clear(l, c), Apart(b, c)
               PROVE  Clear(m, c)
    OBVIOUS
  <2>1. Clear(p, c)
    BY <1>4
  <2>2. Clear(q, c)
    BY <1>6, <2>1
  <2> QED
    BY <1>7, <2>2
<1>9. \A c \in v : /\ c.from < c.to /\ Clear(m, c)
                       /\ Length(c) >= c.size + NextSize
  BY <1>2, <1>8, BlockFacts DEF Whole
<1>10. ~h => Clear(m, Tpa) /\ \A c \in v : Apart(c, Tpa)
  BY <1>2, <1>8, TpaFacts DEF Whole
<1>11. Whole(m, v, h)
  BY <1>2, <1>7, <1>9, <1>10 DEF Whole
<1>12. ASSUME NEW address \in Int,
              Lists(l, address) \/ \E c \in u : Holds(c, address)
       PROVE  Lists(m, address) \/ \E c \in v : Holds(c, address)
  <2>1. CASE Lists(l, address) \/ Holds(b, address)
    BY <1>4, <1>6, <1>7, <2>1
  <2>2. CASE \E c \in u : c # b /\ Holds(c, address)
    BY <1>2, <2>2
  <2> QED
    BY <1>12, <2>1, <2>2
<1> QED
  BY <1>11, <1>12 DEF Belongs

\* What a call of the heap keeps.
Keeps(l, u, m, v) ==
  /\ SoundHeap(m, v) /\ Whole(m, v, handed)
  /\ \A address \in Int : Belongs(l, u, address) => Belongs(m, v, address)

LEMMA MallocKeeps ==
  ASSUME HeapInv, BlocksInv, NEW size \in Sizes, malloc(size)
  PROVE  Keeps(heap_free, live, heap_free', live') /\ UNCHANGED <<free_tpa_start, free_tpa_end>>
<1> DEFINE i == FirstFit(heap_free, size)
<1>1. PICK m, v : m = CutFrom(heap_free, i, size) /\ v = live \cup {Used(heap_free[i], size)}
  OBVIOUS
<1>2. i # 0 /\ heap_free' = m /\ live' = v /\ UNCHANGED <<free_tpa_start, free_tpa_end>>
  BY <1>1 DEF malloc
<1>3. SoundHeap(heap_free, live) /\ heap_free \in Seq(Sound) /\ Whole(heap_free, live, handed)
  BY DEF HeapInv, SoundHeap, BlocksInv
<1>4. i \in DOMAIN heap_free /\ Length(heap_free[i]) >= Total(size)
  BY <1>2, <1>3, Fit
<1> HIDE DEF i
<1>5. PICK cut \in Int : Takes(heap_free, live, m, v, size, i, cut)
  BY <1>1, <1>3, <1>4, CutTakes
<1>6. SoundHeap(m, v)
  BY <1>3, <1>4, <1>5, TakesSound
<1>7. /\ Whole(m, v, handed)
      /\ \A address \in Int : Belongs(heap_free, live, address) => Belongs(m, v, address)
  BY <1>3, <1>4, <1>5, TakesWhole
<1> QED
  BY <1>2, <1>6, <1>7 DEF Keeps

LEMMA FreeKeeps ==
  ASSUME HeapInv, BlocksInv, NEW b \in live, free(b)
  PROVE  Keeps(heap_free, live, heap_free', live') /\ UNCHANGED <<free_tpa_start, free_tpa_end>>
<1>1. PICK m, v : m = Freed(heap_free, b) /\ v = live \ {b}
  OBVIOUS
<1>2. heap_free' = m /\ live' = v /\ UNCHANGED <<free_tpa_start, free_tpa_end>>
  BY <1>1 DEF free
<1>3. SoundHeap(heap_free, live) /\ heap_free \in Seq(Sound) /\ Whole(heap_free, live, handed)
  BY DEF HeapInv, SoundHeap, BlocksInv
<1>4. Puts(heap_free, live, m, v, b)
  BY <1>1, <1>3, FreedPuts
<1>5. SoundHeap(m, v)
  BY <1>3, <1>4, PutsSound
<1>6. /\ Whole(m, v, handed)
      /\ \A address \in Int : Belongs(heap_free, live, address) => Belongs(m, v, address)
  BY <1>3, <1>4, PutsWhole
<1> QED
  BY <1>2, <1>5, <1>6 DEF Keeps

\* realloc frees the block and takes a piece of what it became, or takes a
\* piece and then frees the block.
LEMMA ReallocKeeps ==
  ASSUME HeapInv, BlocksInv, NEW b \in live, NEW size \in Sizes, realloc(b, size)
  PROVE  Keeps(heap_free, live, heap_free', live') /\ UNCHANGED <<free_tpa_start, free_tpa_end>>
<1> DEFINE merged == Freed(heap_free, b)
           i      == SelectInSeq(merged, LAMBDA f : Holds(f, b.from))
           j      == FirstFit(heap_free, size)
<1>1. \/ /\ Length(merged[i]) >= Total(size)
         /\ heap_free' = CutFrom(merged, i, size)
         /\ live' = (live \ {b}) \cup {Used(merged[i], size)}
      \/ /\ j # 0
         /\ heap_free' = Freed(CutFrom(heap_free, j, size), b)
         /\ live' = (live \cup {Used(heap_free[j], size)}) \ {b}
  BY DEF realloc
<1>2. UNCHANGED <<free_tpa_start, free_tpa_end>>
  BY DEF realloc
<1>3. SoundHeap(heap_free, live) /\ heap_free \in Seq(Sound) /\ Whole(heap_free, live, handed)
  BY DEF HeapInv, SoundHeap, BlocksInv
<1>4. PICK l, u : l = heap_free /\ u = live
  OBVIOUS
<1>5. SoundHeap(l, u) /\ l \in Seq(Sound) /\ Whole(l, u, handed) /\ b \in u
  BY <1>3, <1>4
<1>6. CASE /\ Length(merged[i]) >= Total(size)
           /\ heap_free' = CutFrom(merged, i, size)
           /\ live' = (live \ {b}) \cup {Used(merged[i], size)}
  <2>1. PICK k, w : k = merged /\ w = live \ {b}
    OBVIOUS
  <2>2. Puts(l, u, k, w, b)
    BY <1>3, <1>4, <2>1, FreedPuts
  <2>3. SoundHeap(k, w)
    BY <1>5, <2>2, PutsSound
  <2>4. /\ Whole(k, w, handed)
        /\ \A address \in Int : Belongs(l, u, address) => Belongs(k, w, address)
    BY <1>5, <2>2, PutsWhole
  <2>5. k \in Seq(Sound)
    BY <2>3 DEF SoundHeap
  \* The byte at the block's start is in a block of the list now.
  <2>6. Lists(k, b.from)
    <3>1. b.from \in Int /\ b.to \in Int
      BY <1>5, BlockFacts
    <3>2. Holds(b, b.from) /\ b.from < b.to
      BY <1>5, <3>1 DEF Whole, Holds
    <3>3. Belongs(k, w, b.from)
      BY <1>5, <2>4, <3>1, <3>2 DEF Belongs
    <3>4. \A c \in w : ~Holds(c, b.from)
      <4> SUFFICES ASSUME NEW c \in w PROVE ~Holds(c, b.from)
        OBVIOUS
      <4>1. c \in u /\ c # b
        BY <1>4, <2>1
      <4>2. Apart(b, c) /\ c.from \in Int /\ c.to \in Int
        BY <1>5, <4>1, BlockFacts DEF Whole
      <4> QED
        BY <3>1, <3>2, <4>2 DEF Apart, Holds
    <3> QED
      BY <3>3, <3>4 DEF Belongs
  <2>7. i \in DOMAIN k
    <3> DEFINE I == {n \in 1..Len(k) : Holds(k[n], b.from)}
    <3>1. i = IF I # {} THEN Min(I) ELSE 0
      BY <2>1 DEF SelectInSeq
    <3>2. I # {} /\ I \subseteq Nat /\ I \subseteq DOMAIN k
      BY <2>5, <2>6 DEF Lists
    <3> HIDE DEF I, i
    <3> QED
      BY <3>1, <3>2, MinIn
  <2> HIDE DEF i, merged
  <2>8. PICK m, v : m = CutFrom(k, i, size) /\ v = w \cup {Used(k[i], size)}
    OBVIOUS
  <2>9. heap_free' = m /\ live' = v /\ Length(k[i]) >= Total(size)
    BY <1>6, <2>1, <2>8
  <2>10. PICK cut \in Int : Takes(k, w, m, v, size, i, cut)
    BY <2>5, <2>7, <2>8, <2>9, CutTakes
  <2>11. SoundHeap(m, v)
    BY <2>3, <2>7, <2>10, TakesSound
  <2>12. /\ Whole(m, v, handed)
         /\ \A address \in Int : Belongs(k, w, address) => Belongs(m, v, address)
    BY <2>3, <2>4, <2>7, <2>10, TakesWhole
  <2> QED
    BY <1>2, <1>4, <2>4, <2>9, <2>11, <2>12 DEF Keeps
<1>7. CASE /\ j # 0
           /\ heap_free' = Freed(CutFrom(heap_free, j, size), b)
           /\ live' = (live \cup {Used(heap_free[j], size)}) \ {b}
  <2>1. j \in DOMAIN heap_free /\ Length(heap_free[j]) >= Total(size)
    BY <1>3, <1>7, Fit
  <2> HIDE DEF j
  <2>2. PICK k, w : k = CutFrom(heap_free, j, size) /\ w = live \cup {Used(heap_free[j], size)}
    OBVIOUS
  <2>3. PICK cut \in Int : Takes(l, u, k, w, size, j, cut)
    BY <1>3, <1>4, <2>1, <2>2, CutTakes
  <2>4. SoundHeap(k, w)
    BY <1>4, <1>5, <2>1, <2>3, TakesSound
  <2>5. /\ Whole(k, w, handed)
        /\ \A address \in Int : Belongs(l, u, address) => Belongs(k, w, address)
    BY <1>4, <1>5, <2>1, <2>3, TakesWhole
  <2>6. b \in w /\ k \in Seq(Sound)
    BY <1>4, <1>5, <2>2, <2>4 DEF SoundHeap
  <2>7. PICK m, v : m = Freed(k, b) /\ v = w \ {b}
    OBVIOUS
  <2>8. Puts(k, w, m, v, b)
    BY <2>6, <2>7, FreedPuts
  <2>9. SoundHeap(m, v)
    BY <2>4, <2>6, <2>8, PutsSound
  <2>10. /\ Whole(m, v, handed)
         /\ \A address \in Int : Belongs(k, w, address) => Belongs(m, v, address)
    BY <2>4, <2>5, <2>6, <2>8, PutsWhole
  <2>11. heap_free' = m /\ live' = v
    BY <1>7, <2>2, <2>7
  <2> QED
    BY <1>2, <1>4, <2>5, <2>9, <2>10, <2>11 DEF Keeps
<1> QED
  BY <1>1, <1>6, <1>7

\* The TPA goes in front of the list (add_tpa_to_sdcc_heap).
LEMMA AddWhole ==
  ASSUME HeapInv, BlocksInv, Started, ~handed, handed', add_tpa_to_sdcc_heap
  PROVE  /\ BlocksInv'
         /\ \A address \in Int :
              Belongs(heap_free, live, address) \/ address \in free_tpa_start..(free_tpa_end - 1)
                => Belongs(heap_free', live', address)
<1>1. /\ free_tpa_start = ProgEnd /\ free_tpa_end = TpaEnd /\ live' = live
      /\ heap_free' = <<Tpa>> \o heap_free
  BY DEF HeapInv, add_tpa_to_sdcc_heap, AddTpa, Tpa
<1>2. /\ Tpa \in Sound /\ heap_free \in Seq(Sound) /\ Len(heap_free) \in Nat
      /\ Tpa.from < Tpa.to /\ Clear(heap_free, Tpa) /\ \A b \in live : Apart(b, Tpa)
  BY TpaFacts DEF HeapInv, SoundHeap, BlocksInv, Whole
<1>3. <<Tpa>> \o heap_free = InsertAt(heap_free, 1, Tpa)
  <2>1. SubSeq(heap_free, 1, 1 - 1) = <<>>
    BY <1>2
  <2>2. SubSeq(heap_free, 1, Len(heap_free)) = heap_free
    BY <1>2
  <2>3. <<>> \o <<Tpa>> = <<Tpa>>
    BY <1>2
  <2> QED
    BY <2>1, <2>2, <2>3 DEF InsertAt
<1>4. 1 \in 1..(Len(heap_free) + 1)
  BY <1>2
<1>5. /\ Parts(heap_free')
      /\ \A c : Clear(heap_free, c) /\ Apart(Tpa, c) => Clear(heap_free', c)
      /\ \A address : Lists(heap_free, address) \/ Holds(Tpa, address)
                        => Lists(heap_free', address)
  <2>1. heap_free' = InsertAt(heap_free, 1, Tpa) /\ Parts(heap_free)
    BY <1>1, <1>3 DEF BlocksInv, Whole
  <2> QED
    BY <1>2, <1>4, <2>1, InsertedParts
<1>6. \A c \in live : Clear(heap_free', c)
  BY <1>2, <1>5 DEF BlocksInv, Whole, Apart
<1>7. BlocksInv'
  BY <1>1, <1>5, <1>6 DEF BlocksInv, Whole
<1>8. \A address \in Int : address \in free_tpa_start..(free_tpa_end - 1) => Holds(Tpa, address)
  BY <1>1, TpaFacts DEF Holds, Tpa
<1> QED
  BY <1>1, <1>5, <1>7, <1>8 DEF Belongs

LEMMA InitHeap == Init => HeapInv
BY DEF Init, HeapOff, HeapInv, SoundHeap, Started

LEMMA NextHeap == HeapInv /\ BlocksInv /\ [Next]_vars => HeapInv'
<1> SUFFICES ASSUME HeapInv, BlocksInv, [Next]_vars PROVE HeapInv'
  OBVIOUS
<1>1. ASSUME UNCHANGED heapVars, Started' => Started PROVE HeapInv'
  BY <1>1 DEF HeapInv, heapVars
<1>2. CASE Load
  BY <1>1, <1>2 DEF Load, Go, Started
<1>3. CASE Pack
  BY <1>1, <1>3 DEF Pack, Go, Started
<1>4. CASE Send
  BY <1>1, <1>4 DEF Send, Go, Started
<1>5. CASE StartProgram
  <2>1. heap_free' = <<[from |-> HeapStart, to |-> HeapEnd]>> /\ live' = {}
        /\ free_tpa_start' = ProgEnd /\ free_tpa_end' = TpaEnd
    BY <1>5 DEF StartProgram, CpmStart
  <2>2. [from |-> HeapStart, to |-> HeapEnd] \in Sound
    BY MapAssumption DEF Sound, Within
  <2> QED
    BY <2>1, <2>2 DEF HeapInv, SoundHeap, TpaEnd
<1>6. CASE EditHeap
  <2>1. CASE \E size \in Sizes : malloc(size) /\ handed' = handed /\ UNCHANGED <<stage, program>>
    BY <2>1, MallocKeeps DEF Keeps, HeapInv, Started
  <2>2. CASE \E b \in live : free(b) /\ handed' = handed /\ UNCHANGED <<stage, program>>
    BY <2>2, FreeKeeps DEF Keeps, HeapInv, Started
  <2>3. CASE Go("main", "running") /\ add_tpa_to_sdcc_heap
    <3> DEFINE tpa == [from |-> free_tpa_start, to |-> free_tpa_end]
    <3>1. /\ stage' = "running" /\ live' = live /\ heap_free' = <<tpa>> \o heap_free
          /\ tpa = [from |-> ProgEnd, to |-> Bdos - 1]
      BY <2>3 DEF Go, add_tpa_to_sdcc_heap, AddTpa, HeapInv, TpaEnd, Started
    <3>2. tpa \in Sound
      BY <3>1, MapAssumption DEF Sound, Within
    <3>3. heap_free' \in Seq(Sound)
      BY <3>1, <3>2 DEF HeapInv, SoundHeap
    <3> QED
      BY <2>3, <3>1, <3>3 DEF HeapInv, SoundHeap, add_tpa_to_sdcc_heap, Go, Started
  <2>4. CASE \E b \in live, size \in Sizes :
               realloc(b, size) /\ handed' = handed /\ UNCHANGED <<stage, program>>
    BY <2>4, ReallocKeeps DEF Keeps, HeapInv, Started
  <2> QED
    BY <1>6, <2>1, <2>2, <2>3, <2>4 DEF EditHeap
<1>7. CASE Serial
  BY <1>1, <1>7 DEF Serial, Go, Started
<1>8. CASE UNCHANGED vars
  BY <1>1, <1>8 DEF vars, Started
<1> QED
  BY <1>2, <1>3, <1>4, <1>5, <1>6, <1>7, <1>8 DEF Next

WholeInv == HeapInv /\ BlocksInv /\ BytesInv

LEMMA NextWhole == WholeInv /\ [Next]_vars => WholeInv'
<1> SUFFICES ASSUME HeapInv, BlocksInv, BytesInv, [Next]_vars PROVE BlocksInv' /\ BytesInv'
  BY NextHeap DEF WholeInv
<1>0. /\ \A a \in HeapBytes(handed) : a \in Int
      /\ HeapBytes(FALSE) = HeapStart..(HeapEnd - 1)
      /\ HeapBytes(TRUE) = HeapBytes(FALSE) \cup free_tpa_start..(free_tpa_end - 1)
  BY DEF HeapBytes
<1>1. ASSUME UNCHANGED <<heapVars, handed>>, Started' => Started, handed => stage' = "running"
      PROVE  BlocksInv' /\ BytesInv'
  BY <1>1 DEF BlocksInv, Whole, BytesInv, heapVars, HeapBytes
<1>2. CASE Load
  BY <1>1, <1>2 DEF Load, Go, Started, BytesInv
<1>3. CASE Pack
  BY <1>1, <1>3 DEF Pack, Go, Started, BytesInv
<1>4. CASE Send
  BY <1>1, <1>4 DEF Send, Go, Started, BytesInv
<1>5. CASE StartProgram
  <2> DEFINE b == [from |-> HeapStart, to |-> HeapEnd]
  <2>1. heap_free' = <<b>> /\ live' = {} /\ ~handed /\ handed' = handed
    BY <1>5 DEF StartProgram, CpmStart, BytesInv, Go
  <2>2. b.from < b.to /\ Apart(b, Tpa)
    BY MapAssumption DEF Apart, Tpa
  <2>3. heap_free'[1] = b /\ DOMAIN heap_free' = {1}
    BY <2>1
  <2>4. BlocksInv'
    BY <2>1, <2>2, <2>3 DEF BlocksInv, Whole, Parts, Clear
  <2>5. \A address \in HeapStart..(HeapEnd - 1) : Holds(b, address)
    BY MapAssumption DEF Holds
  <2>6. HeapBytes(handed)' = HeapStart..(HeapEnd - 1)
    BY <2>1 DEF HeapBytes
  <2>7. BytesInv'
    BY <2>1, <2>3, <2>5, <2>6 DEF BytesInv, Belongs, Lists
  <2> QED
    BY <2>4, <2>7
<1>6. CASE EditHeap
  <2>1. ASSUME handed' = handed, UNCHANGED <<stage, free_tpa_start, free_tpa_end>>,
               Keeps(heap_free, live, heap_free', live')
        PROVE  BlocksInv' /\ BytesInv'
    <3>1. HeapBytes(handed)' = HeapBytes(handed) /\ (Started' <=> Started)
      BY <2>1 DEF HeapBytes, Started
    <3>2. \A address \in Int : Belongs(heap_free, live, address) => Belongs(heap_free', live', address)
      BY <2>1 DEF Keeps
    <3>3. BytesInv'
      BY <1>0, <2>1, <3>1, <3>2 DEF BytesInv
    <3> QED
      BY <2>1, <3>3 DEF Keeps, BlocksInv
  <2>2. CASE \E size \in Sizes : malloc(size) /\ handed' = handed /\ UNCHANGED <<stage, program>>
    <3>1. PICK size \in Sizes : malloc(size) /\ handed' = handed /\ UNCHANGED <<stage, program>>
      BY <2>2
    <3> QED
      BY <2>1, <3>1, MallocKeeps
  <2>3. CASE \E b \in live : free(b) /\ handed' = handed /\ UNCHANGED <<stage, program>>
    <3>1. PICK b \in live : free(b) /\ handed' = handed /\ UNCHANGED <<stage, program>>
      BY <2>3
    <3> QED
      BY <2>1, <3>1, FreeKeeps
  <2>4. CASE Go("main", "running") /\ add_tpa_to_sdcc_heap /\ handed' = TRUE
    <3>1. Started /\ ~handed /\ handed' /\ handed' = TRUE /\ stage' = "running"
      BY <2>4 DEF Go, Started, BytesInv
    <3>2. /\ BlocksInv'
          /\ \A address \in Int :
               Belongs(heap_free, live, address) \/ address \in free_tpa_start..(free_tpa_end - 1)
                 => Belongs(heap_free', live', address)
      BY <2>4, <3>1, AddWhole
    <3>3. HeapBytes(handed)' = HeapBytes(handed) \cup free_tpa_start..(free_tpa_end - 1)
      BY <2>4, <3>1 DEF HeapBytes, add_tpa_to_sdcc_heap
    <3>4. \A a \in HeapBytes(handed)' : a \in Int
      BY <1>0, <3>3
    <3>5. ASSUME NEW a \in HeapBytes(handed)'
          PROVE  Belongs(heap_free', live', a)
      <4>1. \/ a \in free_tpa_start..(free_tpa_end - 1)
            \/ Belongs(heap_free, live, a)
        BY <3>1, <3>3 DEF BytesInv
      <4>2. a \in Int
        BY <3>4
      <4> QED
        BY <3>2, <4>1, <4>2
    <3>6. BytesInv'
      BY <3>1, <3>5 DEF BytesInv
    <3> QED
      BY <3>2, <3>6
  <2>5. CASE \E b \in live, size \in Sizes :
               realloc(b, size) /\ handed' = handed /\ UNCHANGED <<stage, program>>
    <3>1. PICK b \in live, size \in Sizes :
            realloc(b, size) /\ handed' = handed /\ UNCHANGED <<stage, program>>
      BY <2>5
    <3> QED
      BY <2>1, <3>1, ReallocKeeps
  <2> QED
    BY <1>6, <2>2, <2>3, <2>4, <2>5 DEF EditHeap
<1>7. CASE Serial
  BY <1>1, <1>7 DEF Serial, Go, Started, BytesInv
<1>8. CASE UNCHANGED vars
  BY <1>1, <1>8 DEF vars, Started, BytesInv
<1> QED
  BY <1>2, <1>3, <1>4, <1>5, <1>6, <1>7, <1>8 DEF Next

LEMMA InitWhole == Init => WholeInv
<1> SUFFICES ASSUME Init PROVE WholeInv
  OBVIOUS
<1>1. heap_free = <<>> /\ live = {} /\ handed = FALSE /\ ~Started
  BY DEF Init, HeapOff, Started
<1> QED
  BY <1>1, InitHeap DEF WholeInv, BlocksInv, Whole, BytesInv, Parts, Clear

\* Whatever is allocated and freed, before and after the TPA is handed over,
\* no block leaves SDCC's heap or the free part of the TPA.
THEOREM HeapApartHolds == Spec => []HeapApart
<1>1. WholeInv => HeapApart
  <2> SUFFICES ASSUME WholeInv, NEW b \in Blocks
               PROVE  Within(b, HeapStart, HeapEnd) \/ Within(b, ProgEnd, Bdos)
    BY DEF HeapApart
  <2>1. b \in Sound
    BY DEF Blocks, WholeInv, HeapInv, SoundHeap, ToSet
  <2> QED
    BY <2>1 DEF Sound
<1> QED
  BY <1>1, InitWhole, NextWhole, PTL DEF Spec

\* Whatever is allocated and freed, before and after the TPA is handed over,
\* blocks never overlap, each is large enough, and every byte is in one.
THEOREM HeapWholeHolds == Spec => []HeapWhole
<1>1. WholeInv => HeapWhole
  <2> SUFFICES ASSUME WholeInv, Started PROVE HeapSound(handed)
    BY DEF HeapWhole, Started
  <2>1. \A b, c \in Blocks : b = c \/ Apart(b, c)
    <3> SUFFICES ASSUME NEW b \in Blocks, NEW c \in Blocks PROVE b = c \/ Apart(b, c)
      OBVIOUS
    <3>1. ASSUME NEW i \in DOMAIN heap_free, NEW d \in live
          PROVE  Apart(heap_free[i], Free(d)) /\ Apart(Free(d), heap_free[i])
      BY DEF WholeInv, BlocksInv, Whole, Clear, Apart, Free
    <3>2. ASSUME NEW d \in live, NEW e \in live
          PROVE  Free(d) = Free(e) \/ Apart(Free(d), Free(e))
      BY DEF WholeInv, BlocksInv, Whole, Apart, Free
    <3>3. ASSUME NEW i \in DOMAIN heap_free, NEW j \in DOMAIN heap_free
          PROVE  heap_free[i] = heap_free[j] \/ Apart(heap_free[i], heap_free[j])
      BY DEF WholeInv, BlocksInv, Whole, Parts
    <3>4. /\ (\E i \in DOMAIN heap_free : b = heap_free[i]) \/ (\E d \in live : b = Free(d))
          /\ (\E i \in DOMAIN heap_free : c = heap_free[i]) \/ (\E d \in live : c = Free(d))
      BY DEF Blocks, ToSet
    <3> QED
      BY <3>1, <3>2, <3>3, <3>4
  <2>2. \A address \in HeapBytes(handed) : \E b \in Blocks : Holds(b, address)
    <3> SUFFICES ASSUME NEW address \in HeapBytes(handed)
                 PROVE  \E b \in Blocks : Holds(b, address)
      OBVIOUS
    <3>1. CASE Lists(heap_free, address)
      BY <3>1 DEF Lists, Blocks, ToSet
    <3>2. CASE \E b \in live : Holds(b, address)
      <4>1. PICK b \in live : Holds(b, address)
        BY <3>2
      <4>2. Free(b) \in Blocks /\ Holds(Free(b), address)
        BY <4>1 DEF Blocks, Holds, Free
      <4> QED
        BY <4>2
    <3> QED
      BY <3>1, <3>2 DEF WholeInv, BytesInv, Belongs
  <2> QED
    BY <2>1, <2>2 DEF HeapSound, WholeInv, BlocksInv, Whole
<1> QED
  BY <1>1, InitWhole, NextWhole, PTL DEF Spec

-----------------------------------------------------------------------------
(* Induction, with a set in place of the predicate, and folds.             *)

\* A non-empty set of naturals has a least member.
LEMMA Least ==
  ASSUME NEW I \in SUBSET Nat, I # {}
  PROVE  \E m \in I : \A i \in I : m <= i
<1> DEFINE R == OpToRel(<, Nat)
<1>1. PICK m \in I : \A i \in I : <<i, m>> \notin R
  <2>1. IsWellFoundedOn(R, Nat)
    BY NatLessThanWellFounded
  <2> HIDE DEF R
  <2> QED
    BY <2>1, WFMin
<1>2. ASSUME NEW i \in I PROVE m <= i
  <2>1. i \in Nat /\ m \in Nat /\ <<i, m>> \in Nat \X Nat
    OBVIOUS
  <2>2. i < m => <<i, m>> \in R
    BY <2>1 DEF OpToRel
  <2> HIDE DEF R
  <2> QED
    BY <1>1, <2>1, <2>2
<1> QED
  BY <1>2

\* A set that holds 0 and with n also n + 1 holds every natural number.
LEMMA SetInduction ==
  ASSUME NEW S, 0 \in S, \A n \in Nat : n \in S => n + 1 \in S
  PROVE  \A n \in Nat : n \in S
<1> SUFFICES ASSUME Nat \ S # {} PROVE FALSE
  OBVIOUS
<1>1. PICK m \in Nat \ S : \A i \in Nat \ S : m <= i
  BY Least
<1>2. m # 0 /\ m - 1 \in Nat
  BY <1>1
<1>3. m - 1 \in S
  BY <1>1, <1>2
<1>4. m - 1 + 1 \in S
  BY <1>2, <1>3
<1> QED
  BY <1>1, <1>4

\* A non-empty set of indices has a greatest one.
LEMMA GreatestIn ==
  ASSUME NEW n \in Nat, NEW S \in SUBSET (1..n), S # {}
  PROVE  Max(S) \in S
<1> DEFINE I == {n - k : k \in S}
<1>1. I \in SUBSET Nat /\ I # {}
  <2>1. \A k \in S : n - k \in Nat
    OBVIOUS
  <2> QED
    BY <2>1
<1>2. PICK m \in I : \A i \in I : m <= i
  BY <1>1, Least
<1>3. PICK k \in S : m = n - k
  BY <1>2
<1>4. \A j \in S : n - k <= n - j
  BY <1>2, <1>3
<1>5. ASSUME NEW j \in S PROVE j \in Int /\ k >= j
  <2>1. j \in Int /\ k \in Int /\ n - k <= n - j
    BY <1>4
  <2> QED
    BY <2>1
<1> QED
  BY <1>5, MaxOf

\* h gives every set of the indices 1..n the value F makes of the value of
\* the set without its greatest index, and of that index.
Folded(h, b, n, F) ==
  \A s \in SUBSET (1..n) :
    h[s] = IF s = {} THEN b ELSE F[<<h[s \ {Max(s)}], Max(s)>>]

\* What a fold computes exists.
LEMMA FoldExists ==
  ASSUME NEW X, NEW b \in X, NEW n \in Nat, NEW F \in [X \X (1..n) -> X]
  PROVE  \E h \in [SUBSET (1..n) -> X] : Folded(h, b, n, F)
<1> DEFINE Values(k) == {h \in [SUBSET (1..k) -> X] : Folded(h, b, k, F)}
           S == {k \in Nat : k <= n => Values(k) # {}}
<1>1. 0 \in S
  <2> DEFINE h == [s \in SUBSET (1..0) |-> b]
  <2>1. \A s \in SUBSET (1..0) : s = {}
    OBVIOUS
  <2>2. h \in Values(0)
    BY <2>1 DEF Folded
  <2> HIDE DEF h, Values
  <2> QED
    BY <2>2
<1>2. ASSUME NEW k \in Nat, k \in S PROVE k + 1 \in S
  <2> HIDE DEF Values
  <2> SUFFICES ASSUME k + 1 <= n PROVE Values(k + 1) # {}
    OBVIOUS
  <2>1. PICK g : g \in Values(k)
    BY <1>2
  <2> USE DEF Values
  <2>7. g \in [SUBSET (1..k) -> X]
    BY <2>1
  <2> DEFINE h == [s \in SUBSET (1..(k + 1)) |->
                     IF k + 1 \in s THEN F[<<g[s \ {k + 1}], k + 1>>] ELSE g[s]]
  <2>2. ASSUME NEW s \in SUBSET (1..(k + 1)), k + 1 \in s
        PROVE  /\ s \ {k + 1} \in SUBSET (1..k) /\ s \ {k + 1} \in SUBSET (1..(k + 1))
               /\ Max(s) = k + 1
    <3>1. \A i \in s : i \in Int /\ k + 1 >= i /\ (i # k + 1 => i \in 1..k)
      OBVIOUS
    <3>2. Max(s) = k + 1
      BY <3>1, <2>2, MaxOf
    <3> QED
      BY <3>1, <3>2
  <2>3. ASSUME NEW s \in SUBSET (1..(k + 1)), k + 1 \notin s
        PROVE  s \in SUBSET (1..k)
    BY <2>3
  <2>4. h \in [SUBSET (1..(k + 1)) -> X]
    <3> SUFFICES ASSUME NEW s \in SUBSET (1..(k + 1)) PROVE h[s] \in X
      OBVIOUS
    <3>1. CASE k + 1 \in s
      <4>1. g[s \ {k + 1}] \in X /\ k + 1 \in 1..n
        BY <2>2, <2>7, <3>1
      <4>2. F[<<g[s \ {k + 1}], k + 1>>] \in X
        BY <4>1
      <4> QED
        BY <3>1, <4>2
    <3>2. CASE k + 1 \notin s
      BY <2>3, <2>7, <3>2
    <3> QED
      BY <3>1, <3>2
  <2>5. ASSUME NEW s \in SUBSET (1..(k + 1))
        PROVE  h[s] = IF s = {} THEN b ELSE F[<<h[s \ {Max(s)}], Max(s)>>]
    <3>1. CASE k + 1 \in s
      <4>1. s \ {k + 1} \in SUBSET (1..(k + 1)) /\ Max(s) = k + 1
        BY <2>2, <3>1
      <4>2. h[s \ {k + 1}] = g[s \ {k + 1}]
        BY <4>1
      <4>3. h[s] = F[<<g[s \ {k + 1}], k + 1>>]
        BY <3>1
      <4> QED
        BY <3>1, <4>1, <4>2, <4>3
    <3>2. CASE k + 1 \notin s /\ s # {}
      <4>1. s \in SUBSET (1..k)
        BY <2>3, <3>2
      <4>2. Max(s) \in s
        BY <4>1, <3>2, GreatestIn
      <4>3. h[s] = g[s] /\ g[s] = F[<<g[s \ {Max(s)}], Max(s)>>]
        BY <2>1, <3>2, <4>1 DEF Folded
      <4>4. s \ {Max(s)} \in SUBSET (1..(k + 1)) /\ k + 1 \notin s \ {Max(s)}
        BY <3>2
      <4>5. h[s \ {Max(s)}] = g[s \ {Max(s)}]
        BY <4>4
      <4> QED
        BY <3>2, <4>3, <4>5
    <3>3. CASE s = {}
      <4>1. h[s] = g[s] /\ s \in SUBSET (1..k)
        BY <3>3
      <4> QED
        BY <2>1, <3>3, <4>1 DEF Folded
    <3> QED
      BY <3>1, <3>2, <3>3
  <2> HIDE DEF h
  <2>6. h \in Values(k + 1)
    BY <2>4, <2>5 DEF Folded
  <2> HIDE DEF Values
  <2> QED
    BY <2>6
<1> HIDE DEF Values
<1>3. \A k \in Nat : k \in S
  <2> HIDE DEF S
  <2> QED
    BY <1>1, <1>2, SetInduction
<1>4. Values(n) # {}
  BY <1>3
<1> QED
  BY <1>4 DEF Values

\* The indices up to i, and those before i.
LEMMA PrefixFacts ==
  ASSUME NEW n \in Nat, NEW i \in 1..n
  PROVE  /\ 1..i \in SUBSET (1..n) /\ 1..i # {}
         /\ Max(1..i) = i /\ (1..i) \ {i} = 1..(i - 1)
<1>1. i \in 1..i /\ \A k \in 1..i : k \in Int /\ i >= k /\ k \in 1..n
  OBVIOUS
<1>2. Max(1..i) = i
  BY <1>1, MaxOf
<1>3. 1..i \in SUBSET (1..n) /\ 1..i # {}
  BY <1>1
<1>4. (1..i) \ {i} = 1..(i - 1)
  OBVIOUS
<1> QED
  BY <1>2, <1>3, <1>4

-----------------------------------------------------------------------------
(* The packet.                                                             *)

\* A multiple of B that is less than B away from 0 is 0.
LEMMA Multiple ==
  ASSUME NEW B \in Nat \ {0}, NEW d \in Int, -B < B * d, B * d < B
  PROVE  d = 0
<1>1. CASE d >= 1
  <2>1. PICK e \in Nat : d = e + 1
    <3>1. d - 1 \in Nat /\ d = (d - 1) + 1 BY <1>1
    <3> QED BY <3>1
  <2>2. B * e \in Nat OBVIOUS
  <2>3. B * d = B * e + B BY <2>1
  <2> QED BY <2>2, <2>3
<1>2. CASE d <= -1
  <2>1. PICK e \in Nat : d = -e - 1
    <3>1. -d - 1 \in Nat /\ d = -(-d - 1) - 1 BY <1>2
    <3> QED BY <3>1
  <2>2. B * e \in Nat OBVIOUS
  <2>3. B * d = -(B * e) - B BY <2>1
  <2> QED BY <2>2, <2>3
<1> QED BY <1>1, <1>2

\* Two numbers that are less than B apart and leave the same remainder are
\* the same.
LEMMA Congruent ==
  ASSUME NEW B \in Nat \ {0}, NEW x \in Int, NEW y \in Int,
         x % B = y % B, -B < x - y, x - y < B
  PROVE  x = y
<1>1. PICK p \in Int, r \in Int : x = B * p + r /\ r = x % B
  <2>1. x \div B \in Int /\ x % B \in Int
    OBVIOUS
  <2>2. x = B * (x \div B) + (x % B)
    OBVIOUS
  <2> QED BY <2>1, <2>2
<1>2. PICK q \in Int : y = B * q + r
  <2>1. y \div B \in Int
    OBVIOUS
  <2>2. y = B * (y \div B) + (y % B)
    OBVIOUS
  <2> QED BY <1>1, <2>1, <2>2
<1>3. x - y = B * (p - q) BY <1>1, <1>2
<1>4. p - q \in Int OBVIOUS
<1>5. p - q = 0
  <2> PICK d \in Int : d = p - q BY <1>4
  <2> QED BY <1>3, Multiple
<1> QED BY <1>1, <1>2, <1>5
\* What the bytes up to each place add up to.
Sums(p, f) ==
  /\ p \in [0..Len(f) -> Int]
  /\ p[0] = 0
  /\ \A i \in 1..Len(f) : p[i] = p[i - 1] + f[i]

\* The checksum is taken byte by byte.
LEMMA Summed ==
  ASSUME NEW f \in Seq(Int)
  PROVE  \E p : Sums(p, f) /\ checksum(f) = p[Len(f)]
<1> DEFINE n == Len(f)
           F == [a \in Int \X (1..n) |-> a[1] + f[a[2]]]
           Step(h) == [s \in SUBSET (1..n) |->
                         IF s = {} THEN 0 ELSE h[s \ {Max(s)}] + f[Max(s)]]
           all == CHOOSE h : h = Step(h)
           p == [i \in 0..n |-> all[1..i]]
<1>1. n \in Nat /\ DOMAIN f = 1..n /\ F \in [Int \X (1..n) -> Int]
  OBVIOUS
<1>2. PICK h \in [SUBSET (1..n) -> Int] : Folded(h, 0, n, F)
  <2> DEFINE X == Int
  <2>1. 0 \in X /\ F \in [X \X (1..n) -> X]
    BY <1>1
  <2> HIDE DEF F, n, X
  <2>2. \E h \in [SUBSET (1..n) -> X] : Folded(h, 0, n, F)
    BY <1>1, <2>1, FoldExists
  <2> QED
    BY <2>2 DEF X
<1>3. ASSUME NEW s \in SUBSET (1..n), s # {}
      PROVE  F[<<h[s \ {Max(s)}], Max(s)>>] = h[s \ {Max(s)}] + f[Max(s)]
  <2>1. Max(s) \in 1..n
    BY <1>1, <1>3, GreatestIn
  <2>2. h[s \ {Max(s)}] \in Int
    BY <1>2
  <2> QED
    BY <2>1, <2>2
<1>4. h = Step(h)
  <2>1. \A s \in SUBSET (1..n) : h[s] = Step(h)[s]
    BY <1>2, <1>3 DEF Folded
  <2> QED
    BY <2>1, <1>2
<1>5. all = Step(all)
  <2> HIDE DEF Step
  <2> QED
    BY <1>4
<1>6. checksum(f) = all[1..n]
  BY <1>1 DEF checksum, FoldLeft, MapThenFoldSet
<1>7. ASSUME NEW i \in 1..n
      PROVE  all[1..i] = all[1..(i - 1)] + f[i]
  <2>1. /\ 1..i \in SUBSET (1..n) /\ 1..i # {}
        /\ Max(1..i) = i /\ (1..i) \ {i} = 1..(i - 1)
    BY <1>1, PrefixFacts
  <2>2. all[1..i] = Step(all)[1..i]
    BY <1>5
  <2> HIDE DEF all
  <2> QED
    BY <2>1, <2>2
<1>8. all[1..0] = 0
  <2>1. all[1..0] = Step(all)[1..0]
    BY <1>5
  <2>2. 1..0 = {}
    OBVIOUS
  <2> HIDE DEF all
  <2> QED
    BY <2>1, <2>2
<1> HIDE DEF all
<1>9. p[0] = 0 /\ p[n] = all[1..n] /\ \A i \in 1..n : p[i] = p[i - 1] + f[i]
  BY <1>1, <1>7, <1>8
<1>10. p \in [0..n -> Int]
  <2> DEFINE S == {i \in Nat : i <= n => p[i] \in Int}
  <2>1. 0 \in S
    BY <1>9
  <2>2. ASSUME NEW i \in Nat, i \in S PROVE i + 1 \in S
    <3> SUFFICES ASSUME i + 1 <= n PROVE p[i + 1] \in Int
      OBVIOUS
    <3>1. p[i] \in Int /\ i + 1 \in 1..n /\ f[i + 1] \in Int /\ i + 1 - 1 = i
      BY <2>2, <1>1
    <3> HIDE DEF p, n
    <3>2. p[i + 1] = p[i + 1 - 1] + f[i + 1]
      BY <3>1, <1>9
    <3> QED
      BY <3>1, <3>2
  <2>3. \A i \in Nat : i \in S
    <3> HIDE DEF S
    <3> QED
      BY <2>1, <2>2, SetInduction
  <2>4. ASSUME NEW i \in 0..n PROVE p[i] \in Int
    <3> HIDE DEF p, n
    <3> QED
      BY <2>3, <1>1
  <2> QED
    BY <2>4
<1> HIDE DEF p
<1> QED
  BY <1>6, <1>9, <1>10 DEF Sums

\* A changed byte changes the sum by as much.
LEMMA SumChanged ==
  ASSUME NEW f \in Seq(Int), NEW i \in DOMAIN f, NEW b \in Int
  PROVE  /\ checksum(f) \in Int
         /\ checksum([f EXCEPT ![i] = b]) = checksum(f) + (b - f[i])
<1> DEFINE g == [f EXCEPT ![i] = b]
<1>1. /\ g \in Seq(Int) /\ Len(g) = Len(f) /\ Len(f) \in Nat /\ i \in 1..Len(f)
      /\ \A k \in 1..Len(f) : f[k] \in Int /\ g[k] = IF k = i THEN b ELSE f[k]
  OBVIOUS
<1> HIDE DEF g
<1>2. PICK p : Sums(p, f) /\ checksum(f) = p[Len(f)]
  BY Summed
<1>3. PICK q : Sums(q, g) /\ checksum(g) = q[Len(f)]
  BY <1>1, Summed
<1> DEFINE S == {k \in Nat : k <= Len(f) => q[k] = p[k] + (IF k < i THEN 0 ELSE b - f[i])}
<1>4. 0 \in S
  BY <1>1, <1>2, <1>3 DEF Sums
<1>5. ASSUME NEW k \in Nat, k \in S PROVE k + 1 \in S
  <2>1. PICK j \in Nat : j = k + 1 /\ j - 1 = k
    OBVIOUS
  <2>2. SUFFICES ASSUME j <= Len(f)
                 PROVE  q[j] = p[j] + (IF j < i THEN 0 ELSE b - f[i])
    BY <2>1
  <2>3. j \in 1..Len(f) /\ j \in 1..Len(g) /\ k \in 0..Len(f) /\ k <= Len(f)
    BY <1>1, <2>1, <2>2
  <2>4. p[j] = p[j - 1] + f[j]
    BY <1>2, <2>3 DEF Sums
  <2>5. q[j] = q[j - 1] + g[j]
    BY <1>3, <2>3 DEF Sums
  <2>6. p[k] \in Int
    BY <1>2, <2>3 DEF Sums
  <2>7. f[j] \in Int /\ f[i] \in Int /\ g[j] = IF j = i THEN b ELSE f[j]
    BY <1>1, <2>3
  <2>8. q[k] = p[k] + (IF k < i THEN 0 ELSE b - f[i])
    BY <1>5, <2>3
  <2> HIDE DEF S
  <2>9. PICK x \in Int, d \in Int, y \in Int : x = p[k] /\ d = f[i] /\ y = f[j]
    BY <2>6, <2>7
  <2>10. p[j] = x + y /\ q[j] = q[k] + g[j]
    BY <2>1, <2>4, <2>5, <2>9
  <2>11. i \in Nat
    BY <1>1
  <2>12. CASE j < i
    <3>1. k < i /\ j # i
      BY <2>1, <2>11, <2>12
    <3>2. q[k] = x + 0 /\ g[j] = y
      BY <2>7, <2>8, <2>9, <3>1
    <3> QED
      BY <2>9, <2>10, <2>12, <3>2
  <2>13. CASE j = i
    <3>1. k < i /\ ~(j < i)
      BY <2>1, <2>11, <2>13
    <3>2. q[k] = x + 0 /\ g[j] = b /\ y = d
      BY <2>7, <2>8, <2>9, <2>13, <3>1
    <3> QED
      BY <2>9, <2>10, <3>1, <3>2
  <2>14. CASE i < j
    <3>1. ~(k < i) /\ j # i /\ ~(j < i)
      BY <2>1, <2>11, <2>14
    <3>2. q[k] = x + (b - d) /\ g[j] = y
      BY <2>7, <2>8, <2>9, <3>1
    <3>3. (x + (b - d)) + y = (x + y) + (b - d)
      OBVIOUS
    <3>4. q[j] = p[j] + (b - d)
      BY <2>10, <3>2, <3>3
    <3> QED
      BY <2>9, <3>1, <3>4
  <2> QED
    BY <2>11, <2>12, <2>13, <2>14
<1>6. \A k \in Nat : k \in S
  <2> HIDE DEF S
  <2> QED
    BY <1>4, <1>5, SetInduction
<1>7. q[Len(f)] = p[Len(f)] + (b - f[i])
  <2>1. Len(f) \in S /\ ~(Len(f) < i)
    BY <1>1, <1>6
  <2> QED
    BY <1>1, <2>1
<1>8. checksum(f) \in Int
  <2>1. p \in [0..Len(f) -> Int] /\ checksum(f) = p[Len(f)]
    BY <1>2 DEF Sums
  <2>2. Len(f) \in 0..Len(f)
    BY <1>1
  <2> QED
    BY <2>1, <2>2
<1> QED
  BY <1>2, <1>3, <1>7, <1>8 DEF g

\* Of what the line makes of a file, only the file itself has its size and
\* its sum.
LEMMA OnlyIntact ==
  ASSUME NEW f \in Seq(Bytes), NEW g \in Received(f),
         Packed(g).size = Packed(f).size, Packed(g).sum = Packed(f).sum
  PROVE  g = f
<1>1. Base \in Nat \ {0} /\ Base > 1 /\ Bytes \subseteq Int
  BY BaseAssumption DEF Bytes
<1>2. f \in Seq(Int) /\ Len(f) \in Nat
  <2>1. Seq(Bytes) \subseteq Seq(Int)
    BY <1>1, SeqMonotonic
  <2> QED
    BY <2>1
<1>3. Len(g) % Base = Len(f) % Base /\ checksum(g) % Base = checksum(f) % Base
  BY DEF Packed
<1>4. CASE \E i \in DOMAIN f, b \in Bytes : g = [f EXCEPT ![i] = b]
  <2>1. PICK i \in DOMAIN f, b \in Bytes : g = [f EXCEPT ![i] = b]
    BY <1>4
  <2>2. f[i] \in Bytes /\ f[i] \in Int /\ b \in Int
    <3>1. f[i] \in Bytes
      OBVIOUS
    <3> QED
      BY <1>1, <3>1
  <2>3. checksum(f) \in Int /\ checksum(g) = checksum(f) + (b - f[i])
    BY <1>2, <2>1, <2>2, SumChanged
  <2>4. -Base < b - f[i] /\ b - f[i] < Base
    BY <1>1, <2>2 DEF Bytes
  <2>5. PICK x \in Int, y \in Int : x = checksum(g) /\ y = checksum(f) /\ x - y = b - f[i]
    <3>1. PICK y \in Int, c \in Int, d \in Int : y = checksum(f) /\ c = b /\ d = f[i]
      BY <2>2, <2>3
    <3>2. checksum(g) = y + (c - d)
      BY <2>3, <3>1
    <3>3. y + (c - d) \in Int /\ (y + (c - d)) - y = c - d
      BY <3>1
    <3> QED
      BY <3>1, <3>2, <3>3
  <2>6. x = y
    BY <1>1, <1>3, <2>4, <2>5, Congruent
  <2>7. b = f[i]
    BY <2>2, <2>5, <2>6
  <2> QED
    BY <2>1, <2>7
<1>5. ASSUME Len(g) = Len(f) - 1 \/ Len(g) = Len(f) + 1 PROVE FALSE
  <2>1. Len(g) \in Int /\ Len(f) \in Int
    BY <1>2, <1>5
  <2>2. PICK x \in Int, y \in Int : x = Len(g) /\ y = Len(f) /\ (x - y = 1 \/ x - y = -1)
    <3>1. PICK x \in Int, y \in Int : x = Len(g) /\ y = Len(f)
      BY <2>1
    <3>2. x = y - 1 \/ x = y + 1
      BY <1>5, <3>1
    <3>3. x - y = 1 \/ x - y = -1
      BY <3>2
    <3> QED
      BY <3>1, <3>3
  <2>3. x = y
    BY <1>1, <1>3, <2>2, Congruent
  <2> QED
    BY <2>2, <2>3
<1>6. CASE \E i \in DOMAIN f : g = RemoveAt(f, i)
  <2>1. PICK i \in DOMAIN f : g = RemoveAt(f, i)
    BY <1>6
  <2>2. g \in Seq(Bytes) /\ DOMAIN g = 1..(Len(f) - 1)
    BY <2>1, Removed, RemovedAt
  <2>3. Len(g) = Len(f) - 1
    <3>1. i \in 1..Len(f)
      OBVIOUS
    <3> QED
      BY <1>2, <2>2, <3>1
  <2> QED
    BY <1>5, <2>3
<1>7. CASE \E i \in 1..(Len(f) + 1), b \in Bytes : g = InsertAt(f, i, b)
  <2>1. PICK i \in 1..(Len(f) + 1), b \in Bytes : g = InsertAt(f, i, b)
    BY <1>7
  <2>2. g \in Seq(Bytes) /\ DOMAIN g = 1..(Len(f) + 1)
    BY <2>1, Inserted, InsertedAt
  <2>3. Len(g) = Len(f) + 1
    BY <1>2, <2>2
  <2> QED
    BY <1>5, <2>3
<1> QED
  BY <1>4, <1>6, <1>7 DEF Received

\* What is in memory are bytes, what is packed is a file of bytes, and
\* nothing is stored before it is sent.
PackInv ==
  /\ HexInv
  /\ \A i \in DOMAIN hex : hex[i].data \in Seq(Bytes)
  /\ \A a \in DOMAIN memory : memory[a] \in Bytes
  /\ stage \in {"load", "pack"} => stored = Refused
  /\ stage = "pack" => com \in Seq(Bytes)
  /\ stage = "send" => \E f \in Seq(Bytes) : packet = Packed(f)
  /\ StoredIntact

LEMMA InitPack == Init => PackInv
<1> SUFFICES ASSUME Init PROVE PackInv
  OBVIOUS
<1>1. HexInv
  BY InitHex
<1>2. hex \in HexFiles /\ memory = Zeros /\ stage = "load" /\ stored = Refused
  BY DEF Init, HexInit
<1>3. \A i \in DOMAIN hex : hex[i].data \in Seq(Bytes)
  BY <1>2, FilesAssumption
<1>4. \A a \in DOMAIN memory : memory[a] \in Bytes
  BY <1>2, BaseAssumption DEF Zeros, Bytes
<1> QED
  BY <1>1, <1>2, <1>3, <1>4 DEF PackInv, StoredIntact

LEMMA NextPack == PackInv /\ [Next]_vars => PackInv'
<1> SUFFICES ASSUME PackInv, [Next]_vars PROVE PackInv'
  OBVIOUS
<1>1. HexInv'
  BY NextHex DEF PackInv
<1>2. CASE Load
  <2>1. packet' = packet /\ stored' = stored /\ stage = "load" /\ stage' \in {"load", "pack"}
    BY <1>2 DEF Load, Go, packVars
  <2>2. CASE ReadRecord /\ Go("load", "load")
    <3> DEFINE r == Head(records)
    <3>1. /\ records # <<>> /\ hex' = hex /\ stage' = "load"
          /\ memory' = [a \in DOMAIN memory |-> IF Covers(r, a) THEN At(r, a) ELSE memory[a]]
      BY <2>2 DEF ReadRecord, Go
    <3>2. r \in Record /\ r.data \in Seq(Bytes)
      <4>1. 1 \in DOMAIN records /\ r = records[1] /\ records \in Seq(Record)
        BY <3>1 DEF PackInv, HexInv
      <4>2. r = hex[Read + 1] /\ Read + 1 \in DOMAIN hex
        <5>1. /\ Read = Len(hex) - Len(records) /\ Len(records) \in Nat /\ Len(hex) \in Nat
              /\ Len(records) >= 1 /\ Read \in 0..Len(hex) /\ DOMAIN hex = 1..Len(hex)
          BY <4>1 DEF Read, PackInv, HexInv
        <5>2. Read + 1 \in DOMAIN hex
          BY <5>1
        <5>3. records[1] = hex[Read + 1]
          BY <4>1 DEF PackInv, HexInv
        <5> QED
          BY <4>1, <5>2, <5>3
      <4> QED
        BY <4>1, <4>2 DEF PackInv
    <3>3. ASSUME NEW a \in DOMAIN memory, Covers(r, a) PROVE At(r, a) \in Bytes
      <4>1. a \in r.address..(End(r) - 1) /\ r.address \in Nat /\ Len(r.data) \in Nat
        BY <3>2, <3>3 DEF Covers, Record
      <4>2. a - r.address + 1 \in 1..Len(r.data)
        BY <4>1 DEF End
      <4> QED
        BY <3>2, <4>2 DEF At
    <3>4. \A a \in DOMAIN memory' : memory'[a] \in Bytes
      BY <3>1, <3>3 DEF PackInv
    <3> QED
      BY <1>1, <2>1, <3>1, <3>4 DEF PackInv, StoredIntact
  <2>3. CASE WriteCom /\ Go("load", "pack")
    <3>1. /\ hex' = hex /\ memory' = memory /\ uiLastByte' = uiLastByte /\ stage' = "pack"
          /\ com' = [i \in 1..(uiLastByte - Start) |-> memory[Start + i - 1]]
      BY <2>3 DEF WriteCom, Go
    <3>2. com' \in Seq(Bytes)
      <4>1. /\ uiLastByte \in 0..MemSize /\ DOMAIN memory = 0..(MemSize - 1)
            /\ Start \in Nat /\ MemSize \in Nat
        BY MemoryAssumption DEF PackInv, HexInv
      <4>2. \A i \in 1..(uiLastByte - Start) : memory[Start + i - 1] \in Bytes
        <5> TAKE i \in 1..(uiLastByte - Start)
        <5>1. Start + i - 1 \in DOMAIN memory
          BY <4>1
        <5> QED
          BY <5>1 DEF PackInv
      <4>3. CASE uiLastByte - Start >= 0
        BY <3>1, <4>1, <4>2, <4>3
      <4>4. CASE uiLastByte - Start < 0
        <5>1. 1..(uiLastByte - Start) = {}
          BY <4>1, <4>4
        <5>2. com' = <<>>
          BY <3>1, <5>1
        <5> QED
          BY <5>2
      <4> QED
        BY <4>1, <4>3, <4>4
    <3> QED
      BY <1>1, <2>1, <3>1, <3>2 DEF PackInv, StoredIntact
  <2> QED
    BY <1>2, <2>2, <2>3 DEF Load
<1>3. CASE Pack
  <2>1. /\ stage = "pack" /\ stage' = "send" /\ packet' = Packed(com) /\ stored' = stored
        /\ hex' = hex /\ memory' = memory
    BY <1>3 DEF Pack, Go, PrintPacket, hexVars
  <2>2. stored' = Refused /\ com \in Seq(Bytes)
    BY <2>1 DEF PackInv
  <2> QED
    BY <1>1, <2>1, <2>2 DEF PackInv, StoredIntact
<1>4. CASE Send
  <2>1. /\ stage = "send" /\ stage' \in {"send", "start"} /\ packet' = packet
        /\ hex' = hex /\ memory' = memory
    BY <1>4 DEF Send, Go, Download, hexVars
  <2>2. PICK f \in Seq(Bytes) : packet = Packed(f)
    BY <2>1 DEF PackInv
  <2>3. PICK g \in Received(f) :
          stored' = IF /\ Packed(g).size = Packed(f).size
                       /\ Packed(g).sum = Packed(f).sum
                    THEN g ELSE Refused
    BY <1>4, <2>2 DEF Send, Download, Packed
  <2>4. stored' = Refused \/ stored' = f
    BY <2>3, OnlyIntact
  <2>5. packet'.bytes = f
    BY <2>1, <2>2 DEF Packed
  <2> QED
    BY <1>1, <2>1, <2>2, <2>4, <2>5 DEF PackInv, StoredIntact
<1>5. CASE StartProgram
  <2>1. hex' = <<>> /\ memory' = Zeros /\ stored' = Refused /\ stage' = "main"
    BY <1>5 DEF StartProgram, Go
  <2>2. \A a \in DOMAIN Zeros : Zeros[a] \in Bytes
    BY BaseAssumption DEF Zeros, Bytes
  <2> QED
    BY <1>1, <2>1, <2>2 DEF PackInv, StoredIntact
<1>6. CASE EditHeap
  <2>1. /\ hex' = hex /\ memory' = memory /\ com' = com /\ packet' = packet /\ stored' = stored
        /\ stage' \in {stage, "running"}
    BY <1>6 DEF EditHeap, Go, hexVars, packVars
  <2> QED
    BY <1>1, <2>1 DEF PackInv, StoredIntact
<1>7. CASE Serial
  <2>1. /\ hex' = hex /\ memory' = memory /\ com' = com /\ packet' = packet /\ stored' = stored
        /\ stage' \in {stage, "vectors", "enable", "running"}
    BY <1>7 DEF Serial, Go, hexVars, packVars
  <2> QED
    BY <1>1, <2>1 DEF PackInv, StoredIntact
<1>8. CASE UNCHANGED vars
  BY <1>1, <1>8 DEF PackInv, StoredIntact, vars, hexVars, packVars
<1> QED
  BY <1>2, <1>3, <1>4, <1>5, <1>6, <1>7, <1>8 DEF Next

\* The CP/M machine never stores a file with one byte changed, missing or
\* extra, for every file and every number of values a byte has: the size
\* tells the last two and the sum the first.
THEOREM StoredIntactHolds == Spec => []StoredIntact
<1>1. PackInv => StoredIntact
  BY DEF PackInv
<1> QED
  BY <1>1, InitPack, NextPack, PTL DEF Spec
=============================================================================
