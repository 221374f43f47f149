---------------------------- MODULE FileOpProofs ----------------------------
(***************************************************************************)
(* The file example for every directory: what it gives BDOS, what it       *)
(* deletes and what it shows.                                              *)
(***************************************************************************)
EXTENDS FileOp, SequenceTheorems, TLAPS

\* A name and a type as the control block has them.
NameOf(s, t) == Field(s, 8) \o Field(t, 3)

OwnName    == NameOf(fileop, com)
SearchName == NameOf(f_l__p, __m)
TestName   == NameOf(test, txt)

\* A control block as setFCBname leaves a cleared one.
Fresh(n) == [name |-> n, used |-> FALSE, alb |-> NoFile]

Inv ==
  /\ disc0 \subseteq Directory
  /\ pc \in {"open", "open_read"} => cb = Fresh(OwnName)
  /\ pc \in {"point_search", "search"} => cb = Fresh(SearchName)
  /\ pc = "delete" => cb = Fresh(TestName)
  /\ pc \in {"search", "read"} => dma = "dma_buffer"
  /\ pc \in {"point_read", "read"} => cb.alb = NoFile \/ IsFileop(cb.alb)
  /\ OnlyTestDeleted
  /\ ShownTrue

-----------------------------------------------------------------------------
(* Names.                                                                  *)

\* What may stand in the field of a string.
MayStand(s) == {32} \cup {Upper(s[j]) : j \in 1..Len(s)}

\* A field of w bytes.
AField(a, s, w) ==
  /\ a \in Seq(32..96) /\ Len(a) = w
  /\ \A i \in 1..w : i <= Len(s) => a[i] = Upper(s[i])
  /\ \A i \in 1..w : a[i] \in MayStand(s)

LEMMA FieldBytes ==
  ASSUME NEW s \in Seq(32..122), NEW w \in Nat
  PROVE  AField(Field(s, w), s, w)
  <1>1. \A c \in 32..122 : c % 128 = c /\ Upper(c) \in 32..96
    BY DEF Upper
  <1>2. Len(s) \in Nat /\ \A j \in 1..Len(s) : s[j] \in 32..122
    BY ElementOfSeq, LenProperties
  <1>3. \A i \in 1..w : Field(s, w)[i] = IF i <= Len(s) THEN Upper(s[i]) ELSE 32
    <2> TAKE i \in 1..w
    <2>1. Field(s, w)[i] = IF i <= Len(s) THEN Upper(s[i] % 128) ELSE 32
      BY DEF Field
    <2>2. ASSUME i <= Len(s) PROVE s[i] % 128 = s[i]
      <3>1. i \in 1..Len(s) BY <1>2, <2>2
      <3>2. s[i] \in 32..122 BY <1>2, <3>1
      <3> QED BY <1>1, <3>2
    <2> QED BY <2>1, <2>2
  <1>4. \A i \in 1..w : Field(s, w)[i] \in 32..96
    <2> TAKE i \in 1..w
    <2>1. CASE i <= Len(s)
      <3>1. i \in 1..Len(s) BY <1>2, <2>1
      <3>2. s[i] \in 32..122 BY <1>2, <3>1
      <3>3. Upper(s[i]) \in 32..96 BY <1>1, <3>2
      <3> QED BY <1>3, <3>3, <2>1
    <2>2. CASE ~(i <= Len(s))
      BY <1>3, <2>2
    <2> QED BY <2>1, <2>2
  <1>5. Field(s, w) \in [1..w -> 32..96]
    BY <1>4 DEF Field
  <1>6. Field(s, w) \in Seq(32..96) /\ Len(Field(s, w)) = w
    BY <1>5, LenProperties, SeqDef
  <1>7. \A i \in 1..w : Field(s, w)[i] \in MayStand(s)
    <2> TAKE i \in 1..w
    <2>1. CASE i <= Len(s)
      <3>1. i \in 1..Len(s) BY <1>2, <2>1
      <3> QED BY <1>3, <2>1, <3>1 DEF MayStand
    <2>2. CASE ~(i <= Len(s))
      BY <1>3, <2>2 DEF MayStand
    <2> QED BY <2>1, <2>2
  <1> QED BY <1>3, <1>6, <1>7 DEF AField

\* Name and type together.
AName(x, s, t) ==
  /\ x \in [1..11 -> 32..96]
  /\ \A i \in 1..11 : x[i] \in MayStand(s) \cup MayStand(t)
  /\ Len(s) >= 1 => x[1] = Upper(s[1])

LEMMA NameBytes ==
  ASSUME NEW s \in Seq(32..122), NEW t \in Seq(32..122)
  PROVE  AName(NameOf(s, t), s, t)
  <1> DEFINE a == Field(s, 8)  b == Field(t, 3)  x == a \o b
  <1>1. AField(a, s, 8)
    BY FieldBytes
  <1>2. AField(b, t, 3)
    BY FieldBytes
  <1> HIDE DEF a, b
  <1>3. /\ a \in Seq(32..96) /\ Len(a) = 8
        /\ \A i \in 1..8 : i <= Len(s) => a[i] = Upper(s[i])
        /\ \A i \in 1..8 : a[i] \in MayStand(s)
    BY <1>1 DEF AField
  <1>4. /\ b \in Seq(32..96) /\ Len(b) = 3
        /\ \A i \in 1..3 : b[i] \in MayStand(t)
    BY <1>2 DEF AField
  <1>5. a \in Seq(32..96) /\ b \in Seq(32..96)
    BY <1>3, <1>4
  <1>6. /\ x \in Seq(32..96) /\ Len(x) = Len(a) + Len(b)
        /\ \A i \in 1..(Len(a) + Len(b)) : x[i] = IF i <= Len(a) THEN a[i] ELSE b[i - Len(a)]
    BY <1>5, ConcatProperties
  <1> HIDE DEF x
  <1>7. Len(x) = 11 /\ \A i \in 1..11 : x[i] = IF i <= 8 THEN a[i] ELSE b[i - 8]
    <2>1. Len(a) + Len(b) = 11 /\ Len(a) = 8
      BY <1>3, <1>4
    <2>2. Len(x) = 11
      BY <1>6, <2>1
    <2> QED BY <1>6, <2>1, <2>2, Zenon
  <1>8. x \in [1..11 -> 32..96]
    <2>1. x \in [1..Len(x) -> 32..96]
      BY <1>6, LenProperties
    <2> QED BY <1>7, <2>1
  <1>9. ASSUME NEW i \in 1..11
        PROVE  x[i] \in MayStand(s) \cup MayStand(t)
    <2>1. CASE i <= 8
      <3>1. i \in 1..8 BY <2>1
      <3> QED BY <1>3, <1>7, <2>1, <3>1
    <2>2. CASE ~(i <= 8)
      <3>1. i - 8 \in 1..3 BY <2>2
      <3> QED BY <1>4, <1>7, <2>2, <3>1
    <2> QED BY <2>1, <2>2
  <1>10. ASSUME Len(s) >= 1 PROVE x[1] = Upper(s[1])
    <2>1. 1 \in 1..8 /\ 1 \in 1..11 /\ 1 <= 8 /\ 1 <= Len(s)
      BY <1>10
    <2> QED BY <1>3, <1>7, <2>1
  <1>11. AName(x, s, t)
    BY <1>8, <1>9, <1>10 DEF AName
  <1> QED BY <1>11 DEF NameOf, a, b, x

\* A string without a wildcard.
Plain(s) == \A j \in 1..Len(s) : s[j] # 63

\* Names of such strings have none either.
LEMMA PlainStands ==
  ASSUME NEW s \in Seq(32..122), Plain(s)
  PROVE  63 \notin MayStand(s)
  <1>1. \A c \in 32..122 : c # 63 => Upper(c) # 63
    BY DEF Upper
  <1>2. \A j \in 1..Len(s) : Upper(s[j]) # 63
    <2> TAKE j \in 1..Len(s)
    <2>1. s[j] \in 32..122 /\ s[j] # 63 BY ElementOfSeq DEF Plain
    <2> QED BY <1>1, <2>1
  <1> QED BY <1>2 DEF MayStand

LEMMA PlainNames ==
  ASSUME NEW s \in Seq(32..122), NEW t \in Seq(32..122), Plain(s), Plain(t), NEW i \in 1..11
  PROVE  63 # NameOf(s, t)[i]
  <1>1. NameOf(s, t)[i] \in MayStand(s) \cup MayStand(t)
    BY NameBytes DEF AName
  <1>2. 63 \notin MayStand(s) /\ 63 \notin MayStand(t)
    BY PlainStands
  <1> QED BY <1>1, <1>2

\* The three names of the example: none but the search's has a wildcard, and
\* that one does not begin with one.
LEMMA Names ==
  /\ OwnName \in [1..11 -> 32..96] /\ \A i \in 1..11 : 63 # OwnName[i]
  /\ SearchName \in [1..11 -> 32..96] /\ SearchName[1] = 70
  /\ TestName \in [1..11 -> 32..96] /\ \A i \in 1..11 : 63 # TestName[i]
  /\ TestName[1] = 84 /\ OwnName[1] = 70
  <1>1. /\ fileop \in Seq(32..122) /\ Len(fileop) >= 1 /\ Plain(fileop) /\ fileop[1] = 102
        /\ com \in Seq(32..122) /\ Plain(com)
    BY DEF fileop, com, Plain
  <1>2. /\ f_l__p \in Seq(32..122) /\ Len(f_l__p) >= 1 /\ f_l__p[1] = 102
        /\ __m \in Seq(32..122)
    BY DEF f_l__p, __m
  <1>3. /\ test \in Seq(32..122) /\ Len(test) >= 1 /\ Plain(test)
        /\ test[1] = 116
        /\ txt \in Seq(32..122) /\ Plain(txt)
    BY DEF test, txt, Plain
  <1>4. Upper(102) = 70 /\ Upper(116) = 84
    BY DEF Upper
  <1>5. /\ AName(OwnName, fileop, com) /\ AName(SearchName, f_l__p, __m)
        /\ AName(TestName, test, txt)
    BY <1>1, <1>2, <1>3, NameBytes DEF OwnName, SearchName, TestName
  <1>6. \A i \in 1..11 : 63 # OwnName[i]
    BY <1>1, PlainNames DEF OwnName
  <1>7. \A i \in 1..11 : 63 # TestName[i]
    BY <1>3, PlainNames DEF TestName
  <1>8. SearchName[1] = 70 /\ TestName[1] = 84 /\ OwnName[1] = 70
    <2>1. /\ SearchName[1] = Upper(f_l__p[1]) /\ TestName[1] = Upper(test[1])
          /\ OwnName[1] = Upper(fileop[1])
      BY <1>1, <1>2, <1>3, <1>5, Zenon DEF AName
    <2>2. SearchName[1] = Upper(102) /\ OwnName[1] = Upper(102)
      <3>1. f_l__p[1] = 102 /\ fileop[1] = 102 BY <1>1, <1>2
      <3> QED BY <2>1, <3>1, Zenon
    <2>3. TestName[1] = Upper(116)
      <3>1. test[1] = 116 BY <1>3
      <3> QED BY <2>1, <3>1, Zenon
    <2> QED BY <1>4, <2>2, <2>3, Zenon
  <1>9. /\ OwnName \in [1..11 -> 32..96] /\ SearchName \in [1..11 -> 32..96]
        /\ TestName \in [1..11 -> 32..96]
    BY <1>5, Zenon DEF AName
  <1> QED BY <1>6, <1>7, <1>8, <1>9, Zenon

\* What the model says of the three names.
LEMMA NamesMean ==
  /\ \A n : IsTest(n) <=> Letters(n) = TestName
  /\ \A n : IsFileop(n) <=> Letters(n) = OwnName
  /\ ShownTrue <=> \/ shown = NoFile
                   \/ \E n \in disc : Match(SearchName, n) /\ shown = <<"entry", n>>
                   \/ \E n \in disc : IsFileop(n) /\ shown = <<"record", n>>
  <1>1. \A n : IsTest(n) <=> Letters(n) = TestName
    BY Zenon DEF IsTest, TestName, NameOf
  <1>2. \A n : IsFileop(n) <=> Letters(n) = OwnName
    BY Zenon DEF IsFileop, OwnName, NameOf
  <1>3. ShownTrue <=> \/ shown = NoFile
                      \/ \E n \in disc : Match(SearchName, n) /\ shown = <<"entry", n>>
                      \/ \E n \in disc : IsFileop(n) /\ shown = <<"record", n>>
    BY Zenon DEF ShownTrue, SearchName, NameOf
  <1> QED BY <1>1, <1>2, <1>3

\* A name without a wildcard matches the files of that name only.
LEMMA ExactMatch ==
  ASSUME NEW pattern \in [1..11 -> 32..96], \A i \in 1..11 : 63 # pattern[i], NEW n
  PROVE  Match(pattern, n) <=> Letters(n) = pattern
  BY DEF Match, Letters

\* TEST.TXT does not match the search.
LEMMA TestNotFound == ASSUME NEW n, IsTest(n) PROVE ~Match(SearchName, n)
  <1>1. n[1] % 128 = 84
    <2>1. Letters(n)[1] = 84
      BY Names, NamesMean
    <2> QED BY <2>1 DEF Letters
  <1>2. SearchName[1] = 70 /\ 1 \in 1..11
    BY Names
  <1> QED BY <1>1, <1>2 DEF Match

LEMMA OwnNotTest == ASSUME NEW n, IsFileop(n) PROVE ~IsTest(n)
  <1>1. Letters(n)[1] = OwnName[1] BY NamesMean
  <1>2. OwnName[1] = 70 BY Names
  <1>3. TestName[1] = 84 BY Names
  <1>4. IsTest(n) => Letters(n)[1] = TestName[1] BY NamesMean
  <1> QED BY <1>1, <1>2, <1>3, <1>4

-----------------------------------------------------------------------------
(* Steps.                                                                  *)

\* The program has not deleted yet.
Early == {"name_open", "open", "close", "name_search", "point_search", "search",
          "name_delete", "delete"}

\* What a step that neither deletes nor prints keeps.
LEMMA Kept ==
  ASSUME Inv, UNCHANGED <<disc, disc0, shown>>,
         pc' \in Early \cup {"killed"} \/ pc \in {"name_read", "open_read", "point_read", "read", "end"}
  PROVE  disc0' \subseteq Directory /\ OnlyTestDeleted' /\ ShownTrue'
  <1>1. disc0' \subseteq Directory BY DEF Inv
  <1>2. ShownTrue' BY DEF Inv, ShownTrue
  <1>3. OnlyTestDeleted' BY DEF Inv, OnlyTestDeleted, Early
  <1> QED BY <1>1, <1>2, <1>3

LEMMA InitInv == Init => Inv
  BY DEF Init, Inv, OnlyTestDeleted, ShownTrue

\* Naming a cleared block.
LEMMA PrepareFresh ==
  ASSUME NEW from, NEW to, NEW fname, NEW ftype, Prepare(from, to, fname, ftype)
  PROVE  cb' = Fresh(Field(fname, 8) \o Field(ftype, 3))
  BY DEF Prepare, cpm_setFCBname, ClearFCB, Fresh

LEMMA PrepareInv ==
  ASSUME Inv,
         \/ Prepare("name_open", "open", fileop, com)
         \/ Prepare("name_search", "point_search", f_l__p, __m)
         \/ Prepare("name_delete", "delete", test, txt)
         \/ Prepare("name_read", "open_read", fileop, com)
  PROVE  Inv'
  <1>1. CASE Prepare("name_open", "open", fileop, com)
    <2>1. pc = "name_open" /\ pc' = "open" /\ UNCHANGED <<disc, dma, buffer, rval, shown, disc0>>
      BY <1>1 DEF Prepare, Go
    <2>2. cb' = Fresh(OwnName) BY <1>1, PrepareFresh DEF OwnName, NameOf
    <2>3. disc0' \subseteq Directory /\ OnlyTestDeleted' /\ ShownTrue' BY <2>1, Kept DEF Early
    <2> QED BY <2>1, <2>2, <2>3 DEF Inv
  <1>2. CASE Prepare("name_search", "point_search", f_l__p, __m)
    <2>1. pc = "name_search" /\ pc' = "point_search" /\ UNCHANGED <<disc, dma, buffer, rval, shown, disc0>>
      BY <1>2 DEF Prepare, Go
    <2>2. cb' = Fresh(SearchName) BY <1>2, PrepareFresh DEF SearchName, NameOf
    <2>3. disc0' \subseteq Directory /\ OnlyTestDeleted' /\ ShownTrue' BY <2>1, Kept DEF Early
    <2> QED BY <2>1, <2>2, <2>3 DEF Inv
  <1>3. CASE Prepare("name_delete", "delete", test, txt)
    <2>1. pc = "name_delete" /\ pc' = "delete" /\ UNCHANGED <<disc, dma, buffer, rval, shown, disc0>>
      BY <1>3 DEF Prepare, Go
    <2>2. cb' = Fresh(TestName) BY <1>3, PrepareFresh DEF TestName, NameOf
    <2>3. disc0' \subseteq Directory /\ OnlyTestDeleted' /\ ShownTrue' BY <2>1, Kept DEF Early
    <2> QED BY <2>1, <2>2, <2>3 DEF Inv
  <1>4. CASE Prepare("name_read", "open_read", fileop, com)
    <2>1. pc = "name_read" /\ pc' = "open_read" /\ UNCHANGED <<disc, dma, buffer, rval, shown, disc0>>
      BY <1>4 DEF Prepare, Go
    <2>2. cb' = Fresh(OwnName) BY <1>4, PrepareFresh DEF OwnName, NameOf
    <2>3. disc0' \subseteq Directory /\ OnlyTestDeleted' /\ ShownTrue' BY <2>1, Kept DEF Early
    <2> QED BY <2>1, <2>2, <2>3 DEF Inv
  <1> QED BY <1>1, <1>2, <1>3, <1>4

LEMMA PointInv ==
  ASSUME Inv, PointDMA("point_search", "search") \/ PointDMA("point_read", "read")
  PROVE  Inv'
  <1>1. /\ \/ pc = "point_search" /\ pc' = "search"
           \/ pc = "point_read" /\ pc' = "read"
        /\ UNCHANGED <<disc, cb, buffer, rval, shown, disc0>>
    BY DEF PointDMA, Go
  <1>2. dma' = "dma_buffer" BY DEF PointDMA, cpm_setDMAAddr
  <1>3. disc0' \subseteq Directory /\ OnlyTestDeleted' /\ ShownTrue' BY <1>1, Kept DEF Early
  <1>4. IsFileop(cb.alb)' = IsFileop(cb'.alb) BY DEF IsFileop
  <1> QED BY <1>1, <1>2, <1>3 DEF Inv, IsFileop

\* Opening or closing before the search: only the block changes.
LEMMA OpenCloseInv == ASSUME Inv, OpenSelf \/ CloseSelf PROVE Inv'
  <1>1. /\ \/ pc = "open" /\ pc' \in {"close", "name_search"}
           \/ pc = "close" /\ pc' = "name_search"
        /\ UNCHANGED <<disc, dma, disc0, shown>>
    <2>1. CASE OpenSelf
      BY <2>1 DEF OpenSelf, Call, Go, cpm_performFileOp, Function, Open
    <2>2. CASE CloseSelf
      BY <2>2 DEF CloseSelf, Call, Go, cpm_performFileOp, Function, Close
    <2> QED BY <2>1, <2>2
  <1>2. disc0' \subseteq Directory /\ OnlyTestDeleted' /\ ShownTrue' BY <1>1, Kept DEF Early
  <1> QED BY <1>1, <1>2 DEF Inv

\* The search: what is printed is in the buffer, at the place returned.
LEMMA SearchInv == ASSUME Inv, SearchAndPrint PROVE Inv'
  <1>1. /\ pc = "search" /\ pc' = "name_delete" /\ UNCHANGED <<disc, cb, dma, disc0>>
        /\ Search
        /\ shown' = IF rval' # Failed THEN <<"entry", buffer'[rval']>> ELSE shown
    BY DEF SearchAndPrint, Call, Go, cpm_performFileOp, Function, Search
  <1>2. cb.name = SearchName /\ dma # Default
    BY <1>1, NameAssumption DEF Inv, Fresh
  <1>3. ShownTrue'
    <2>1. CASE \E n \in Matching, i \in 0..3, other \in disc \cup {NoFile} :
                 /\ rval' = i
                 /\ buffer' = IF dma = Default THEN buffer
                              ELSE [j \in 0..3 |-> IF j = i THEN n ELSE other]
      <3>1. PICK n \in Matching, i \in 0..3 : rval' = i /\ buffer'[i] = n
        BY <1>2, <2>1
      <3>2. shown' = <<"entry", n>>
        BY <1>1, <3>1 DEF Failed
      <3>3. n \in disc' /\ Match(SearchName, n)
        BY <1>1, <1>2, <3>1 DEF Matching
      <3> QED BY <3>2, <3>3 DEF ShownTrue, SearchName, NameOf
    <2>2. CASE rval' = Failed
      BY <1>1, <2>2 DEF Inv, ShownTrue
    <2> QED BY <1>1, <2>1, <2>2 DEF Search
  <1>4. OnlyTestDeleted'
    BY <1>1 DEF Inv, OnlyTestDeleted
  <1> QED BY <1>1, <1>3, <1>4 DEF Inv

\* The delete takes TEST.TXT, which is not what was printed.
LEMMA DeleteInv == ASSUME Inv, DeleteTest PROVE Inv'
  <1>1. /\ pc = "delete" /\ pc' = "name_read" /\ UNCHANGED <<cb, dma, disc0, shown>>
        /\ disc' = disc \ Matching
    BY DEF DeleteTest, Call, Go, cpm_performFileOp, Function, Delete
  <1>2. cb.name = TestName
    BY <1>1 DEF Inv, Fresh
  <1>3. \A n \in disc : n \in Matching <=> IsTest(n)
    <2> TAKE n \in disc
    <2>1. n \in Matching <=> Match(TestName, n) BY <1>2 DEF Matching
    <2>2. Match(TestName, n) <=> Letters(n) = TestName BY Names, ExactMatch
    <2> QED BY <2>1, <2>2, NamesMean
  <1>4. OnlyTestDeleted'
    BY <1>1, <1>3 DEF Inv, OnlyTestDeleted
  <1>5. ShownTrue'
    <2>1. CASE shown = NoFile BY <1>1, <2>1 DEF ShownTrue
    <2>2. CASE \E n \in disc : Match(SearchName, n) /\ shown = <<"entry", n>>
      <3>1. PICK n \in disc : Match(SearchName, n) /\ shown = <<"entry", n>> BY <2>2
      <3>2. n \in disc' BY <1>1, <1>3, <3>1, TestNotFound
      <3> QED BY <1>1, <3>1, <3>2 DEF ShownTrue, SearchName, NameOf
    <2>3. CASE \E n \in disc : IsFileop(n) /\ shown = <<"record", n>>
      <3>1. PICK n \in disc : IsFileop(n) /\ shown = <<"record", n>> BY <2>3
      <3>2. n \in disc' BY <1>1, <1>3, <3>1, OwnNotTest
      <3> QED BY <1>1, <3>1, <3>2 DEF ShownTrue
    <2> QED BY <2>1, <2>2, <2>3 DEF Inv, ShownTrue, SearchName, NameOf
  <1> QED BY <1>1, <1>4, <1>5 DEF Inv

\* The second open finds the program's own file or leaves the block fresh.
LEMMA OpenForReadInv == ASSUME Inv, OpenForRead PROVE Inv'
  <1>1. /\ pc = "open_read" /\ pc' = "point_read" /\ UNCHANGED <<disc, dma, disc0, shown>>
        /\ Open
    BY DEF OpenForRead, Call, Go, cpm_performFileOp, Function, Open
  <1>2. cb = Fresh(OwnName)
    BY <1>1 DEF Inv
  <1>3. cb'.alb = NoFile \/ IsFileop(cb'.alb)
    <2>1. CASE UNCHANGED cb
      BY <1>2, <2>1 DEF Fresh
    <2>2. CASE \E n \in Matching : cb' = [name |-> n, used |-> TRUE, alb |-> n]
      <3>1. PICK n \in Matching : cb'.alb = n BY <2>2
      <3>2. Match(OwnName, n) BY <1>2, <3>1 DEF Fresh, Matching
      <3>3. Letters(n) = OwnName BY <3>2, Names, ExactMatch
      <3> QED BY <3>1, <3>3, NamesMean
    <2> QED BY <1>1, <2>1, <2>2 DEF Open
  <1>4. disc0' \subseteq Directory /\ OnlyTestDeleted' /\ ShownTrue' BY <1>1, Kept
  <1> QED BY <1>1, <1>3, <1>4 DEF Inv, IsFileop

\* A record is read only through a block that belongs to the program's file.
LEMMA ReadInv == ASSUME Inv, ReadAndPrint PROVE Inv'
  <1>1. /\ pc = "read" /\ pc' = "end" /\ UNCHANGED <<disc, cb, dma, disc0>>
        /\ ReadRand /\ shown' = IF rval' = 0 THEN buffer'[0] ELSE shown
    BY DEF ReadAndPrint, Call, Go, cpm_performFileOp, Function, ReadRand
  <1>2. dma # Default /\ (cb.alb = NoFile \/ IsFileop(cb.alb))
    BY <1>1, NameAssumption DEF Inv
  <1>3. NoFile \notin disc
    BY NameAssumption DEF Inv, OnlyTestDeleted
  <1>4. ShownTrue'
    <2>1. CASE rval' = 0
      <3>1. cb.alb \in disc /\ buffer' = [j \in 0..3 |-> <<"record", cb.alb>>]
        BY <1>1, <1>2, <2>1 DEF ReadRand
      <3>2. shown' = <<"record", cb.alb>> /\ IsFileop(cb.alb) /\ cb.alb \in disc'
        BY <1>1, <1>2, <1>3, <2>1, <3>1
      <3> QED BY <3>2 DEF ShownTrue
    <2>2. CASE rval' # 0
      BY <1>1, <2>2 DEF Inv, ShownTrue
    <2> QED BY <2>1, <2>2
  <1>5. OnlyTestDeleted'
    BY <1>1 DEF Inv, OnlyTestDeleted
  <1> QED BY <1>1, <1>4, <1>5 DEF Inv

LEMMA NextInv == Inv /\ [Next]_vars => Inv'
  <1> SUFFICES ASSUME Inv, [Next]_vars PROVE Inv' OBVIOUS
  <1>1. CASE UNCHANGED vars
    BY <1>1 DEF vars, fileVars, Inv, OnlyTestDeleted, ShownTrue, IsFileop
  <1>2. CASE DiscError
    <2>1. pc' = "killed" /\ UNCHANGED <<disc, disc0, shown>>
      BY <1>2 DEF DiscError, fileVars
    <2>2. disc0' \subseteq Directory /\ OnlyTestDeleted' /\ ShownTrue' BY <2>1, Kept
    <2> QED BY <2>1, <2>2 DEF Inv
  <1>3. CASE Done
    BY <1>1, <1>3 DEF Done
  <1> QED BY <1>1, <1>2, <1>3, PrepareInv, PointInv, OpenCloseInv, SearchInv, DeleteInv,
             OpenForReadInv, ReadInv DEF Next

-----------------------------------------------------------------------------

\* The block is fresh and rightly named before each call, and the DMA
\* address is set before each transfer.
THEOREM InvHolds == Spec => []Inv
  BY InitInv, NextInv, PTL DEF Spec

\* BDOS gets proper control blocks: nothing is left of an earlier file.
THEOREM FCBProperHolds == Spec => []FCBProper
  <1>1. Inv => FCBProper
    <2> SUFFICES ASSUME Inv, pc \in {"open", "search", "delete", "open_read"}
                 PROVE  ~cb.used /\ cb.alb = NoFile /\ \A i \in 1..11 : cb.name[i] \in 32..96
      BY DEF FCBProper
    <2>1. PICK m \in {OwnName, SearchName, TestName} : cb = Fresh(m)
      BY DEF Inv
    <2> QED BY <2>1, Names DEF Fresh
  <1> QED BY <1>1, InvHolds, PTL

\* Whatever files there are, TEST.TXT alone is deleted.
THEOREM OnlyTestDeletedHolds == Spec => []OnlyTestDeleted
  BY InvHolds, PTL DEF Inv

\* What is printed is what it claims to be, though the open before the read
\* is never checked.
THEOREM ShownTrueHolds == Spec => []ShownTrue
  BY InvHolds, PTL DEF Inv
=============================================================================
