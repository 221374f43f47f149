---------------------------- MODULE OutputProofs ----------------------------
(***************************************************************************)
(* The number buffer of cprintf is large enough and its digits are right,  *)
(* for every width of a long and every buffer that satisfies               *)
(* RoomAssumption: 32-bit longs and eleven places are one such pair.  Then *)
(* cprintf's fields and count for any format, and the terminal: what it    *)
(* reads is a fold of its characters, taken apart a character at a time.   *)
(***************************************************************************)
EXTENDS Output, SequenceTheorems, FiniteSetTheorems, NaturalsInduction,
        WellFoundedInduction, TLAPS

\* What is left of the number fits the places that are left, the sign
\* included.
Fits ==
  stage = "digits" =>
    /\ n \in 0..(NUMLTH - 1)
    /\ val < Power[base][n + 1]
    /\ flg => base = 10 /\ val < Power[10][n] /\ val >= 1

\* The digits written and the number left make up the magnitude.
Magnitudes ==
  LET magnitude == IF flg THEN -arg ELSE arg
  IN  /\ stage = "digits" => magnitude = val * Power[base][NUMLTH - 1 - n] + read
      /\ stage \in {"sign", "text"} => magnitude = read

Inv ==
  /\ stage \in {"idle", "digits", "sign", "text"}
  /\ base \in Bases
  /\ flg \in BOOLEAN
  /\ val \in Nat
  /\ n \in Int
  /\ out \in [0..(NUMLTH - 1) -> Int]
  /\ arg \in Int
  /\ read \in Int
  /\ Fits
  /\ stage = "sign" /\ flg => n \in 0..(NUMLTH - 1)
  /\ Magnitudes

-----------------------------------------------------------------------------

\* One digit: quotient and remainder.
LEMMA Division ==
  ASSUME NEW b \in Bases, NEW v \in Nat
  PROVE  /\ v \div b \in Nat /\ v % b \in Nat
         /\ v = b * (v \div b) + (v % b)
  <1>1. CASE b = 8  BY <1>1
  <1>2. CASE b = 10 BY <1>2
  <1>3. CASE b = 16 BY <1>3
  <1> QED BY <1>1, <1>2, <1>3 DEF Bases

\* A number below b times p has a quotient below p.
LEMMA Smaller ==
  ASSUME NEW b \in Bases, NEW v \in Nat, NEW p \in Nat, v < b * p
  PROVE  v \div b < p
  <1>1. CASE b = 8  BY <1>1
  <1>2. CASE b = 10 BY <1>2
  <1>3. CASE b = 16 BY <1>3
  <1> QED BY <1>1, <1>2, <1>3 DEF Bases

\* Moving one digit from what is left to what is read.
LEMMA Moved ==
  ASSUME NEW b \in Bases, NEW v \in Nat, NEW q \in Nat, NEW r \in Nat,
         NEW p \in Nat, v = b * q + r
  PROVE  v * p = q * (b * p) + r * p
  <1>1. CASE b = 8  BY <1>1
  <1>2. CASE b = 10 BY <1>2
  <1>3. CASE b = 16 BY <1>3
  <1> QED BY <1>1, <1>2, <1>3 DEF Bases

\* Powers are numbers, and each is the base times the one before.
LEMMA Powers ==
  ASSUME NEW b \in Bases, NEW k \in 0..(NUMLTH - 1)
  PROVE  /\ Power[b][k] \in Nat /\ Power[b][k + 1] \in Nat
         /\ Power[b][k + 1] = b * Power[b][k]
         /\ Power[b][0] = 1
  BY PowerAssumption

-----------------------------------------------------------------------------

LEMMA InitInv == NumInit => Inv
  <1> SUFFICES ASSUME NumInit PROVE Inv OBVIOUS
  <1>1. flg \in BOOLEAN /\ ~flg
    BY DEF NumInit
  <1>2. out \in [0..(NUMLTH - 1) -> Int]
    BY DEF NumInit, Blank
  <1>3. base \in Bases /\ val \in Nat /\ n \in Int /\ arg \in Int /\ read \in Int
    BY DEF NumInit, Bases
  <1>4. stage = "idle"
    BY DEF NumInit
  <1> QED BY <1>1, <1>2, <1>3, <1>4 DEF Inv, Fits, Magnitudes

\* A call: the largest number fits, and a negative one leaves a place.
LEMMA CallInv ==
  ASSUME NEW i \in (-Half)..(Half - 1), NEW b \in Bases \cup {-10}, numout(i, b)
  PROVE  Inv'
  <1>1. Half \in Nat \ {0} /\ NUMLTH \in Nat \ {0}
    BY RoomAssumption, PowerAssumption
  <1>b. b \in {-10, 8, 10, 16} /\ i \in Int /\ -Half <= i /\ i < Half
    BY <1>1 DEF Bases
  <1>4. flg' \in BOOLEAN /\ (flg' <=> b < 0 /\ i < 0)
    BY DEF numout
  <1>2. base' \in Bases /\ (flg' => base' = 10)
    <2>1. base' = IF b < 0 THEN -b ELSE b
      BY DEF numout
    <2>2. base' \in {8, 10, 16} /\ (b < 0 => base' = 10)
      BY <1>b, <2>1
    <2> QED BY <1>4, <2>2 DEF Bases
  <1>3. /\ val' \in Nat /\ val' < 2 * Half
        /\ flg' => val' >= 1 /\ val' <= Half
        /\ arg' \in Int /\ val' = IF flg' THEN -arg' ELSE arg'
    <2>1. val' = Magnitude(i, b) /\ arg' = IF b < 0 THEN i ELSE Unsigned(i)
      BY DEF numout
    <2>2. CASE b < 0 /\ i < 0
      <3>1. flg' BY <1>4, <2>2
      <3>2. arg' = i /\ val' = -i
        BY <1>1, <1>b, <2>1, <2>2 DEF Magnitude, Unsigned
      <3>3. /\ val' \in Nat /\ val' < 2 * Half /\ val' >= 1 /\ val' <= Half
            /\ arg' \in Int /\ val' = -arg'
        BY <1>1, <1>b, <2>2, <3>2
      <3> QED BY <3>1, <3>3
    <2>3. CASE ~(b < 0 /\ i < 0)
      <3>1. ~flg' BY <1>4, <2>3
      <3>2. val' = Unsigned(i) /\ arg' = Unsigned(i)
        BY <1>1, <1>b, <2>1, <2>3 DEF Magnitude, Unsigned
      <3>3. Unsigned(i) \in Nat /\ Unsigned(i) < 2 * Half
        BY <1>1, <1>b DEF Unsigned
      <3>4. val' \in Nat /\ val' < 2 * Half /\ arg' \in Int /\ val' = arg'
        BY <3>2, <3>3
      <3> QED BY <3>1, <3>4
    <2> QED BY <2>2, <2>3
  <1>5. /\ n' = NUMLTH - 1 /\ n' \in Int
        /\ out' \in [0..(NUMLTH - 1) -> Int] /\ read' = 0 /\ stage' = "digits"
    BY <1>1 DEF numout, FirstPlace, Blank
  <1>6. val' < Power[base'][NUMLTH] /\ (flg' => val' < Power[10][NUMLTH - 1])
    <2>1. PICK c \in Bases : c = base'
      BY <1>2
    <2>2. Power[c][NUMLTH] \in Nat /\ 2 * Half <= Power[c][NUMLTH]
      <3>1. Power[c] \in [0..NUMLTH -> Nat] /\ NUMLTH \in 0..NUMLTH
        BY <1>1, PowerAssumption
      <3> QED BY <3>1, RoomAssumption
    <2>3. Power[10][NUMLTH - 1] \in Nat /\ Half < Power[10][NUMLTH - 1]
      <3>1. 10 \in Bases BY DEF Bases
      <3>2. Power[10] \in [0..NUMLTH -> Nat] BY <3>1, PowerAssumption
      <3>3. NUMLTH - 1 \in 0..NUMLTH BY <1>1
      <3> QED BY <3>2, <3>3, RoomAssumption
    <2>4. val' < Power[c][NUMLTH]
      <3>1. PICK v \in Nat : v = val' BY <1>3
      <3>2. v < 2 * Half BY <1>3, <3>1
      <3>3. v < Power[c][NUMLTH] BY <1>1, <2>2, <3>2
      <3> QED BY <3>1, <3>3
    <2>5. flg' => val' < Power[10][NUMLTH - 1]
      <3> HAVE flg'
      <3>1. val' <= Half /\ val' \in Nat BY <1>3
      <3> QED BY <1>1, <2>3, <3>1
    <2> QED BY <2>1, <2>4, <2>5
  <1>7. Fits'
    <2>1. n' + 1 = NUMLTH /\ n' \in 0..(NUMLTH - 1)
      BY <1>1, <1>5
    <2> QED BY <1>2, <1>3, <1>5, <1>6, <2>1 DEF Fits
  <1>8. Magnitudes'
    <2>1. NUMLTH - 1 - n' = 0 /\ Power[base'][0] = 1
      BY <1>1, <1>2, <1>5, PowerAssumption
    <2>2. val' * Power[base'][NUMLTH - 1 - n'] + read' = val'
      BY <1>3, <1>5, <2>1
    <2> QED BY <1>3, <1>5, <2>2 DEF Magnitudes
  <1>9. flg' \in BOOLEAN /\ base' \in Bases /\ val' \in Nat /\ arg' \in Int
    BY <1>2, <1>3, <1>4
  <1> QED BY <1>5, <1>7, <1>8, <1>9 DEF Inv

\* A digit.
LEMMA DigitInv == ASSUME Inv, Digit PROVE Inv'
  <1> USE DEF Inv
  <1>1. NUMLTH \in Nat \ {0} BY PowerAssumption
  <1>2. stage = "digits" /\ base \in Bases /\ val \in Nat /\ n \in 0..(NUMLTH - 1)
    BY DEF Digit, Fits
  <1> DEFINE k == NUMLTH - 1 - n
  <1>3. k \in 0..(NUMLTH - 1) /\ NUMLTH - 1 - (n - 1) = k + 1
    BY <1>1, <1>2
  <1>4. /\ val \div base \in Nat /\ val % base \in Nat
        /\ val = base * (val \div base) + (val % base)
    BY <1>2, Division
  <1>5. /\ Power[base][n] \in Nat /\ Power[base][n + 1] = base * Power[base][n]
        /\ Power[base][k] \in Nat /\ Power[base][k + 1] = base * Power[base][k]
        /\ Power[base][0] = 1
    <2>1. base \in Bases OBVIOUS
    <2> HIDE DEF k
    <2> QED BY <2>1, <1>2, <1>3, Powers
  <1>6. val \div base < Power[base][n]
    <2>1. val < base * Power[base][n]
      BY <1>2, <1>5 DEF Fits
    <2> QED BY <1>2, <1>5, <2>1, Smaller
  <1>7. /\ val' = val \div base /\ n' = n - 1 /\ base' = base /\ flg' = flg /\ arg' = arg
        /\ stage' = IF val' = 0 THEN "sign" ELSE "digits"
        /\ out' = [out EXCEPT ![n] = val % base]
        /\ read' = read + (val % base) * Power[base][k]
    <2>1. out'[n] = val % base
      BY <1>2 DEF Digit
    <2> QED BY <2>1 DEF Digit
  <1>8. out' \in [0..(NUMLTH - 1) -> Int]
    BY <1>2, <1>4, <1>7
  <1>9. flg => val \div base < Power[10][n - 1] /\ n >= 1
    <2> HAVE flg
    <2>1. base = 10 /\ val < Power[10][n] /\ val >= 1
      BY <1>2 DEF Fits
    <2>2. n # 0
      BY <1>5, <2>1
    <2>3. n - 1 \in 0..(NUMLTH - 1)
      BY <1>1, <1>2, <2>2
    <2>4. Power[10][n - 1] \in Nat /\ Power[10][n] = 10 * Power[10][n - 1]
      <3>1. (n - 1) + 1 = n BY <1>2
      <3>2. base \in Bases OBVIOUS
      <3> QED BY <2>1, <2>3, <3>1, <3>2, Powers
    <2> QED BY <1>2, <2>1, <2>2, <2>4, Smaller
  <1>10. val \div base # 0 => n - 1 \in 0..(NUMLTH - 1)
    BY <1>1, <1>2, <1>4, <1>5, <1>6
  <1>11. Fits'
    <2>1. (n - 1) + 1 = n BY <1>2
    <2>2. SUFFICES ASSUME stage' = "digits"
                   PROVE  /\ n' \in 0..(NUMLTH - 1)
                          /\ val' < Power[base'][n' + 1]
                          /\ flg' => base' = 10 /\ val' < Power[10][n'] /\ val' >= 1
      BY DEF Fits
    <2>3. val \div base # 0 /\ val \div base >= 1
      BY <1>4, <1>7, <2>2
    <2>4. flg => base = 10
      BY <1>2 DEF Fits
    <2> QED BY <1>6, <1>7, <1>9, <1>10, <2>1, <2>3, <2>4
  <1>12. stage' = "sign" /\ flg' => n' \in 0..(NUMLTH - 1)
    BY <1>1, <1>2, <1>7, <1>9
  <1>13. val * Power[base][k] = (val \div base) * Power[base][k + 1]
                                  + (val % base) * Power[base][k]
    <2> HIDE DEF Inv, k
    <2>1. PICK q, r \in Nat, p1 \in Nat : q = val \div base /\ r = val % base /\ p1 = Power[base][k]
      BY <1>4, <1>5
    <2>2. val = base * q + r
      BY <1>4, <2>1
    <2>3. val * p1 = q * (base * p1) + r * p1
      BY <1>2, <2>2, Moved
    <2> QED BY <1>5, <2>1, <2>3
  <1>14. (val % base) * Power[base][k] \in Int /\ val * Power[base][k] \in Int
         /\ (val \div base) * Power[base][k + 1] \in Int
    <2>1. \A x, y \in Nat : x * y \in Int OBVIOUS
    <2>2. Power[base][k + 1] \in Nat
      <3>1. base \in Bases OBVIOUS
      <3> HIDE DEF k
      <3> QED BY <3>1, <1>3, Powers
    <2>3. /\ val % base \in Nat /\ val \in Nat /\ val \div base \in Nat
          /\ Power[base][k] \in Nat
      BY <1>2, <1>4, <1>5
    <2> HIDE DEF k
    <2>4. (val % base) * Power[base][k] \in Int
      BY <2>1, <2>3
    <2>5. val * Power[base][k] \in Int
      BY <2>1, <2>3
    <2>6. (val \div base) * Power[base][k + 1] \in Int
      BY <2>1, <2>2, <2>3
    <2> QED BY <2>4, <2>5, <2>6
  <1>15. (IF flg THEN -arg ELSE arg) =
           (val \div base) * Power[base][k + 1] + (read + (val % base) * Power[base][k])
    <2>1. (IF flg THEN -arg ELSE arg) = val * Power[base][k] + read
      BY <1>2 DEF Magnitudes
    <2>2. PICK x, y, z \in Int : /\ x = val * Power[base][k]
                                 /\ y = (val \div base) * Power[base][k + 1]
                                 /\ z = (val % base) * Power[base][k]
      BY <1>14
    <2> DEFINE m == IF flg THEN -arg ELSE arg
    <2>3. read \in Int
      BY <1>2
    <2> HIDE DEF k, m
    <2>4. m = x + read
      BY <2>1, <2>2 DEF m
    <2>5. x = y + z
      BY <1>13, <2>2
    <2>6. m = y + (read + z)
      BY <2>3, <2>4, <2>5
    <2> QED BY <2>2, <2>6 DEF m
  <1>16. Magnitudes'
    <2>1. NUMLTH - 1 - n' = k + 1
      BY <1>3, <1>7
    <2>2. CASE val \div base = 0
      <3>1. 0 * Power[base][k + 1] = 0
        <4>1. \A x \in Nat : 0 * x = 0 OBVIOUS
        <4>2. Power[base][k + 1] \in Nat
          <5>1. base \in Bases OBVIOUS
          <5> HIDE DEF k
          <5> QED BY <5>1, <1>3, Powers
        <4> QED BY <4>1, <4>2
      <3>2. read + (val % base) * Power[base][k] \in Int
        BY <1>14
      <3>3. (IF flg THEN -arg ELSE arg) = read'
        BY <1>7, <1>15, <2>2, <3>1, <3>2
      <3> QED BY <1>7, <2>2, <3>3 DEF Magnitudes
    <2>3. CASE val \div base # 0
      <3>1. stage' = "digits" BY <1>7, <2>3
      <3>2. (IF flg THEN -arg ELSE arg) = val' * Power[base'][k + 1] + read'
        BY <1>7, <1>15
      <3> HIDE DEF k
      <3> QED BY <1>7, <2>1, <3>1, <3>2 DEF Magnitudes
    <2> QED BY <2>2, <2>3
  <1>17. val' \in Nat /\ n' \in Int /\ read' \in Int /\ stage' \in {"sign", "digits"}
    BY <1>2, <1>4, <1>7, <1>14
  <1> QED BY <1>7, <1>8, <1>11, <1>12, <1>16, <1>17

\* The sign takes the place the digits have left.
LEMMA SignInv == ASSUME Inv, Sign PROVE Inv'
  <1>1. stage = "sign" /\ stage' = "text" /\ UNCHANGED <<base, flg, val, arg, read>>
    BY DEF Sign
  <1>2. n' \in Int /\ out' \in [0..(NUMLTH - 1) -> Int]
    BY <1>1 DEF Inv, Sign, Minus
  <1>3. Magnitudes'
    BY <1>1 DEF Inv, Magnitudes
  <1> QED BY <1>1, <1>2, <1>3 DEF Inv, Fits

\* The next call finds the module as it was at first.
LEMMA ReturnInv == ASSUME NumReturn PROVE Inv'
  <1>1. flg' \in BOOLEAN /\ ~flg'
    BY DEF NumReturn
  <1>2. out' \in [0..(NUMLTH - 1) -> Int]
    BY DEF NumReturn, Blank
  <1>3. base' \in Bases /\ val' \in Nat /\ n' \in Int /\ arg' \in Int /\ read' \in Int
    BY DEF NumReturn, Bases
  <1>4. stage' = "idle"
    BY DEF NumReturn
  <1> QED BY <1>1, <1>2, <1>3, <1>4 DEF Inv, Fits, Magnitudes

LEMMA NextInv == Inv /\ [NumNext]_numVars => Inv'
  <1> SUFFICES ASSUME Inv, [NumNext]_numVars PROVE Inv' OBVIOUS
  <1>1. CASE UNCHANGED numVars
    BY <1>1 DEF numVars, Inv, Fits, Magnitudes
  <1>2. CASE \E i \in (-Half)..(Half - 1), b \in Bases \cup {-10} : numout(i, b)
    BY <1>2, CallInv
  <1>3. CASE Digit BY <1>3, DigitInv
  <1>4. CASE Sign BY <1>4, SignInv
  <1>5. CASE NumReturn BY <1>5, ReturnInv
  <1> QED BY <1>1, <1>2, <1>3, <1>4, <1>5 DEF NumNext

-----------------------------------------------------------------------------

\* What is left always fits the places that are left, and makes up the
\* number with what has been written (__numout).
THEOREM InvHolds == NumSpec => []Inv
  BY InitInv, NextInv, PTL DEF NumSpec

\* __numout never writes in front of its buffer, whatever the number, the
\* base and the sign.
THEOREM PlaceExistsHolds == NumSpec => []PlaceExists
  <1>1. Inv => PlaceExists
    BY DEF Inv, Fits, PlaceExists
  <1> QED BY <1>1, InvHolds, PTL

\* The digits __numout writes denote the number it was given, the most
\* negative one included.
THEOREM DigitsRightHolds == NumSpec => []DigitsRight
  <1>1. Inv => DigitsRight
    BY DEF Inv, Magnitudes, DigitsRight
  <1> QED BY <1>1, InvHolds, PTL

-----------------------------------------------------------------------------

\* Whatever va_arg yields is a long.
LEMMA ArgsAreLongs ==
  ASSUME NEW length, NEW signed \in BOOLEAN, NEW v \in Args(length, signed)
  PROVE  Signed(v) \in (-Half)..(Half - 1)
  <1>1. Half \in Nat \ {0} /\ IntHalf \in 1..Half
    BY RoomAssumption, IntAssumption
  <1>2. PICK half \in 1..Half : Args(length, signed) = IF signed THEN (-half)..(half - 1) ELSE 0..(2 * half - 1)
    BY <1>1 DEF Args
  <1>3. CASE signed
    BY <1>1, <1>2, <1>3 DEF Signed
  <1>4. CASE ~signed
    BY <1>1, <1>2, <1>4 DEF Signed
  <1> QED BY <1>3, <1>4

\* Every step of cprintf is one of __numout, or leaves it alone.
LEMMA StepNumout == [Next]_vars => [NumNext]_numVars
  <1> SUFFICES ASSUME [Next]_vars PROVE [NumNext]_numVars OBVIOUS
  <1>1. CASE UNCHANGED numVars
    BY <1>1
  <1>2. CASE Number
    <2>1. stage = "idle"
      BY <1>2 DEF Number, Ready
    <2>2. PICK v \in Args(Conversion.length, Conversion.kind = "d") :
            numout(Signed(v), CASE Conversion.kind = "d" -> -10
                                [] Conversion.kind = "u" -> 10
                                [] Conversion.kind = "o" -> 8
                                [] Conversion.kind = "x" -> 16)
      BY <1>2 DEF Number
    <2>3. Signed(v) \in (-Half)..(Half - 1)
      BY <2>2, ArgsAreLongs
    <2>4. Conversion.kind \in {"d", "u", "o", "x"}
      BY <1>2 DEF Number, Ready, Numbers
    <2>5. (CASE Conversion.kind = "d" -> -10
             [] Conversion.kind = "u" -> 10
             [] Conversion.kind = "o" -> 8
             [] Conversion.kind = "x" -> 16) \in Bases \cup {-10}
      BY <2>4 DEF Bases
    <2> QED BY <2>1, <2>2, <2>3, <2>5 DEF NumNext
  <1>3. CASE Convert
    BY <1>3 DEF Convert, NumNext
  <1>4. CASE PutNumber
    BY <1>4 DEF PutNumber, NumNext
  <1>5. CASE Call \/ PutPlain \/ BarePercent \/ PutString \/ Return
    BY <1>5 DEF Call, PutPlain, BarePercent, PutString, Return
  <1>6. CASE UNCHANGED vars
    BY <1>6 DEF vars
  <1> QED BY <1>1, <1>2, <1>3, <1>4, <1>5, <1>6 DEF Next

\* cprintf calls __numout only with longs and the bases it knows, and only
\* when the number before has been printed: what holds of __numout for any
\* caller holds of it in cprintf.
THEOREM CallsNumout == Spec => NumSpec
  <1>1. Init => NumInit
    BY DEF Init
  <1> QED BY <1>1, StepNumout, PTL DEF Spec, NumSpec

\* In cprintf no digit leaves the buffer and every number is right.
THEOREM NumbersRight == Spec => [](PlaceExists /\ DigitsRight)
  BY CallsNumout, PlaceExistsHolds, DigitsRightHolds, PTL
-----------------------------------------------------------------------------

\* Between two calls of __numout the format is at rest; while one is under way
\* its directive is the next, and the text begins inside out.
FieldInv ==
  /\ Inv
  /\ stage \in {"sign", "text"} => n \in (-1)..(NUMLTH - 1)
  /\ fmt \in Seq(Directive)
  /\ stage # "idle" => fmt # <<>> /\ Conversion.kind \in Numbers
  /\ FieldRight

\* A sequence is a prefix of what begins with it,
LEMMA Prefix ==
  ASSUME NEW S, NEW s \in Seq(S), NEW t \in Seq(S)
  PROVE  IsPrefix(s, s \o t)
  <1>1. Len(s \o t) = Len(s) + Len(t) /\ Len(s) \in Nat /\ Len(t) \in Nat
    OBVIOUS
  <1>2. SubSeq(s \o t, 1, Len(s)) = SubSeq(s, 1, Len(s))
    OBVIOUS
  <1> QED BY <1>1, <1>2 DEF IsPrefix

\* and a suffix of what ends with it.
LEMMA Suffix ==
  ASSUME NEW S, NEW s \in Seq(S), NEW t \in Seq(S)
  PROVE  IsSuffix(s, t \o s)
  <1> DEFINE r == Reverse(s)
             q == Reverse(t \o s)
  <1>1. Len(t \o s) = Len(t) + Len(s) /\ Len(s) \in Nat /\ Len(t) \in Nat
    OBVIOUS
  <1>2. /\ r = [i \in 1..Len(s) |-> s[(Len(s) - i) + 1]]
        /\ q = [i \in 1..(Len(t) + Len(s)) |-> (t \o s)[(Len(t) + Len(s) - i) + 1]]
    BY <1>1 DEF Reverse
  <1>3. Len(r) = Len(s) /\ Len(q) = Len(t) + Len(s)
    BY <1>1, <1>2
  <1>4. ASSUME NEW i \in 1..Len(s) PROVE q[i] = r[i]
    <2>1. i \in 1..(Len(t) + Len(s)) /\ (Len(s) - i) + 1 \in 1..Len(s)
      BY <1>1
    <2>2. (t \o s)[Len(t) + ((Len(s) - i) + 1)] = s[(Len(s) - i) + 1]
      BY <1>1, <2>1
    <2> QED BY <1>1, <1>2, <2>1, <2>2
  <1>5. SubSeq(r, 1, Len(r)) = [i \in 1..Len(s) |-> r[i]]
    BY <1>1, <1>2, <1>3
  <1>6. SubSeq(q, 1, Len(r)) = [i \in 1..Len(s) |-> q[i]]
    BY <1>1, <1>2, <1>3
  <1>7. SubSeq(r, 1, Len(r)) = SubSeq(q, 1, Len(r))
    BY <1>4, <1>5, <1>6
  <1> HIDE DEF r, q
  <1>8. IsPrefix(r, q)
    BY <1>1, <1>3, <1>7 DEF IsPrefix
  <1> QED BY <1>8 DEF IsSuffix, r, q

\* What is put for a text that is not cut.
LEMMA PaddedRight ==
  ASSUME NEW text \in Seq(Int), NEW width \in Int, NEW prec \in Nat, NEW zero \in BOOLEAN,
         prec = 0 \/ prec >= Len(text)
  PROVE  LET w     == IF width < 0 THEN -width ELSE width
             chars == Padded(text, width, prec, zero)
         IN  /\ Len(chars) = IF w > Len(text) THEN w ELSE Len(text)
             /\ IF width < 0 THEN IsPrefix(text, chars) ELSE IsSuffix(text, chars)
  <1> DEFINE w     == IF width < 0 THEN -width ELSE width
             lack  == w - Len(text)
             chars == Padded(text, width, prec, zero)
             left  == IF width > 0 THEN Pads(lack, zero) ELSE <<>>
             right == IF width < 0 THEN Spaces(lack) ELSE <<>>
  <1> SUFFICES /\ Len(chars) = IF w > Len(text) THEN w ELSE Len(text)
               /\ IF width < 0 THEN IsPrefix(text, chars) ELSE IsSuffix(text, chars)
    OBVIOUS
  <1>1. Len(text) \in Nat /\ lack \in Int /\ w \in Nat
    OBVIOUS
  <1>2. SubSeq(text, 1, IF prec > 0 /\ prec < Len(text) THEN prec ELSE Len(text)) = text
    BY <1>1
  <1>3. chars = left \o text \o right
    BY <1>2 DEF Padded
  <1>4. /\ Pads(lack, zero) \in Seq(Int) /\ Spaces(lack) \in Seq(Int)
        /\ Len(Pads(lack, zero)) = IF lack > 0 THEN lack ELSE 0
        /\ Len(Spaces(lack)) = IF lack > 0 THEN lack ELSE 0
    <2> HIDE DEF lack
    <2>1. CASE lack > 0
      BY <1>1, <2>1 DEF Pads, Spaces, Space
    <2>2. CASE ~(lack > 0)
      <3>1. 1..lack = {}
        BY <1>1, <2>2
      <3>2. Pads(lack, zero) = <<>> /\ Spaces(lack) = <<>>
        BY <3>1 DEF Pads, Spaces
      <3> QED BY <2>2, <3>2
    <2> QED BY <2>1, <2>2
  <1> HIDE DEF chars
  <1>5. text \o <<>> = text /\ <<>> \o text = text
    OBVIOUS
  <1>6. CASE width < 0
    <2>1. left = <<>> /\ right = Spaces(lack) /\ w = -width
      BY <1>6
    <2>2. chars = text \o Spaces(lack)
      BY <1>3, <1>5, <2>1
    <2> HIDE DEF left, right, w, lack
    <2>3. IsPrefix(text, chars)
      BY <1>4, <2>2, Prefix
    <2>4. Len(chars) = Len(text) + Len(Spaces(lack))
      <3>1. Spaces(lack) \in Seq(Int)
        BY <1>4
      <3> QED BY <2>2, <3>1
    <2>5. lack = w - Len(text)
      BY DEF lack
    <2> QED BY <1>1, <1>4, <1>6, <2>3, <2>4, <2>5
  <1>7. CASE width > 0
    <2>1. left = Pads(lack, zero) /\ right = <<>> /\ w = width
      BY <1>7
    <2> HIDE DEF left, right, w, lack
    <2>2. Pads(lack, zero) \o text \in Seq(Int)
      BY <1>4
    <2>3. chars = Pads(lack, zero) \o text
      BY <1>3, <2>1, <2>2
    <2>4. IsSuffix(text, chars)
      BY <1>4, <2>3, Suffix
    <2>5. Len(chars) = Len(Pads(lack, zero)) + Len(text)
      BY <1>4, <2>3
    <2>6. lack = w - Len(text)
      BY DEF lack
    <2> QED BY <1>1, <1>4, <1>7, <2>4, <2>5, <2>6
  <1>8. CASE width = 0
    <2>1. left = <<>> /\ right = <<>> /\ w = 0
      BY <1>8
    <2> HIDE DEF left, right, w, lack
    <2>2. chars = text
      BY <1>3, <1>5, <2>1
    <2>3. <<>> \in Seq(Int)
      OBVIOUS
    <2>4. IsSuffix(text, <<>> \o text)
      BY <2>3, Suffix
    <2>5. IsSuffix(text, chars)
      BY <1>5, <2>2, <2>4
    <2> QED BY <1>1, <1>8, <2>1, <2>2, <2>5
  <1> QED BY <1>6, <1>7, <1>8

LEMMA PutFieldRight ==
  ASSUME fmt \in Seq(Directive), fmt # <<>>, Conversion.kind \in {"s"} \cup Numbers,
         NEW text \in Seq(Int), PutField(text)
  PROVE  FieldRight' /\ fmt' \in Seq(Directive)
  <1>1. Conversion \in Directive /\ Tail(fmt) \in Seq(Directive)
    BY DEF Conversion
  <1>2. Conversion.width \in Int /\ Conversion.prec \in Nat /\ Conversion.zero \in BOOLEAN
    <2>1. Conversion.kind \notin {"char", "newline", "percent", "c", "other"}
      BY DEF Numbers
    <2>2. Conversion \in [kind : {"s"} \cup Numbers, length : {"h", "", "l"},
                          width : Int, prec : Nat, zero : BOOLEAN]
      <3> DEFINE x == Conversion
      <3>1. x \in Directive /\ x.kind \notin {"char", "newline", "percent", "c", "other"}
        BY <1>1, <2>1
      <3> HIDE DEF x
      <3> QED
        BY <3>1 DEF Directive, x
    <2> QED
      BY <2>2
  <1>3. PICK width \in Int, prec \in Nat, zero \in BOOLEAN :
          /\ width = Conversion.width /\ prec = Conversion.prec /\ zero = Conversion.zero
    BY <1>2
  <1> DEFINE chars == Padded(text, width, prec, zero)
  <1>4. field' = [text |-> text, chars |-> chars, width |-> width, prec |-> prec]
    BY <1>3 DEF PutField
  <1>5. (prec = 0 \/ prec >= Len(text)) =>
          LET w == IF width < 0 THEN -width ELSE width
          IN  /\ Len(chars) = IF w > Len(text) THEN w ELSE Len(text)
              /\ IF width < 0 THEN IsPrefix(text, chars) ELSE IsSuffix(text, chars)
    BY PaddedRight
  <1> HIDE DEF chars
  <1>6. FieldRight'
    BY <1>4, <1>5 DEF FieldRight
  <1> QED BY <1>1, <1>6 DEF PutField

LEMMA InitField == Init => FieldInv
  <1> SUFFICES ASSUME Init PROVE FieldInv OBVIOUS
  <1>1. Inv
    BY InitInv DEF Init
  <1>2. stage = "idle" /\ fmt = <<>> /\ field = NoField
    BY DEF Init, NumInit
  <1>3. FieldRight
    <2>1. <<>> \in Seq(Int) /\ <<>> \o <<>> = <<>> /\ Len(<<>>) = 0
      OBVIOUS
    <2>2. IsSuffix(<<>>, <<>>)
      BY <2>1, Suffix
    <2> QED BY <1>2, <2>1, <2>2 DEF FieldRight, NoField
  <1> QED BY <1>1, <1>2, <1>3 DEF FieldInv

LEMMA NextField == FieldInv /\ [Next]_vars => FieldInv'
  <1> SUFFICES ASSUME FieldInv, [Next]_vars PROVE FieldInv' OBVIOUS
  <1>1. Inv'
    BY StepNumout, NextInv DEF FieldInv
  <1>2. CASE Call
    BY <1>1, <1>2, FormatAssumption DEF FieldInv, Call, Idle, numVars, FieldRight
  <1>3. CASE PutPlain
    BY <1>1, <1>3 DEF FieldInv, PutPlain, Ready, numVars, FieldRight
  <1>4. CASE BarePercent
    BY <1>1, <1>4 DEF FieldInv, BarePercent, Ready, numVars, FieldRight
  <1>5. CASE Number
    <2>1. stage' = "digits" /\ fmt' = fmt /\ field' = field /\ fmt # <<>> /\ Conversion.kind \in Numbers
      BY <1>5 DEF Number, numout, Ready
    <2> QED BY <1>1, <2>1 DEF FieldInv, FieldRight, Conversion
  <1>6. CASE Convert
    <2>1. fmt' = fmt /\ field' = field /\ stage # "idle"
      BY <1>6 DEF Convert, Digit, Sign
    <2>2. stage' \in {"sign", "text"} => n' \in (-1)..(NUMLTH - 1)
      <3>1. CASE Digit
        BY <3>1, PowerAssumption DEF Digit, FieldInv, Inv, Fits
      <3>2. CASE Sign
        BY <3>2, PowerAssumption DEF Sign, FieldInv, Inv
      <3> QED BY <1>6, <3>1, <3>2 DEF Convert
    <2> QED BY <1>1, <2>1, <2>2 DEF FieldInv, FieldRight, Conversion
  <1>7. CASE PutNumber
    <2> DEFINE places == [k \in 1..NUMLTH |-> out[k - 1]]
    <2>1. stage = "text" /\ stage' = "idle" /\ PutField(SubSeq(places, n + 2, NUMLTH))
      BY <1>7 DEF PutNumber, NumReturn
    <2>2. NUMLTH \in Nat /\ n \in (-1)..(NUMLTH - 1)
      BY <2>1, PowerAssumption DEF FieldInv
    <2>3. places \in Seq(Int) /\ Len(places) = NUMLTH
      BY <2>2 DEF FieldInv, Inv
    <2> HIDE DEF places
    <2>4. SubSeq(places, n + 2, NUMLTH) \in Seq(Int)
      BY <2>2, <2>3
    <2>5. FieldRight' /\ fmt' \in Seq(Directive)
      BY <2>1, <2>4, PutFieldRight DEF FieldInv
    <2> QED BY <1>1, <2>1, <2>5 DEF FieldInv
  <1>8. CASE PutString
    <2>1. PICK len \in 0..3 : PutField([i \in 1..len |-> Letter])
      BY <1>8 DEF PutString
    <2>2. [i \in 1..len |-> Letter] \in Seq(Int)
      BY DEF Letter
    <2>3. stage = "idle" /\ stage' = "idle" /\ fmt # <<>> /\ Conversion.kind = "s"
      BY <1>8 DEF PutString, Ready, numVars
    <2>4. FieldRight' /\ fmt' \in Seq(Directive)
      BY <2>1, <2>2, <2>3, PutFieldRight DEF FieldInv
    <2> QED BY <1>1, <2>3, <2>4 DEF FieldInv
  <1>9. CASE Return
    <2>1. stage = "idle" /\ stage' = "idle" /\ fmt' = <<>> /\ field' = NoField
      BY <1>9 DEF Return, numVars
    <2>2. FieldRight'
      <3>1. <<>> \in Seq(Int) /\ <<>> \o <<>> = <<>> /\ Len(<<>>) = 0
        OBVIOUS
      <3>2. IsSuffix(<<>>, <<>>)
        BY <3>1, Suffix
      <3> QED BY <2>1, <3>1, <3>2 DEF FieldRight, NoField
    <2> QED BY <1>1, <2>1, <2>2 DEF FieldInv
  <1>10. CASE UNCHANGED vars
    BY <1>1, <1>10 DEF FieldInv, vars, numVars, FieldRight, Conversion
  <1> QED BY <1>2, <1>3, <1>4, <1>5, <1>6, <1>7, <1>8, <1>9, <1>10 DEF Next

\* Every field cprintf puts that is not cut is exactly as wide as asked for,
\* or as its text, with the text whole on the right side, for every width,
\* text and number.
THEOREM FieldRightHolds == Spec => []FieldRight
  <1>1. FieldInv => FieldRight
    BY DEF FieldInv
  <1> QED BY <1>1, InitField, NextField, PTL DEF Spec

-----------------------------------------------------------------------------
(* The count.                                                              *)

\* What is put for anything but a newline.
Inks == Int \ {CR}

Returns(s) == Cardinality({i \in DOMAIN s : s[i] = CR})

\* The places of the number hold digits, its sign or nothing.
CountInv ==
  /\ FieldInv
  /\ out \in [0..(NUMLTH - 1) -> Nat \cup {Blank, Minus}]
  /\ sent \in Seq(Int)
  /\ count \in Int
  /\ CountRight

\* Carriage returns are counted: there are none in a text,
LEMMA ReturnsKept ==
  ASSUME NEW s \in Seq(Int), NEW t \in Seq(Inks)
  PROVE  Returns(s \o t) = Returns(s) /\ s \o t \in Seq(Int)
  <1>1. t \in Seq(Int) /\ \A i \in 1..Len(t) : t[i] # CR
    <2>1. Inks \subseteq Int BY DEF Inks
    <2>2. t \in Seq(Int) BY <2>1, SeqMonotonic
    <2>3. \A i \in 1..Len(t) : t[i] \in Inks OBVIOUS
    <2> QED BY <2>2, <2>3 DEF Inks
  <1>2. \A i \in DOMAIN (s \o t) : (s \o t)[i] = CR <=> i \in DOMAIN s /\ s[i] = CR
    <2> TAKE i \in DOMAIN (s \o t)
    <2>1. CASE i \in DOMAIN s
      BY <1>1, <2>1
    <2>2. CASE i \notin DOMAIN s
      <3>1. i - Len(s) \in 1..Len(t) /\ (s \o t)[i] = t[i - Len(s)]
        BY <1>1, <2>2
      <3> QED BY <1>1, <2>2, <3>1
    <2> QED BY <2>1, <2>2
  <1>3. DOMAIN s \subseteq DOMAIN (s \o t)
    BY <1>1
  <1>4. {i \in DOMAIN (s \o t) : (s \o t)[i] = CR} = {i \in DOMAIN s : s[i] = CR}
    BY <1>2, <1>3
  <1>5. s \o t \in Seq(Int)
    BY <1>1
  <1> QED BY <1>4, <1>5 DEF Returns

\* one more before a newline,
LEMMA ReturnsMore ==
  ASSUME NEW s \in Seq(Int)
  PROVE  Returns(s \o <<CR, LF>>) = Returns(s) + 1 /\ s \o <<CR, LF>> \in Seq(Int)
  <1> DEFINE t == s \o <<CR, LF>>
             old == {i \in DOMAIN s : s[i] = CR}
             new == {i \in DOMAIN t : t[i] = CR}
  <1>1. <<CR, LF>> \in Seq(Int) /\ Len(<<CR, LF>>) = 2 /\ Len(s) \in Nat /\ CR # LF
    BY DEF CR, LF
  <1>2. /\ t \in Seq(Int) /\ DOMAIN t = 1..(Len(s) + 2) /\ DOMAIN s = 1..Len(s)
        /\ \A i \in 1..Len(s) : t[i] = s[i]
        /\ t[Len(s) + 1] = CR /\ t[Len(s) + 2] = LF
    BY <1>1
  <1> HIDE DEF t
  <1>3. new = old \cup {Len(s) + 1}
    <2>1. ASSUME NEW i \in 1..(Len(s) + 2)
          PROVE  t[i] = CR <=> (i \in 1..Len(s) /\ s[i] = CR) \/ i = Len(s) + 1
      <3>1. i \in 1..Len(s) \/ i = Len(s) + 1 \/ i = Len(s) + 2
        BY <1>1
      <3>2. Len(s) + 1 \notin 1..Len(s) /\ Len(s) + 2 \notin 1..Len(s) /\ Len(s) + 1 # Len(s) + 2
        BY <1>1
      <3> QED BY <1>1, <1>2, <3>1, <3>2
    <2>2. 1..Len(s) \subseteq 1..(Len(s) + 2) /\ Len(s) + 1 \in 1..(Len(s) + 2)
      BY <1>1
    <2> QED BY <1>2, <2>1, <2>2
  <1>4. IsFiniteSet(old) /\ Len(s) + 1 \notin old
    <2>1. IsFiniteSet(1..Len(s))
      BY <1>1, FS_Interval
    <2>2. old \subseteq 1..Len(s)
      BY <1>2
    <2> QED BY <1>1, <2>1, <2>2, FS_Subset
  <1>5. Cardinality(new) = Cardinality(old) + 1
    BY <1>3, <1>4, FS_AddElement
  <1> QED BY <1>2, <1>5 DEF Returns, t

\* and never more than characters.
LEMMA ReturnsNat ==
  ASSUME NEW s \in Seq(Int) PROVE Returns(s) \in Nat
  <1>1. IsFiniteSet(1..Len(s)) /\ DOMAIN s = 1..Len(s)
    BY FS_Interval
  <1>2. IsFiniteSet({i \in DOMAIN s : s[i] = CR})
    BY <1>1, FS_Subset
  <1> QED BY <1>2, FS_CardinalityType DEF Returns

LEMMA NothingReturns == Returns(<<>>) = 0
  <1>1. {i \in DOMAIN <<>> : <<>>[i] = CR} = {}
    OBVIOUS
  <1> QED BY <1>1, FS_EmptySet DEF Returns

LEMMA PaddedInks ==
  ASSUME NEW text \in Seq(Inks), NEW width \in Int, NEW prec \in Nat, NEW zero \in BOOLEAN
  PROVE  Padded(text, width, prec, zero) \in Seq(Inks)
  <1> DEFINE lack == (IF width < 0 THEN -width ELSE width) - Len(text)
             cut  == SubSeq(text, 1, IF prec > 0 /\ prec < Len(text) THEN prec ELSE Len(text))
  <1>1. lack \in Int /\ Len(text) \in Nat
    OBVIOUS
  <1>2. cut \in Seq(Inks)
    <2> DEFINE k == IF prec > 0 /\ prec < Len(text) THEN prec ELSE Len(text)
    <2>1. k \in 0..Len(text)
      BY <1>1
    <2> HIDE DEF k
    <2>2. SubSeq(text, 1, k) \in Seq(Inks)
      BY <1>1, <2>1
    <2> QED BY <2>2 DEF k
  <1> HIDE DEF lack
  <1>3. 0 \in Inks /\ Space \in Inks
    BY DEF Inks, Space, CR
  <1>4. Pads(lack, zero) \in Seq(Inks) /\ Spaces(lack) \in Seq(Inks)
    <2>1. CASE lack > 0
      BY <1>1, <1>3, <2>1 DEF Pads, Spaces
    <2>2. CASE ~(lack > 0)
      <3>1. 1..lack = {}
        BY <1>1, <2>2
      <3>2. Pads(lack, zero) = <<>> /\ Spaces(lack) = <<>>
        BY <3>1 DEF Pads, Spaces
      <3> QED BY <3>2
    <2> QED BY <2>1, <2>2
  <1> DEFINE left  == IF width > 0 THEN Pads(lack, zero) ELSE <<>>
             right == IF width < 0 THEN Spaces(lack) ELSE <<>>
  <1>5. left \in Seq(Inks) /\ right \in Seq(Inks)
    <2>1. <<>> \in Seq(Inks) OBVIOUS
    <2> QED BY <1>4, <2>1
  <1>6. Padded(text, width, prec, zero) = left \o cut \o right
    BY DEF Padded, lack
  <1> HIDE DEF left, right, cut
  <1> QED BY <1>2, <1>5, <1>6

LEMMA PutFieldCount ==
  ASSUME CountInv, fmt # <<>>, Conversion.kind \in {"s"} \cup Numbers,
         NEW text \in Seq(Inks), PutField(text)
  PROVE  sent' \in Seq(Int) /\ count' \in Int /\ CountRight' /\ Len(sent') >= Len(sent)
  <1> DEFINE chars == Padded(text, Conversion.width, Conversion.prec, Conversion.zero)
  <1>1. Conversion \in Directive
    BY DEF Conversion, CountInv, FieldInv
  <1>2. Conversion.width \in Int /\ Conversion.prec \in Nat /\ Conversion.zero \in BOOLEAN
    BY <1>1 DEF Directive, Numbers
  <1>3. chars \in Seq(Inks)
    BY <1>2, PaddedInks
  <1>4. sent' = sent \o chars /\ count' = count + Len(chars)
    BY DEF PutField, Counted
  <1> HIDE DEF chars
  <1>5. sent \in Seq(Int) /\ count \in Int /\ count = Len(sent) - Returns(sent)
    BY DEF CountInv, CountRight, Returns
  <1>6. Returns(sent') = Returns(sent) /\ sent' \in Seq(Int) /\ Len(sent') = Len(sent) + Len(chars)
    BY <1>3, <1>4, <1>5, ReturnsKept
  <1>7. Returns(sent) \in Nat /\ Len(chars) \in Nat /\ Len(sent) \in Nat
    BY <1>3, <1>5, ReturnsNat
  <1>8. count' = Len(sent') - Returns(sent')
    BY <1>4, <1>5, <1>6, <1>7
  <1>9. count' \in Int
    BY <1>4, <1>5, <1>7
  <1>10. Len(sent') >= Len(sent)
    BY <1>6, <1>7
  <1> QED BY <1>6, <1>8, <1>9, <1>10 DEF CountRight, Returns

LEMMA PutNumberCount ==
  ASSUME CountInv, PutNumber
  PROVE  sent' \in Seq(Int) /\ count' \in Int /\ CountRight' /\ Len(sent') >= Len(sent)
  <1> DEFINE places == [k \in 1..NUMLTH |-> out[k - 1]]
  <1>1. stage = "text" /\ PutField(SubSeq(places, n + 2, NUMLTH))
    BY DEF PutNumber, NumReturn
  <1>2. NUMLTH \in Nat /\ n \in (-1)..(NUMLTH - 1) /\ fmt # <<>> /\ Conversion.kind \in Numbers
    BY <1>1, PowerAssumption DEF CountInv, FieldInv
  <1>3. \A k \in 0..(NUMLTH - 1) : out[k] \in Inks
    <2>1. Nat \cup {Blank, Minus} \subseteq Inks
      BY DEF Inks, Blank, Minus, CR
    <2> QED BY <2>1 DEF CountInv
  <1>4. places \in Seq(Inks) /\ Len(places) = NUMLTH
    BY <1>2, <1>3
  <1> HIDE DEF places
  <1>5. SubSeq(places, n + 2, NUMLTH) \in Seq(Inks)
    BY <1>2, <1>4
  <1> QED BY <1>1, <1>2, <1>5, PutFieldCount

LEMMA PutStringCount ==
  ASSUME CountInv, PutString
  PROVE  sent' \in Seq(Int) /\ count' \in Int /\ CountRight' /\ Len(sent') >= Len(sent)
  <1>1. PICK len \in 0..3 : PutField([i \in 1..len |-> Letter])
    BY DEF PutString
  <1>2. Letter \in Inks
    BY DEF Inks, Letter, CR
  <1>3. [i \in 1..len |-> Letter] \in Seq(Inks)
    BY <1>2
  <1>4. fmt # <<>> /\ Conversion.kind = "s"
    BY DEF PutString, Ready
  <1> QED BY <1>1, <1>3, <1>4, PutFieldCount

LEMMA InitCount == Init => CountInv
  <1> SUFFICES ASSUME Init PROVE CountInv OBVIOUS
  <1>1. FieldInv
    BY InitField
  <1>2. out \in [0..(NUMLTH - 1) -> Nat \cup {Blank, Minus}]
    BY DEF Init, NumInit
  <1>3. sent = <<>> /\ count = 0
    BY DEF Init
  <1>4. sent \in Seq(Int) /\ count \in Int
    BY <1>3
  <1>5. count = Len(sent) - Returns(sent)
    BY <1>3, NothingReturns
  <1> QED BY <1>1, <1>2, <1>4, <1>5 DEF CountInv, CountRight, Returns

LEMMA NextOut ==
  ASSUME CountInv, [Next]_vars
  PROVE  out' \in [0..(NUMLTH - 1) -> Nat \cup {Blank, Minus}]
  <1>1. CASE UNCHANGED numVars
    BY <1>1 DEF CountInv, numVars
  <1>2. CASE \E i \in (-Half)..(Half - 1), b \in Bases \cup {-10} : numout(i, b)
    BY <1>2 DEF numout
  <1>3. CASE Digit
    <2>1. base \in Bases /\ val \in Nat
      BY DEF CountInv, FieldInv, Inv
    <2>2. val % base \in Nat
      BY <2>1, Division
    <2> QED BY <1>3, <2>2 DEF Digit, CountInv
  <1>4. CASE Sign
    BY <1>4 DEF Sign, CountInv
  <1>5. CASE NumReturn
    BY <1>5 DEF NumReturn
  <1> QED BY <1>1, <1>2, <1>3, <1>4, <1>5, StepNumout DEF NumNext

LEMMA NextCount == CountInv /\ [Next]_vars => CountInv'
  <1> SUFFICES ASSUME CountInv, [Next]_vars PROVE CountInv' OBVIOUS
  <1>1. FieldInv' /\ out' \in [0..(NUMLTH - 1) -> Nat \cup {Blank, Minus}]
    BY NextField, NextOut DEF CountInv
  <1>2. /\ sent \in Seq(Int) /\ count \in Int /\ Len(sent) \in Nat /\ Returns(sent) \in Nat
        /\ \/ count = Len(sent) - Returns(sent)
           \/ count = Len(sent) - Returns(sent) + 1 /\ fmt = <<>>
    BY ReturnsNat DEF CountInv, CountRight, Returns
  <1>3. SUFFICES sent' \in Seq(Int) /\ count' \in Int /\ CountRight'
    BY <1>1 DEF CountInv
  <1>4. CASE Call
    <2>1. sent' = sent /\ count' = count /\ sent = <<>> /\ count = 0
      BY <1>4 DEF Call, Idle
    <2>2. count' = Len(sent') - Returns(sent')
      BY <2>1, NothingReturns
    <2> QED BY <1>2, <2>1, <2>2 DEF CountRight, Returns
  <1>5. CASE PutPlain
    <2>1. count' = count + 1 /\ count = Len(sent) - Returns(sent)
      BY <1>2, <1>5 DEF PutPlain, Ready
    <2>2. CASE Conversion.kind = "newline"
      <3>1. sent' = sent \o <<CR, LF>>
        BY <1>5, <2>2 DEF PutPlain
      <3>2. Returns(sent') = Returns(sent) + 1 /\ sent' \in Seq(Int) /\ Len(sent') = Len(sent) + 2
        BY <1>2, <3>1, ReturnsMore DEF CR, LF
      <3>3. count' = Len(sent') - Returns(sent')
        BY <1>2, <2>1, <3>2
      <3> QED BY <1>2, <2>1, <3>2, <3>3 DEF CountRight, Returns
    <2>3. CASE Conversion.kind # "newline"
      <3>1. sent' = sent \o <<Letter>>
        BY <1>5, <2>3 DEF PutPlain
      <3>2. Letter \in Inks
        BY DEF Inks, Letter, CR
      <3>3. <<Letter>> \in Seq(Inks)
        BY <3>2
      <3>4. Returns(sent') = Returns(sent) /\ sent' \in Seq(Int)
        BY <1>2, <3>1, <3>3, ReturnsKept
      <3>5. Len(sent') = Len(sent) + 1
        BY <1>2, <3>1 DEF Letter
      <3>6. count' = Len(sent') - Returns(sent')
        BY <1>2, <2>1, <3>4, <3>5
      <3> QED BY <1>2, <2>1, <3>4, <3>6 DEF CountRight, Returns
    <2> QED BY <2>2, <2>3
  <1>6. CASE BarePercent
    <2>1. count' = count + 1 /\ sent' = sent /\ fmt' = <<>> /\ fmt # <<>>
      BY <1>6 DEF BarePercent, Ready
    <2>2. count' = Len(sent') - Returns(sent') + 1
      BY <1>2, <2>1
    <2> QED BY <1>2, <2>1, <2>2 DEF CountRight, Returns
  <1>7. CASE Number \/ Convert
    <2>1. sent' = sent /\ count' = count /\ fmt' = fmt
      BY <1>7 DEF Number, Convert
    <2> QED BY <1>2, <2>1 DEF CountRight, Returns
  <1>8. CASE PutNumber
    BY <1>8, PutNumberCount
  <1>9. CASE PutString
    BY <1>9, PutStringCount
  <1>10. CASE Return
    <2>1. sent' = <<>> /\ count' = 0
      BY <1>10 DEF Return
    <2>2. count' = Len(sent') - Returns(sent') /\ sent' \in Seq(Int)
      BY <2>1, NothingReturns
    <2> QED BY <2>1, <2>2 DEF CountRight, Returns
  <1>11. CASE UNCHANGED vars
    BY <1>2, <1>11 DEF vars, CountRight, Returns
  <1> QED BY <1>4, <1>5, <1>6, <1>7, <1>8, <1>9, <1>10, <1>11 DEF Next

\* cprintf returns the number of characters it has put, carriage returns
\* and a bare percent at the end of the format apart, for every format and
\* whatever padding or precision its fields ask for.
THEOREM CountRightHolds == Spec => []CountRight
  <1>1. CountInv => CountRight
    BY DEF CountInv
  <1> QED BY <1>1, InitCount, NextCount, PTL DEF Spec

-----------------------------------------------------------------------------
(* Induction, with a set in place of the predicate.                        *)

\* A non-empty set of naturals has a least member.
LEMMA Least ==
  ASSUME NEW I \in SUBSET Nat, I # {}
  PROVE  \E m \in I : \A i \in I : m <= i
<1> DEFINE R == OpToRel(<, Nat)
<1>1. PICK m \in I : \A i \in I : <<i, m>> \notin R
  <2>1. IsWellFoundedOn(R, Nat)
    BY NatLessThanWellFounded
  <2> HIDE DEF R
  <2> QED
    BY <2>1, WFMin
<1>2. ASSUME NEW i \in I PROVE m <= i
  <2>1. i \in Nat /\ m \in Nat /\ <<i, m>> \in Nat \X Nat
    OBVIOUS
  <2>2. i < m => <<i, m>> \in R
    BY <2>1 DEF OpToRel
  <2> HIDE DEF R
  <2> QED
    BY <1>1, <2>1, <2>2
<1> QED
  BY <1>2

\* A set that holds 0 and with n also n + 1 holds every natural number.
LEMMA SetInduction ==
  ASSUME NEW S, 0 \in S, \A k \in Nat : k \in S => k + 1 \in S
  PROVE  \A k \in Nat : k \in S
<1> SUFFICES ASSUME Nat \ S # {} PROVE FALSE
  OBVIOUS
<1>1. PICK m \in Nat \ S : \A i \in Nat \ S : m <= i
  BY Least
<1>2. m # 0 /\ m - 1 \in Nat
  BY <1>1
<1>3. m - 1 \in S
  BY <1>1, <1>2
<1>4. m - 1 + 1 \in S
  BY <1>2, <1>3
<1> QED
  BY <1>1, <1>4

-----------------------------------------------------------------------------
(* What the terminal makes of a sequence of characters.                    *)

\* w[i] is the terminal after i characters of s.
Feeds(w, t, s) ==
  w[0] = t /\ \A i \in 1..Len(s) : w[i] = Feed(w[i - 1], s[i])

LEMMA FeedsExist ==
  ASSUME NEW X, NEW t, NEW s \in Seq(X)
  PROVE  \E w : Feeds(w, t, s)
<1> DEFINE Part(w, k) == w[0] = t /\ \A i \in 1..k : w[i] = Feed(w[i - 1], s[i])
           S == {k \in Nat : \E w : Part(w, k)}
<1>1. 0 \in S
  <2> DEFINE w == [i \in {0} |-> t]
  <2>1. Part(w, 0)
    OBVIOUS
  <2> HIDE DEF Part, w
  <2> QED
    BY <2>1
<1>2. ASSUME NEW k \in Nat, k \in S PROVE k + 1 \in S
  <2>1. PICK w : Part(w, k)
    BY <1>2
  <2> DEFINE v == [i \in 0..(k + 1) |-> IF i <= k THEN w[i] ELSE Feed(w[k], s[k + 1])]
  <2>2. v[0] = t
    BY <2>1
  <2>3. ASSUME NEW i \in 1..(k + 1) PROVE v[i] = Feed(v[i - 1], s[i])
    <3>1. CASE i <= k
      <4>1. v[i] = w[i] /\ v[i - 1] = w[i - 1] /\ i \in 1..k
        BY <3>1
      <4> QED
        BY <2>1, <4>1
    <3>2. CASE i = k + 1
      <4>1. v[i] = Feed(w[k], s[k + 1]) /\ v[i - 1] = w[k]
        BY <3>2
      <4> QED
        BY <3>2, <4>1
    <3> QED
      BY <3>1, <3>2
  <2> HIDE DEF v
  <2>4. Part(v, k + 1)
    BY <2>2, <2>3
  <2> HIDE DEF Part
  <2> QED
    BY <2>4
<1>3. \A k \in Nat : k \in S
  <2> HIDE DEF S
  <2> QED
    BY <1>1, <1>2, SetInduction
<1>4. Len(s) \in S
  <2>1. Len(s) \in Nat
    OBVIOUS
  <2> HIDE DEF S
  <2> QED
    BY <1>3, <2>1
<1> QED
  BY <1>4 DEF Feeds

LEMMA GetsIs ==
  ASSUME NEW X, NEW t, NEW s \in Seq(X), NEW w, Feeds(w, t, s)
  PROVE  Gets(t, s) = w[Len(s)]
<1> DEFINE Step(h) == [i \in 0..Len(s) |-> IF i = 0 THEN t ELSE Feed(h[i - 1], s[i])]
           all == CHOOSE h : h = Step(h)
           v == [i \in 0..Len(s) |-> w[i]]
<1>1. Len(s) \in Nat
  OBVIOUS
<1>2. v = Step(v)
  <2>1. ASSUME NEW i \in 0..Len(s) PROVE v[i] = Step(v)[i]
    <3>1. CASE i = 0
      BY <1>1, <3>1 DEF Feeds
    <3>2. CASE i # 0
      <4>1. i \in 1..Len(s) /\ i - 1 \in 0..Len(s)
        BY <1>1, <3>2
      <4> QED
        BY <3>2, <4>1 DEF Feeds
    <3> QED
      BY <3>1, <3>2
  <2> QED
    BY <2>1
<1>3. all = Step(all)
  <2> HIDE DEF Step, v
  <2> QED
    BY <1>2
<1>4. Gets(t, s) = all[Len(s)]
  BY DEF Gets
<1>5. all[0] = t /\ \A i \in 1..Len(s) : all[i] = Feed(all[i - 1], s[i])
  <2> HIDE DEF all
  <2>1. all[0] = t
    BY <1>1, <1>3
  <2>2. ASSUME NEW i \in 1..Len(s) PROVE all[i] = Feed(all[i - 1], s[i])
    <3>1. i \in 0..Len(s) /\ i # 0
      BY <1>1
    <3>2. all[i] = Step(all)[i]
      BY <1>3
    <3> QED
      BY <3>1, <3>2
  <2> QED
    BY <2>1, <2>2
<1> HIDE DEF all
<1> DEFINE S == {k \in Nat : k <= Len(s) => all[k] = w[k]}
<1>6. 0 \in S
  BY <1>5 DEF Feeds
<1>7. ASSUME NEW k \in Nat, k \in S PROVE k + 1 \in S
  <2> SUFFICES ASSUME k + 1 <= Len(s) PROVE all[k + 1] = w[k + 1]
    OBVIOUS
  <2>1. k + 1 \in 1..Len(s) /\ k + 1 - 1 = k /\ k <= Len(s)
    BY <1>1
  <2>2. all[k + 1] = Feed(all[k + 1 - 1], s[k + 1])
    BY <1>5, <2>1
  <2>3. w[k + 1] = Feed(w[k + 1 - 1], s[k + 1])
    BY <2>1 DEF Feeds
  <2>4. all[k] = w[k]
    BY <1>7, <2>1
  <2> QED
    BY <2>1, <2>2, <2>3, <2>4
<1>8. \A k \in Nat : k \in S
  <2> HIDE DEF S
  <2> QED
    BY <1>6, <1>7, SetInduction
<1> QED
  BY <1>1, <1>4, <1>8

LEMMA GetsNone == \A t : Gets(t, <<>>) = t
<1> TAKE t
<1> DEFINE w == [i \in {0} |-> t]
<1>1. PICK s \in Seq({}) : s = <<>> /\ Len(s) = 0
  <2>1. <<>> \in Seq({}) /\ Len(<<>>) = 0
    OBVIOUS
  <2> QED
    BY <2>1
<1>2. w[0] = t
  OBVIOUS
<1> HIDE DEF w
<1>3. Feeds(w, t, s)
  BY <1>1, <1>2 DEF Feeds
<1>4. Gets(t, s) = w[Len(s)]
  BY <1>3, GetsIs
<1> QED
  BY <1>1, <1>2, <1>4

LEMMA GetsOne == \A t, c : Gets(t, <<c>>) = Feed(t, c)
<1> TAKE t, c
<1> DEFINE w == [i \in 0..1 |-> IF i = 0 THEN t ELSE Feed(t, c)]
<1>1. <<c>> \in Seq({c}) /\ Len(<<c>>) = 1 /\ <<c>>[1] = c
  OBVIOUS
<1>2. w[0] = t /\ w[1] = Feed(t, c)
  OBVIOUS
<1> HIDE DEF w
<1>3. Feeds(w, t, <<c>>)
  BY <1>1, <1>2 DEF Feeds
<1>4. Gets(t, <<c>>) = w[Len(<<c>>)]
  BY <1>1, <1>3, GetsIs
<1> QED
  BY <1>1, <1>2, <1>4

\* First the one sequence, then the other.
LEMMA GetsJoin ==
  ASSUME NEW X, NEW t, NEW a \in Seq(X), NEW b \in Seq(X)
  PROVE  Gets(t, a \o b) = Gets(Gets(t, a), b)
<1>1. /\ Len(a) \in Nat /\ Len(b) \in Nat
      /\ a \o b \in Seq(X) /\ Len(a \o b) = Len(a) + Len(b)
      /\ \A i \in 1..Len(a) : (a \o b)[i] = a[i]
      /\ \A i \in 1..Len(b) : (a \o b)[Len(a) + i] = b[i]
  OBVIOUS
<1>2. PICK w : Feeds(w, t, a \o b)
  BY <1>1, FeedsExist
<1>3. Gets(t, a \o b) = w[Len(a) + Len(b)]
  <2> DEFINE s == a \o b
  <2>2. s \in Seq(X) /\ Feeds(w, t, s) /\ Len(s) = Len(a) + Len(b)
    BY <1>1, <1>2
  <2> HIDE DEF s
  <2>3. Gets(t, s) = w[Len(s)]
    BY <2>2, GetsIs
  <2> QED
    BY <2>2, <2>3 DEF s
<1>4. Gets(t, a) = w[Len(a)]
  <2>1. Feeds(w, t, a)
    <3>1. ASSUME NEW i \in 1..Len(a) PROVE w[i] = Feed(w[i - 1], a[i])
      <4>1. i \in 1..Len(a \o b)
        BY <1>1
      <4> QED
        BY <1>1, <1>2, <4>1 DEF Feeds
    <3> QED
      BY <1>2, <3>1 DEF Feeds
  <2> QED
    BY <2>1, GetsIs
<1> DEFINE v == [i \in 0..Len(b) |-> w[Len(a) + i]]
<1>5. Feeds(v, w[Len(a)], b)
  <2>1. v[0] = w[Len(a)]
    BY <1>1
  <2>2. ASSUME NEW i \in 1..Len(b) PROVE v[i] = Feed(v[i - 1], b[i])
    <3>1. /\ Len(a) + i \in 1..Len(a \o b) /\ Len(a) + i - 1 = Len(a) + (i - 1)
          /\ i \in 0..Len(b) /\ i - 1 \in 0..Len(b)
      BY <1>1
    <3>2. w[Len(a) + i] = Feed(w[Len(a) + i - 1], (a \o b)[Len(a) + i])
      BY <1>2, <3>1 DEF Feeds
    <3> QED
      BY <1>1, <3>1, <3>2
  <2> HIDE DEF v
  <2> QED
    BY <2>1, <2>2 DEF Feeds
<1>6. v[Len(b)] = w[Len(a) + Len(b)]
  BY <1>1
<1> HIDE DEF v
<1>7. Gets(w[Len(a)], b) = v[Len(b)]
  BY <1>5, GetsIs
<1> QED
  BY <1>3, <1>4, <1>6, <1>7

-----------------------------------------------------------------------------
(* One character.                                                          *)

Term(m, ns, d, k) == [mode |-> m, numbers |-> ns, did |-> d, shown |-> k]

LEMMA DigitChars ==
  /\ DigitChar[1] = "0" /\ DigitChar[2] = "1" /\ DigitChar[3] = "2" /\ DigitChar[4] = "3"
  /\ DigitChar[5] = "4" /\ DigitChar[6] = "5" /\ DigitChar[7] = "6" /\ DigitChar[8] = "7"
  /\ DigitChar[9] = "8" /\ DigitChar[10] = "9" /\ DOMAIN DigitChar = 1..10
BY DEF DigitChar

LEMMA DigitFacts ==
  ASSUME NEW v \in 0..9
  PROVE  /\ IsDigit(DigitChar[v + 1]) /\ Value(DigitChar[v + 1]) = v
         /\ DigitChar[v + 1] # ";"
<1>1. v \in {0, 1, 2, 3, 4, 5, 6, 7, 8, 9}
  OBVIOUS
<1>3. \A i, j \in 0..9 : DigitChar[i + 1] = DigitChar[j + 1] => i = j
  <2> TAKE i, j \in 0..9
  <2>1. /\ i \in {0, 1, 2, 3, 4, 5, 6, 7, 8, 9}
        /\ j \in {0, 1, 2, 3, 4, 5, 6, 7, 8, 9}
    OBVIOUS
  <2> QED
    BY <2>1, DigitChars
<1>4. DigitChar[v + 1] # ";"
  <2>1. \A i \in 1..10 : DigitChar[i] # ";"
    <3> TAKE i \in 1..10
    <3>1. i \in {1, 2, 3, 4, 5, 6, 7, 8, 9, 10}
      OBVIOUS
    <3> QED
      BY <3>1, DigitChars
  <2>2. v + 1 \in 1..10
    OBVIOUS
  <2> QED
    BY <2>1, <2>2
<1>5. IsDigit(DigitChar[v + 1])
  BY DigitChars DEF IsDigit, ToSet
<1>6. Value(DigitChar[v + 1]) = v
  BY <1>3 DEF Value
<1> QED
  BY <1>4, <1>5, <1>6

Letters == {"A", "B", "C", "D", "H", "J", "K", "m"}

LEMMA LetterFacts ==
  ~IsDigit(";") /\ \A c \in Letters : ~IsDigit(c) /\ c # ";"
<1>1. ToSet(DigitChar) = {"0", "1", "2", "3", "4", "5", "6", "7", "8", "9"}
  <2>1. \A i \in 1..10 : i \in {1, 2, 3, 4, 5, 6, 7, 8, 9, 10}
    OBVIOUS
  <2> QED
    BY <2>1, DigitChars DEF ToSet
<1> QED
  BY <1>1 DEF IsDigit, Letters

LEMMA EntersIs ==
  ASSUME NEW m, NEW mode, NEW ns, NEW d, NEW k
  PROVE  Enters(Term(m, ns, d, k), mode)
           = Term(mode, IF mode \in {"numbers", "line"} THEN <<0>> ELSE <<>>, d, k)
<1> DEFINE new == IF mode \in {"numbers", "line"} THEN <<0>> ELSE <<>>
           t == Term(m, ns, d, k)
<1> HIDE DEF new
<1>1. [t EXCEPT !.mode = mode] = Term(mode, ns, d, k)
  BY DEF Term
<1>2. [Term(mode, ns, d, k) EXCEPT !.numbers = new] = Term(mode, new, d, k)
  BY DEF Term
<1>3. Enters(t, mode) = [t EXCEPT !.mode = mode, !.numbers = new]
  BY DEF Enters, new
<1> HIDE DEF t
<1>4. Enters(t, mode) = [[t EXCEPT !.mode = mode] EXCEPT !.numbers = new]
  BY <1>3
<1> QED
  BY <1>1, <1>2, <1>4 DEF new, t

LEMMA DoesIs ==
  ASSUME NEW c, NEW m, NEW ns, NEW d, NEW k
  PROVE  Does(Term(m, ns, d, k), c) = Term("text", <<>>, Append(d, Command(c, ns)), k)
<1>1. [Term(m, ns, d, k) EXCEPT !.did = Append(@, Command(c, ns))]
        = Term(m, ns, Append(d, Command(c, ns)), k)
  <2> DEFINE x == Append(d, Command(c, ns))
             t == Term(m, ns, d, k)
  <2>1. t.did = d
    BY DEF Term
  <2>2. Append(t.did, Command(c, ns)) = x
    BY <2>1
  <2> HIDE DEF x
  <2>3. [t EXCEPT !.did = x] = Term(m, ns, x, k)
    BY DEF Term
  <2> HIDE DEF t
  <2>4. [t EXCEPT !.did = Append(@, Command(c, ns))] = [t EXCEPT !.did = x]
    BY <2>2
  <2> QED
    BY <2>3, <2>4 DEF t, x
<1>2. Term(m, ns, d, k).numbers = ns
  BY DEF Term
<1>3. Does(Term(m, ns, d, k), c) = Enters(Term(m, ns, Append(d, Command(c, ns)), k), "text")
  BY <1>1, <1>2 DEF Does
<1> QED
  BY <1>3, EntersIs

LEMMA FeedPlain ==
  \A d, k : Feed(Term("text", <<>>, d, k), "x") = Term("text", <<>>, d, k + 1)
BY DEF Feed, Term, Esc

LEMMA FeedEsc ==
  \A d, k : Feed(Term("text", <<>>, d, k), Esc) = Term("escape", <<>>, d, k)
<1> TAKE d, k
<1>1. Feed(Term("text", <<>>, d, k), Esc) = Enters(Term("text", <<>>, d, k), "escape")
  BY DEF Feed, Term
<1> QED
  BY <1>1, EntersIs

LEMMA FeedBracket ==
  \A d, k : Feed(Term("escape", <<>>, d, k), "[") = Term("numbers", <<0>>, d, k)
<1> TAKE d, k
<1>1. Feed(Term("escape", <<>>, d, k), "[") = Enters(Term("escape", <<>>, d, k), "numbers")
  BY DEF Feed, InEscape, Term
<1> QED
  BY <1>1, EntersIs

LEMMA FeedHash ==
  \A d, k : Feed(Term("escape", <<>>, d, k), "#") = Term("line", <<0>>, d, k)
<1> TAKE d, k
<1>1. Feed(Term("escape", <<>>, d, k), "#") = Enters(Term("escape", <<>>, d, k), "line")
  BY DEF Feed, InEscape, Term
<1> QED
  BY <1>1, EntersIs

LEMMA FeedSimple ==
  \A d, k : \A c \in {"7", "8", "D", "M", "<"} :
    Feed(Term("escape", <<>>, d, k), c) = Term("text", <<>>, Append(d, Command(c, <<>>)), k)
<1> TAKE d, k
<1> TAKE c \in {"7", "8", "D", "M", "<"}
<1>1. Feed(Term("escape", <<>>, d, k), c) = Does(Term("escape", <<>>, d, k), c)
  BY DEF Feed, InEscape, Term
<1> QED
  BY <1>1, DoesIs

\* A sequence the terminal does not know.
LEMMA FeedUnknown ==
  \A d, k : Feed(Term("escape", <<>>, d, k), "m") = Term("text", <<>>, d, k)
<1> TAKE d, k
<1>1. Feed(Term("escape", <<>>, d, k), "m") = Enters(Term("escape", <<>>, d, k), "text")
  BY DEF Feed, InEscape, Term
<1> QED
  BY <1>1, EntersIs

LEMMA FeedSeparator ==
  \A ns, d, k : Feed(Term("numbers", ns, d, k), ";") = Term("numbers", Append(ns, 0), d, k)
<1> TAKE ns, d, k
<1> DEFINE t == Term("numbers", ns, d, k)
<1>1. t.mode = "numbers" /\ t.numbers = ns
  BY DEF Term
<1>2. \A new : [t EXCEPT !.numbers = new] = Term("numbers", new, d, k)
  BY DEF Term
<1> HIDE DEF t
<1>3. Feed(t, ";") = InNumbers(t, ";")
  BY <1>1 DEF Feed
<1>4. InNumbers(t, ";") = [t EXCEPT !.numbers = Append(t.numbers, 0)]
  BY LetterFacts DEF InNumbers
<1> QED
  BY <1>1, <1>2, <1>3, <1>4 DEF t

\* A number with one more digit.
Longer(m, v) == 10 * m + v

LEMMA FeedDigit ==
  ASSUME NEW ns \in Seq(Nat), NEW m \in Nat, NEW v \in 0..9, NEW d, NEW k
  PROVE  Feed(Term("numbers", Append(ns, m), d, k), DigitChar[v + 1])
           = Term("numbers", Append(ns, Longer(m, v)), d, k)
<1> DEFINE c == DigitChar[v + 1]
           t == Term("numbers", Append(ns, m), d, k)
<1>1. IsDigit(c) /\ Value(c) = v /\ c # ";"
  BY DigitFacts
<1>2. t.mode = "numbers" /\ t.numbers = Append(ns, m)
  BY DEF Term
<1>3. \A new : [t EXCEPT !.numbers = new] = Term("numbers", new, d, k)
  BY DEF Term
<1> HIDE DEF c, t
<1>4. Feed(t, c) = InNumbers(t, c)
  BY <1>2 DEF Feed
<1>5. InNumbers(t, c) = AddDigit(t, c)
  BY <1>1 DEF InNumbers
<1>6. AddDigit(t, c) = [t EXCEPT !.numbers = Append(Front(t.numbers), 10 * Last(t.numbers) + v)]
  BY <1>1 DEF AddDigit
<1>7. Front(Append(ns, m)) = ns /\ Last(Append(ns, m)) = m
  <2> DEFINE q == Append(ns, m)
  <2>1. Len(q) = Len(ns) + 1 /\ q[Len(ns) + 1] = m
    OBVIOUS
  <2>2. SubSeq(q, 1, Len(ns)) = ns
    OBVIOUS
  <2>3. Len(q) - 1 = Len(ns)
    BY <2>1
  <2> HIDE DEF q
  <2> QED
    BY <2>1, <2>2, <2>3 DEF Front, Last, q
<1> QED
  BY <1>2, <1>3, <1>4, <1>5, <1>6, <1>7 DEF c, t, Longer

LEMMA FeedLine ==
  ASSUME NEW v \in 0..9, NEW d, NEW k
  PROVE  Feed(Term("line", <<0>>, d, k), DigitChar[v + 1])
           = Term("text", <<>>, Append(d, Command("#", <<v>>)), k)
<1> DEFINE c == DigitChar[v + 1]
           t == Term("line", <<0>>, d, k)
<1>1. IsDigit(c) /\ Value(c) = v
  BY DigitFacts
<1> HIDE DEF c
<1>2. Feed(t, c) = Does(AddDigit(t, c), "#")
  BY <1>1 DEF Feed, Term
<1>3. Append(Front(<<0>>), 10 * Last(<<0>>) + v) = <<v>>
  <2>1. Last(<<0>>) = 0 /\ Front(<<0>>) = <<>>
    BY DEF Front, Last
  <2>2. 10 * 0 + v = v /\ Append(<<>>, v) = <<v>>
    OBVIOUS
  <2> QED
    BY <2>1, <2>2
<1>4. AddDigit(t, c) = Term("line", <<v>>, d, k)
  <2>1. t.numbers = <<0>>
    BY DEF Term
  <2>2. \A new : [t EXCEPT !.numbers = new] = Term("line", new, d, k)
    BY DEF Term
  <2> HIDE DEF t
  <2>3. AddDigit(t, c) = [t EXCEPT !.numbers = Append(Front(t.numbers), 10 * Last(t.numbers) + v)]
    BY <1>1 DEF AddDigit
  <2> QED
    BY <1>3, <2>1, <2>2, <2>3
<1>5. Does(AddDigit(t, c), "#") = Term("text", <<>>, Append(d, Command("#", <<v>>)), k)
  BY <1>4, DoesIs
<1> QED
  BY <1>2, <1>5 DEF c

LEMMA FeedLetter ==
  ASSUME NEW c \in Letters, NEW ns, NEW d, NEW k
  PROVE  Feed(Term("numbers", ns, d, k), c) = Term("text", <<>>, Append(d, Command(c, ns)), k)
<1>1. ~IsDigit(c) /\ c # ";"
  BY LetterFacts
<1>2. Feed(Term("numbers", ns, d, k), c) = Does(Term("numbers", ns, d, k), c)
  BY <1>1 DEF Feed, InNumbers, Term
<1> QED
  BY <1>2, DoesIs

-----------------------------------------------------------------------------
(* The commands of the library.                                            *)

\* What the library sends.
Characters ==
  {"0", "1", "2", "3", "4", "5", "6", "7", "8", "9", "[", ";", "#", "<", "M", Esc} \cup Letters

LEMMA CharacterFacts ==
  /\ \A v \in 0..9 : DigitChar[v + 1] \in Characters
  /\ {"[", ";", "#", Esc, "<", "7", "8", "D", "M"} \subseteq Characters
  /\ Letters \subseteq Characters
<1>1. ASSUME NEW v \in 0..9 PROVE DigitChar[v + 1] \in Characters
  <2>1. \A i \in 1..10 : i \in {1, 2, 3, 4, 5, 6, 7, 8, 9, 10}
    OBVIOUS
  <2>2. \A i \in 1..10 : DigitChar[i] \in Characters
    BY <2>1, DigitChars DEF Characters
  <2>3. v + 1 \in 1..10
    OBVIOUS
  <2> QED
    BY <2>2, <2>3
<1> QED
  BY <1>1 DEF Characters, Letters

\* One character, two and three.
Only(c) == <<c>>

LEMMA OnlyFacts ==
  ASSUME NEW X, NEW x \in X
  PROVE  Only(x) \in Seq(X) /\ Len(Only(x)) = 1 /\ Only(x)[1] = x
BY DEF Only

LEMMA Two ==
  ASSUME NEW X, NEW x \in X, NEW y \in X
  PROVE  <<x, y>> = Only(x) \o Only(y) /\ Append(Only(x), y) = <<x, y>>
<1> DEFINE a == Only(x)
           b == Only(y)
           c == <<x, y>>
           s == a \o b
<1>1. c \in Seq(X) /\ Len(c) = 2 /\ c[1] = x /\ c[2] = y
  OBVIOUS
<1>2. a \in Seq(X) /\ Len(a) = 1 /\ a[1] = x
  BY OnlyFacts
<1>3. b \in Seq(X) /\ Len(b) = 1 /\ b[1] = y
  BY OnlyFacts
<1>4. Append(a, y) = c
  <2> DEFINE u == Append(a, y)
  <2> HIDE DEF a, c
  <2>1. u \in Seq(X) /\ Len(u) = 2 /\ u[1] = x /\ u[2] = y
    <3>1. a \in Seq(X) /\ y \in X
      BY <1>2
    <3> HIDE DEF u
    <3>2. /\ u \in Seq(X) /\ Len(u) = Len(a) + 1
          /\ \A i \in 1..Len(a) : u[i] = a[i]
          /\ u[Len(a) + 1] = y
      BY <3>1, AppendProperties DEF u
    <3> QED
      BY <1>2, <3>2
  <2> HIDE DEF u
  <2>2. \A i \in 1..2 : u[i] = c[i]
    BY <1>1, <2>1
  <2>3. u = c
    BY <1>1, <2>1, <2>2, SeqEqual
  <2> QED
    BY <2>3 DEF u
<1> HIDE DEF a, b, c
<1>5. s \in Seq(X) /\ Len(s) = Len(a) + Len(b)
  BY <1>2, <1>3, ConcatProperties
<1>6. \A i \in 1..(Len(a) + Len(b)) : s[i] = IF i <= Len(a) THEN a[i] ELSE b[i - Len(a)]
  BY <1>2, <1>3, ConcatProperties
<1> HIDE DEF s
<1>7. c = s
  <2>1. \A i \in 1..2 : s[i] = c[i]
    BY <1>1, <1>2, <1>3, <1>6
  <2> QED
    BY <1>1, <1>2, <1>3, <1>5, <2>1, SeqEqual
<1> QED
  BY <1>4, <1>7 DEF a, b, c, s

LEMMA Three ==
  ASSUME NEW X, NEW x \in X, NEW y \in X, NEW z \in X
  PROVE  <<x, y, z>> = (Only(x) \o Only(y)) \o Only(z)
<1> DEFINE a == Only(x) \o Only(y)
           b == Only(z)
           c == <<x, y, z>>
           s == a \o b
<1>1. c \in Seq(X) /\ Len(c) = 3 /\ c[1] = x /\ c[2] = y /\ c[3] = z
  OBVIOUS
<1>2. a \in Seq(X) /\ Len(a) = 2 /\ a[1] = x /\ a[2] = y
  <2>1. a = <<x, y>>
    BY Two
  <2> HIDE DEF a
  <2> QED
    BY <2>1
<1>3. b \in Seq(X) /\ Len(b) = 1 /\ b[1] = z
  BY OnlyFacts
<1> HIDE DEF a, b, c
<1>4. s \in Seq(X) /\ Len(s) = Len(a) + Len(b)
  BY <1>2, <1>3, ConcatProperties
<1>5. \A i \in 1..(Len(a) + Len(b)) : s[i] = IF i <= Len(a) THEN a[i] ELSE b[i - Len(a)]
  BY <1>2, <1>3, ConcatProperties
<1> HIDE DEF s
<1>6. c = s
  <2>1. \A i \in 1..3 : s[i] = c[i]
    BY <1>1, <1>2, <1>3, <1>5
  <2> QED
    BY <1>1, <1>2, <1>3, <1>4, <2>1, SeqEqual
<1> QED
  BY <1>6 DEF a, b, c, s

LEMMA OnlyFed ==
  ASSUME NEW t, NEW c \in Characters
  PROVE  Only(c) \in Seq(Characters) /\ Gets(t, Only(c)) = Feed(t, c)
BY GetsOne DEF Only

\* One sequence behind the other,
LEMMA Both ==
  ASSUME NEW t, NEW a \in Seq(Characters), NEW b \in Seq(Characters)
  PROVE  a \o b \in Seq(Characters) /\ Gets(t, a \o b) = Gets(Gets(t, a), b)
<1>1. a \o b \in Seq(Characters)
  OBVIOUS
<1>2. Gets(t, a \o b) = Gets(Gets(t, a), b)
  BY GetsJoin
<1> QED
  BY <1>1, <1>2

\* and one character.
LEMMA Then ==
  ASSUME NEW t, NEW a \in Seq(Characters), NEW c \in Characters
  PROVE  a \o Only(c) \in Seq(Characters) /\ Gets(t, a \o Only(c)) = Feed(Gets(t, a), c)
<1>1. Only(c) \in Seq(Characters)
  BY OnlyFed
<1>2. a \o Only(c) \in Seq(Characters) /\ Gets(t, a \o Only(c)) = Gets(Gets(t, a), Only(c))
  BY <1>1, Both
<1> QED
  BY <1>2, OnlyFed

\* Behind the escape character.
LEMMA Escaped ==
  ASSUME NEW k, NEW cmd \in Seq(Characters)
  PROVE  Gets(Term("text", <<>>, <<>>, k), <<Esc>> \o cmd)
           = Gets(Term("escape", <<>>, <<>>, k), cmd)
<1> DEFINE t == Term("text", <<>>, <<>>, k)
<1>1. Only(Esc) \in Seq(Characters) /\ Gets(t, Only(Esc)) = Term("escape", <<>>, <<>>, k)
  <2>1. Esc \in Characters
    BY CharacterFacts
  <2> QED
    BY <2>1, OnlyFed, FeedEsc
<1> HIDE DEF t
<1>2. Gets(t, Only(Esc) \o cmd) = Gets(Gets(t, Only(Esc)), cmd)
  BY <1>1, Both
<1> QED
  BY <1>1, <1>2 DEF Only, t

\* The terminal reads v where it has begun a number,
ReadsNumber(ns, v, d, k) ==
  /\ Decimal(v) \in Seq(Characters)
  /\ Gets(Term("numbers", Append(ns, 0), d, k), Decimal(v))
       = Term("numbers", Append(ns, v), d, k)

\* which three places show, for v is a byte.
LEMMA DecimalFed ==
  ASSUME NEW ns \in Seq(Nat), NEW v \in 0..255, NEW d, NEW k
  PROVE  ReadsNumber(ns, v, d, k)
<1> DEFINE h == v \div 100
           z == (v % 100) \div 10
           e == v % 10
           hz == 10 * h + z
<1>1. /\ h \in 0..9 /\ z \in 0..9 /\ e \in 0..9
      /\ h = Longer(0, h) /\ hz = Longer(h, z) /\ v = Longer(hz, e)
      /\ hz \in Nat /\ h \in Nat /\ 0 \in Nat
  BY DEF Longer
<1>2. Decimal(v) = <<DigitChar[h + 1], DigitChar[z + 1], DigitChar[e + 1]>>
  BY DEF Decimal
<1> HIDE DEF h, z, e, hz
<1> DEFINE a == DigitChar[h + 1]
           b == DigitChar[z + 1]
           c == DigitChar[e + 1]
           t == Term("numbers", Append(ns, 0), d, k)
<1>3. a \in Characters /\ b \in Characters /\ c \in Characters
  BY <1>1, CharacterFacts
<1>4. Feed(t, a) = Term("numbers", Append(ns, h), d, k)
  <2>1. Feed(t, a) = Term("numbers", Append(ns, Longer(0, h)), d, k)
    <3>1. 0 \in Nat /\ h \in 0..9
      BY <1>1
    <3> QED
      BY <3>1, FeedDigit
  <2> QED
    BY <1>1, <2>1
<1>5. Feed(Term("numbers", Append(ns, h), d, k), b) = Term("numbers", Append(ns, hz), d, k)
  <2>1. Feed(Term("numbers", Append(ns, h), d, k), b)
          = Term("numbers", Append(ns, Longer(h, z)), d, k)
    <3>1. h \in Nat /\ z \in 0..9
      BY <1>1
    <3> QED
      BY <3>1, FeedDigit
  <2> QED
    BY <1>1, <2>1
<1>6. Feed(Term("numbers", Append(ns, hz), d, k), c) = Term("numbers", Append(ns, v), d, k)
  <2>1. Feed(Term("numbers", Append(ns, hz), d, k), c)
          = Term("numbers", Append(ns, Longer(hz, e)), d, k)
    <3>1. hz \in Nat /\ e \in 0..9
      BY <1>1
    <3> QED
      BY <3>1, FeedDigit
  <2> QED
    BY <1>1, <2>1
<1> HIDE DEF a, b, c, t
<1> DEFINE s1 == Only(a)
           s2 == s1 \o Only(b)
           s3 == s2 \o Only(c)
<1>7. Decimal(v) = s3
  BY <1>2, <1>3 DEF a, b, c, Only
<1>8. s1 \in Seq(Characters) /\ Gets(t, s1) = Feed(t, a)
  BY <1>3, OnlyFed
<1> HIDE DEF s1
<1>9. s2 \in Seq(Characters) /\ Gets(t, s2) = Feed(Gets(t, s1), b)
  BY <1>3, <1>8, Then
<1> HIDE DEF s2
<1>10. s3 \in Seq(Characters) /\ Gets(t, s3) = Feed(Gets(t, s2), c)
  BY <1>3, <1>9, Then
<1> HIDE DEF s3
<1> QED
  BY <1>4, <1>5, <1>6, <1>7, <1>8, <1>9, <1>10 DEF ReadsNumber, t

\* What a call is to leave of the terminal.
Obeyed(did, meaning) ==
  \/ did = meaning
  \/ meaning = <<Command("J", <<1>>)>> /\ did = <<Command("J", <<0>>)>>

Obeys(t, meaning, k) ==
  t = Term("text", <<>>, t.did, k) /\ Obeyed(t.did, meaning)

\* A command is sent as the library does, and obeyed.
LEMMA SentObeys ==
  ASSUME NEW cmd \in Seq(Characters), NEW meaning, NEW k, NEW d,
         term = Term("text", <<>>, <<>>, k),
         term_sendCommand(cmd, meaning),
         Gets(Term("escape", <<>>, <<>>, k), cmd) = Term("text", <<>>, d, k),
         Obeyed(d, meaning)
  PROVE  Obeys(term', asked', k)
<1>1. term' = Gets(term, <<Esc>> \o cmd) /\ asked' = meaning
  BY DEF term_sendCommand
<1>2. term' = Term("text", <<>>, d, k)
  BY <1>1, Escaped
<1>3. Term("text", <<>>, d, k).did = d
  BY DEF Term
<1> QED
  BY <1>1, <1>2, <1>3 DEF Obeys

LEMMA BracketFed ==
  ASSUME NEW k
  PROVE  /\ Only("[") \in Seq(Characters)
         /\ Gets(Term("escape", <<>>, <<>>, k), Only("[")) = Term("numbers", <<0>>, <<>>, k)
<1>1. "[" \in Characters
  BY CharacterFacts
<1> QED
  BY <1>1, OnlyFed, FeedBracket

\* The first number.
LEMMA FirstFed ==
  ASSUME NEW v \in 0..255, NEW k
  PROVE  /\ Only("[") \o Decimal(v) \in Seq(Characters)
         /\ Gets(Term("escape", <<>>, <<>>, k), Only("[") \o Decimal(v))
              = Term("numbers", <<v>>, <<>>, k)
<1> DEFINE t == Term("escape", <<>>, <<>>, k)
<1>1. PICK ns \in Seq(Nat) : Append(ns, 0) = <<0>> /\ Append(ns, v) = <<v>>
  <2>1. <<>> \in Seq(Nat) /\ Append(<<>>, 0) = <<0>> /\ Append(<<>>, v) = <<v>>
    OBVIOUS
  <2> QED
    BY <2>1
<1>2. /\ Decimal(v) \in Seq(Characters)
      /\ Gets(Term("numbers", Append(ns, 0), <<>>, k), Decimal(v))
           = Term("numbers", Append(ns, v), <<>>, k)
  <2>1. ReadsNumber(ns, v, <<>>, k)
    BY DecimalFed
  <2> QED
    BY <2>1 DEF ReadsNumber
<1>3. Only("[") \in Seq(Characters) /\ Gets(t, Only("[")) = Term("numbers", <<0>>, <<>>, k)
  BY BracketFed
<1> HIDE DEF t
<1>4. /\ Only("[") \o Decimal(v) \in Seq(Characters)
      /\ Gets(t, Only("[") \o Decimal(v)) = Gets(Gets(t, Only("[")), Decimal(v))
  BY <1>2, <1>3, Both
<1> QED
  BY <1>1, <1>2, <1>3, <1>4 DEF t

\* The letter at the end of a command with numbers.
LEMMA LetterFed ==
  ASSUME NEW s \in Seq(Characters), NEW c \in Letters, NEW t, NEW ns, NEW k,
         Gets(t, s) = Term("numbers", ns, <<>>, k)
  PROVE  /\ s \o Only(c) \in Seq(Characters)
         /\ Gets(t, s \o Only(c)) = Term("text", <<>>, <<Command(c, ns)>>, k)
<1>1. c \in Characters
  BY CharacterFacts
<1>2. s \o Only(c) \in Seq(Characters) /\ Gets(t, s \o Only(c)) = Feed(Gets(t, s), c)
  BY <1>1, Then
<1>3. Append(<<>>, Command(c, ns)) = <<Command(c, ns)>>
  OBVIOUS
<1>4. Feed(Term("numbers", ns, <<>>, k), c) = Term("text", <<>>, Append(<<>>, Command(c, ns)), k)
  BY FeedLetter
<1> QED
  BY <1>2, <1>3, <1>4

LEMMA DirectObeys ==
  ASSUME NEW column \in 0..255, NEW line \in 0..255, NEW k,
         term = Term("text", <<>>, <<>>, k), term_ANSIDirectCursorAddr(column, line)
  PROVE  Obeys(term', asked', k)
<1> DEFINE t  == Term("escape", <<>>, <<>>, k)
           s1 == Only("[") \o Decimal(line)
           s2 == s1 \o Only(";")
           s3 == s2 \o Decimal(column)
           s4 == s3 \o Only("H")
           meaning == <<Command("H", <<line, column>>)>>
<1>1. PICK ns \in Seq(Nat) : ns = <<line>>
  <2>1. line \in Nat
    OBVIOUS
  <2>2. <<line>> \in Seq(Nat)
    BY <2>1
  <2> QED
    BY <2>2
<1>2. Append(ns, column) = <<line, column>>
  <2>1. Append(<<line>>, column) = <<line, column>>
    BY Two DEF Only
  <2> HIDE DEF meaning
  <2> QED
    BY <1>1, <2>1
<1>3. term_sendCommand(s4, meaning)
  BY DEF term_ANSIDirectCursorAddr, Only
<1>4. s1 \in Seq(Characters) /\ Gets(t, s1) = Term("numbers", ns, <<>>, k)
  BY <1>1, FirstFed
<1>5. /\ Decimal(column) \in Seq(Characters)
      /\ Gets(Term("numbers", Append(ns, 0), <<>>, k), Decimal(column))
           = Term("numbers", Append(ns, column), <<>>, k)
  <2>1. ns \in Seq(Nat) /\ column \in 0..255
    OBVIOUS
  <2> HIDE DEF t, s1, s2, s3, s4, meaning
  <2>2. ReadsNumber(ns, column, <<>>, k)
    BY <2>1, DecimalFed
  <2> QED
    BY <2>2 DEF ReadsNumber
<1> HIDE DEF t, s1
<1>6. s2 \in Seq(Characters) /\ Gets(t, s2) = Term("numbers", Append(ns, 0), <<>>, k)
  <2>1. ";" \in Characters
    BY CharacterFacts
  <2>2. s2 \in Seq(Characters) /\ Gets(t, s2) = Feed(Gets(t, s1), ";")
    BY <1>4, <2>1, Then
  <2>3. Feed(Term("numbers", ns, <<>>, k), ";") = Term("numbers", Append(ns, 0), <<>>, k)
    BY FeedSeparator
  <2> QED
    BY <1>4, <2>2, <2>3
<1> HIDE DEF s2
<1>7. s3 \in Seq(Characters) /\ Gets(t, s3) = Term("numbers", <<line, column>>, <<>>, k)
  <2>1. s3 \in Seq(Characters) /\ Gets(t, s3) = Gets(Gets(t, s2), Decimal(column))
    BY <1>5, <1>6, Both
  <2> QED
    BY <1>2, <1>5, <1>6, <2>1
<1> HIDE DEF s3
<1>8. "H" \in Letters
  BY DEF Letters
<1>9. s4 \in Seq(Characters) /\ Gets(t, s4) = Term("text", <<>>, meaning, k)
  BY <1>7, <1>8, LetterFed
<1> HIDE DEF s4, meaning
<1> QED
  BY <1>3, <1>9, SentObeys DEF Obeyed, t

LEMMA MoveObeys ==
  ASSUME NEW spaces \in 0..255, NEW dir \in DOMAIN DirLetter, NEW k,
         term = Term("text", <<>>, <<>>, k), term_ANSICursorMove(spaces, dir)
  PROVE  Obeys(term', asked', k)
<1> DEFINE t == Term("escape", <<>>, <<>>, k)
           c == DirLetter[dir]
           s == Only("[") \o Decimal(spaces)
           cmd == s \o Only(c)
           meaning == <<Command(c, <<spaces>>)>>
<1>1. c \in Letters
  BY DEF DirLetter, Letters
<1>2. term_sendCommand(cmd, meaning)
  BY DEF term_ANSICursorMove, Only
<1>3. s \in Seq(Characters) /\ Gets(t, s) = Term("numbers", <<spaces>>, <<>>, k)
  BY FirstFed
<1> HIDE DEF c, s, t
<1>4. cmd \in Seq(Characters) /\ Gets(t, cmd) = Term("text", <<>>, meaning, k)
  BY <1>1, <1>3, LetterFed
<1> HIDE DEF cmd, meaning
<1> QED
  BY <1>2, <1>4, SentObeys DEF Obeyed, t

\* A command with one number of one place.
LEMMA DigitObeys ==
  ASSUME NEW v \in 0..9, NEW c \in Letters, NEW k
  PROVE  /\ <<"[", DigitChar[v + 1], c>> \in Seq(Characters)
         /\ Gets(Term("escape", <<>>, <<>>, k), <<"[", DigitChar[v + 1], c>>)
              = Term("text", <<>>, <<Command(c, <<v>>)>>, k)
<1> DEFINE t == Term("escape", <<>>, <<>>, k)
           b == DigitChar[v + 1]
           s == Only("[") \o Only(b)
<1>1. PICK ns \in Seq(Nat) : Append(ns, 0) = <<0>> /\ Append(ns, v) = <<v>>
  <2>1. <<>> \in Seq(Nat) /\ Append(<<>>, 0) = <<0>> /\ Append(<<>>, v) = <<v>>
    OBVIOUS
  <2> QED
    BY <2>1
<1>2. b \in Characters
  BY CharacterFacts
<1>3. Feed(Term("numbers", Append(ns, 0), <<>>, k), b) = Term("numbers", Append(ns, v), <<>>, k)
  <2>1. v = Longer(0, v) /\ 0 \in Nat
    BY DEF Longer
  <2>2. Feed(Term("numbers", Append(ns, 0), <<>>, k), b)
          = Term("numbers", Append(ns, Longer(0, v)), <<>>, k)
    BY <2>1, FeedDigit
  <2> QED
    BY <2>1, <2>2
<1>4. Only("[") \in Seq(Characters) /\ Gets(t, Only("[")) = Term("numbers", <<0>>, <<>>, k)
  BY BracketFed
<1> HIDE DEF t, b
<1>5. s \in Seq(Characters) /\ Gets(t, s) = Feed(Gets(t, Only("[")), b)
  BY <1>2, <1>4, Then
<1>6. Gets(t, s) = Term("numbers", <<v>>, <<>>, k)
  BY <1>1, <1>3, <1>4, <1>5
<1>7. s \o Only(c) = <<"[", b, c>>
  <2>1. "[" \in Characters /\ c \in Characters
    BY CharacterFacts
  <2>2. PICK x \in Characters : x = "["
    BY <2>1
  <2>3. <<x, b, c>> = (Only(x) \o Only(b)) \o Only(c)
    BY <1>2, <2>1, Three
  <2> QED
    BY <2>2, <2>3
<1> HIDE DEF s
<1>8. /\ s \o Only(c) \in Seq(Characters)
      /\ Gets(t, s \o Only(c)) = Term("text", <<>>, <<Command(c, <<v>>)>>, k)
  BY <1>5, <1>6, LetterFed
<1> QED
  BY <1>7, <1>8 DEF b, t

LEMMA ClrLineObeys ==
  ASSUME NEW dir \in DOMAIN Erased, NEW k,
         term = Term("text", <<>>, <<>>, k), term_ANSIClrLine(dir)
  PROVE  Obeys(term', asked', k)
<1> DEFINE v == Erased[dir]
           cmd == <<"[", DigitChar[v + 1], "K">>
           meaning == <<Command("K", <<v>>)>>
<1>1. v \in 0..9 /\ "K" \in Letters
  BY DEF Erased, Letters
<1>2. term_sendCommand(cmd, meaning)
  BY DEF term_ANSIClrLine
<1> HIDE DEF v
<1>3. /\ cmd \in Seq(Characters)
      /\ Gets(Term("escape", <<>>, <<>>, k), cmd) = Term("text", <<>>, meaning, k)
  BY <1>1, DigitObeys
<1> HIDE DEF cmd, meaning
<1> QED
  BY <1>2, <1>3, SentObeys DEF Obeyed

LEMMA ClrScrnObeys ==
  ASSUME NEW dir \in DOMAIN Erased, NEW k,
         term = Term("text", <<>>, <<>>, k), term_ANSIClrScrn(dir)
  PROVE  Obeys(term', asked', k)
<1> DEFINE v == IF dir = "all" THEN 2 ELSE 0
           cmd == <<"[", DigitChar[v + 1], "J">>
           d == <<Command("J", <<v>>)>>
           meaning == <<Command("J", <<Erased[dir]>>)>>
<1>1. v \in 0..9 /\ "J" \in Letters
  BY DEF Letters
<1>2. DigitChar[v + 1] = IF dir = "all" THEN "2" ELSE "0"
  BY DEF DigitChar
<1>3. term_sendCommand(cmd, meaning)
  BY <1>2 DEF term_ANSIClrScrn
<1>4. Obeyed(d, meaning)
  <2>1. /\ dir \in {"after", "before", "all"}
        /\ Erased[dir] = IF dir = "after" THEN 0 ELSE IF dir = "before" THEN 1 ELSE 2
    BY DEF Erased
  <2> QED
    BY <2>1 DEF Obeyed
<1> HIDE DEF v, meaning
<1>5. /\ cmd \in Seq(Characters)
      /\ Gets(Term("escape", <<>>, <<>>, k), cmd) = Term("text", <<>>, d, k)
  BY <1>1, DigitObeys
<1> HIDE DEF cmd, d
<1> QED
  BY <1>3, <1>4, <1>5, SentObeys DEF Obeyed

LEMMA LineModeObeys ==
  ASSUME NEW lm \in DOMAIN ModeDigit, NEW k,
         term = Term("text", <<>>, <<>>, k), term_ANSILineMode(lm)
  PROVE  Obeys(term', asked', k)
<1> DEFINE t == Term("escape", <<>>, <<>>, k)
           v == ModeDigit[lm]
           b == DigitChar[v + 1]
           cmd == Only("#") \o Only(b)
           meaning == <<Command("#", <<v>>)>>
<1>1. v \in 0..9
  BY DEF ModeDigit
<1>2. b \in Characters /\ "#" \in Characters
  <2> HIDE DEF v
  <2> QED
    BY <1>1, CharacterFacts
<1>3. term_sendCommand(cmd, meaning)
  <2>1. cmd = <<"#", b>>
    <3> HIDE DEF b
    <3> QED
      BY <1>2, Two
  <2> QED
    BY <2>1 DEF term_ANSILineMode
<1> HIDE DEF v
<1>4. Feed(Term("line", <<0>>, <<>>, k), b) = Term("text", <<>>, meaning, k)
  <2>1. Append(<<>>, Command("#", <<v>>)) = meaning
    OBVIOUS
  <2>2. Feed(Term("line", <<0>>, <<>>, k), b)
          = Term("text", <<>>, Append(<<>>, Command("#", <<v>>)), k)
    BY <1>1, FeedLine
  <2> QED
    BY <2>1, <2>2
<1>5. Only("#") \in Seq(Characters) /\ Gets(t, Only("#")) = Term("line", <<0>>, <<>>, k)
  BY <1>2, OnlyFed, FeedHash
<1> HIDE DEF b, t, meaning
<1>6. cmd \in Seq(Characters) /\ Gets(t, cmd) = Feed(Gets(t, Only("#")), b)
  BY <1>2, <1>5, Then
<1> HIDE DEF cmd
<1> QED
  BY <1>3, <1>4, <1>5, <1>6, SentObeys DEF Obeyed, t

LEMMA SimpleObeys ==
  ASSUME NEW c \in {"<", "7", "8", "D", "M"}, NEW k,
         term = Term("text", <<>>, <<>>, k), SimpleCommand(c)
  PROVE  Obeys(term', asked', k)
<1> DEFINE t == Term("escape", <<>>, <<>>, k)
           meaning == <<Command(c, <<>>)>>
<1>1. c \in Characters /\ c \in {"7", "8", "D", "M", "<"}
  BY CharacterFacts
<1>2. Only(c) \in Seq(Characters) /\ Gets(t, Only(c)) = Feed(t, c)
  BY <1>1, OnlyFed
<1>3. Feed(t, c) = Term("text", <<>>, meaning, k)
  <2>1. \A x : Append(<<>>, x) = <<x>>
    OBVIOUS
  <2>2. PICK d : d = <<>> /\ \A x : Append(d, x) = <<x>>
    BY <2>1
  <2>3. Feed(Term("escape", <<>>, d, k), c)
          = Term("text", <<>>, Append(d, Command(c, <<>>)), k)
    BY <1>1, FeedSimple
  <2> QED
    BY <2>2, <2>3
<1>4. term_sendCommand(Only(c), meaning)
  BY DEF SimpleCommand, Only
<1> HIDE DEF t, meaning
<1> QED
  BY <1>2, <1>3, <1>4, SentObeys DEF Obeyed, t

\* The attributes and their sequence.
LEMMA AttributesAre ==
  ASSUME NEW prm \in 0..255
  PROVE  Attributes(prm) \in Seq(0..9)
<1>1. \A mask, number : number \in 0..9 => Attribute(prm, mask, number) \in Seq(0..9)
  <2> TAKE mask, number
  <2> SUFFICES ASSUME number \in 0..9 PROVE Attribute(prm, mask, number) \in Seq(0..9)
    OBVIOUS
  <2>1. <<number>> \in Seq(0..9) /\ <<>> \in Seq(0..9)
    OBVIOUS
  <2> QED
    BY <2>1 DEF Attribute
<1>2. /\ Attribute(prm, 1, 0) \in Seq(0..9) /\ Attribute(prm, 2, 1) \in Seq(0..9)
      /\ Attribute(prm, 4, 4) \in Seq(0..9) /\ Attribute(prm, 8, 5) \in Seq(0..9)
      /\ Attribute(prm, 16, 7) \in Seq(0..9)
  BY <1>1
<1>3. \A a, b \in Seq(0..9) : a \o b \in Seq(0..9)
  OBVIOUS
<1> QED
  BY <1>2, <1>3 DEF Attributes

LEMMA ParamCmdIs ==
  ASSUME NEW attrs \in Seq(0..9)
  PROVE  /\ ParamCmd(attrs) \in Seq(Characters)
         /\ Len(ParamCmd(attrs)) = 2 * Len(attrs) + 1
         /\ \A j \in 1..Len(attrs) : ParamCmd(attrs)[2 * j] = DigitChar[attrs[j] + 1]
         /\ \A j \in 1..(Len(attrs) - 1) : ParamCmd(attrs)[2 * j + 1] = ";"
         /\ attrs # <<>> => ParamCmd(attrs)[1] = "["
         /\ ParamCmd(attrs)[2 * Len(attrs) + 1] = "m"
<1> DEFINE many == Len(attrs)
           s == ParamCmd(attrs)
<1>1. many \in Nat /\ (attrs # <<>> => many # 0) /\ \A j \in 1..many : attrs[j] \in 0..9
  OBVIOUS
<1>2. s = [i \in 1..(2 * many + 1) |-> IF i = 2 * many + 1 THEN "m" ELSE Template(attrs, i)]
  BY DEF ParamCmd
<1> HIDE DEF many, s
<1>3. s[2 * many + 1] = "m"
  BY <1>1, <1>2
<1>4. \A i \in 1..(2 * many) : s[i] = Template(attrs, i)
  BY <1>1, <1>2
<1>5. ASSUME NEW j \in 1..many PROVE s[2 * j] = DigitChar[attrs[j] + 1]
  <2>1. 2 * j \in 1..(2 * many) /\ 2 * j # 1 /\ (2 * j) % 2 = 0 /\ (2 * j) \div 2 = j
    BY <1>1
  <2> QED
    BY <1>4, <2>1 DEF Template
<1>6. ASSUME NEW j \in 1..(many - 1) PROVE s[2 * j + 1] = ";"
  <2>1. 2 * j + 1 \in 1..(2 * many) /\ 2 * j + 1 # 1 /\ (2 * j + 1) % 2 # 0
    BY <1>1
  <2> QED
    BY <1>4, <2>1 DEF Template
<1>7. attrs # <<>> => s[1] = "["
  <2>1. attrs # <<>> => 1 \in 1..(2 * many)
    BY <1>1
  <2> QED
    BY <1>4, <2>1 DEF Template
<1>8. ASSUME NEW i \in 1..(2 * many + 1) PROVE s[i] \in Characters
  <2>1. CASE i = 2 * many + 1
    BY <1>3, <2>1, CharacterFacts DEF Letters
  <2>2. CASE i # 2 * many + 1 /\ i = 1
    <3>1. i \in 1..(2 * many)
      BY <1>1, <2>2
    <3>2. s[i] = Template(attrs, i)
      BY <1>4, <3>1
    <3>3. Template(attrs, i) = "["
      BY <2>2 DEF Template
    <3> QED
      BY <3>2, <3>3, CharacterFacts
  <2>3. CASE i # 2 * many + 1 /\ i # 1 /\ i % 2 = 0
    <3>1. i \div 2 \in 1..many /\ i \in 1..(2 * many)
      BY <1>1, <2>3
    <3>2. attrs[i \div 2] \in 0..9
      BY <1>1, <3>1
    <3>3. s[i] = DigitChar[attrs[i \div 2] + 1]
      BY <1>4, <2>3, <3>1 DEF Template
    <3> QED
      BY <3>2, <3>3, CharacterFacts
  <2>4. CASE i # 2 * many + 1 /\ i # 1 /\ i % 2 # 0
    <3>1. i \in 1..(2 * many)
      BY <1>1, <2>4
    <3>2. s[i] = ";"
      BY <1>4, <2>4, <3>1 DEF Template
    <3> QED
      BY <3>2, CharacterFacts
  <2> QED
    BY <2>1, <2>2, <2>3, <2>4
<1>9. s \in Seq(Characters) /\ Len(s) = 2 * many + 1
  <2>1. s \in [1..(2 * many + 1) -> Characters]
    BY <1>2, <1>8
  <2>2. 2 * many + 1 \in Nat
    BY <1>1
  <2> QED
    BY <2>1, <2>2, LenProperties
<1> QED
  BY <1>3, <1>5, <1>6, <1>7, <1>9 DEF many, s

LEMMA SetParamObeys ==
  ASSUME NEW prm \in 0..255, NEW k,
         term = Term("text", <<>>, <<>>, k), term_ANSISetParam(prm)
  PROVE  Obeys(term', asked', k)
<1> DEFINE attrs == Attributes(prm)
           many == Len(attrs)
           s == ParamCmd(attrs)
           t == Term("escape", <<>>, <<>>, k)
           meaning == IF attrs = <<>> THEN <<>> ELSE <<Command("m", attrs)>>
<1>1. attrs \in Seq(0..9)
  BY AttributesAre
<1>2. term_sendCommand(s, meaning)
  BY DEF term_ANSISetParam
<1> HIDE DEF attrs
<1>3. /\ s \in Seq(Characters) /\ Len(s) = 2 * many + 1
      /\ \A j \in 1..many : s[2 * j] = DigitChar[attrs[j] + 1]
      /\ \A j \in 1..(many - 1) : s[2 * j + 1] = ";"
      /\ attrs # <<>> => s[1] = "["
      /\ s[2 * many + 1] = "m"
  BY <1>1, ParamCmdIs
<1>4. many \in Nat /\ (attrs = <<>> => many = 0) /\ (attrs # <<>> => many # 0)
  BY <1>1
<1> HIDE DEF s
<1>5. PICK w : Feeds(w, t, s)
  BY <1>3, FeedsExist
<1>6. /\ w[0] = t
      /\ \A j : \A i \in 1..(2 * many + 1) : j = i - 1 => w[i] = Feed(w[j], s[i])
      /\ Gets(t, s) = w[2 * many + 1]
  <2> HIDE DEF many, t
  <2>1. Gets(t, s) = w[Len(s)]
    <3>1. s \in Seq(Characters)
      BY <1>3
    <3> QED
      BY <1>5, <3>1, GetsIs
  <2>2. w[0] = t /\ \A i \in 1..Len(s) : w[i] = Feed(w[i - 1], s[i])
    BY <1>5 DEF Feeds
  <2> QED
    BY <1>3, <2>1, <2>2
<1>7. CASE attrs = <<>>
  <2>1. w[1] = Feed(w[0], "m") /\ Gets(t, s) = w[1]
    <3>1. 2 * many + 1 = 1 /\ 1 \in 1..(2 * many + 1) /\ 0 = 1 - 1
      BY <1>4, <1>7
    <3>2. w[1] = Feed(w[0], s[1])
      BY <1>6, <3>1
    <3> QED
      BY <1>3, <1>6, <3>1, <3>2
  <2>2. Gets(t, s) = Term("text", <<>>, <<>>, k)
    BY <1>6, <2>1, FeedUnknown
  <2>3. meaning = <<>>
    BY <1>7
  <2> HIDE DEF meaning
  <2> QED
    BY <1>2, <1>3, <2>2, <2>3, SentObeys DEF Obeyed, t
<1>8. CASE attrs # <<>>
  <2> DEFINE Q(j) == SubSeq(attrs, 1, j)
  <2>1. /\ \A j \in 0..many : Q(j) \in Seq(Nat)
        /\ \A j \in 0..(many - 1) : Append(Q(j), attrs[j + 1]) = Q(j + 1)
        /\ Append(Q(0), 0) = <<0>>
        /\ Q(many) = attrs
        /\ \A j \in 1..many : attrs[j] \in 0..9
    <3>1. attrs \in Seq(Nat)
      BY <1>1
    <3>2. \A j \in 0..many : Q(j) \in Seq(Nat)
      BY <3>1, <1>4
    <3>3. \A j \in 0..(many - 1) : Append(Q(j), attrs[j + 1]) = Q(j + 1)
      BY <3>1, <1>4
    <3>4. Q(0) = <<>>
      BY <3>1
    <3>5. Append(<<>>, 0) = <<0>>
      OBVIOUS
    <3>6. Q(many) = attrs
      BY <3>1
    <3>7. \A j \in 1..many : attrs[j] \in 0..9
      BY <1>1
    <3> HIDE DEF Q, many
    <3> QED
      BY <3>2, <3>3, <3>4, <3>5, <3>6, <3>7
  <2> HIDE DEF Q, many
  <2> DEFINE S == {j \in Nat : j < many => w[2 * j + 1] = Term("numbers", Append(Q(j), 0), <<>>, k)}
  <2>2. 0 \in S
    <3>1. w[1] = Feed(w[0], "[")
      <4>1. 1 \in 1..(2 * many + 1) /\ 0 = 1 - 1
        BY <1>4
      <4>2. w[1] = Feed(w[0], s[1])
        BY <1>6, <4>1
      <4> QED
        BY <1>3, <1>8, <4>2
    <3>2. w[1] = Term("numbers", <<0>>, <<>>, k)
      BY <1>6, <3>1, FeedBracket DEF t
    <3> HIDE DEF t, meaning
    <3>3. w[2 * 0 + 1] = w[1]
      OBVIOUS
    <3> QED
      BY <2>1, <3>2, <3>3
  <2>3. ASSUME NEW j \in Nat, j < many, w[2 * j + 1] = Term("numbers", Append(Q(j), 0), <<>>, k)
        PROVE  w[2 * (j + 1)] = Term("numbers", Q(j + 1), <<>>, k)
    <3>1. /\ 2 * (j + 1) \in 1..(2 * many + 1) /\ 2 * (j + 1) - 1 = 2 * j + 1
          /\ j + 1 \in 1..many /\ j \in 0..(many - 1) /\ j \in 0..many
      BY <1>4, <2>3
    <3> DEFINE v == attrs[j + 1]
    <3>2. v \in 0..9 /\ v = Longer(0, v) /\ 0 \in Nat /\ Q(j) \in Seq(Nat)
      <4>1. v \in 0..9 /\ Q(j) \in Seq(Nat)
        BY <2>1, <3>1
      <4> HIDE DEF v
      <4> QED
        BY <4>1 DEF Longer
    <3>3. w[2 * (j + 1)] = Feed(w[2 * j + 1], DigitChar[v + 1])
      <4>1. w[2 * (j + 1)] = Feed(w[2 * j + 1], s[2 * (j + 1)])
        BY <1>6, <3>1
      <4> QED
        BY <1>3, <3>1, <4>1
    <3>4. Append(Q(j), v) = Q(j + 1)
      BY <2>1, <3>1
    <3> HIDE DEF v
    <3>5. Feed(Term("numbers", Append(Q(j), 0), <<>>, k), DigitChar[v + 1])
            = Term("numbers", Append(Q(j), Longer(0, v)), <<>>, k)
      BY <3>2, FeedDigit
    <3> QED
      BY <2>3, <3>2, <3>3, <3>4, <3>5
  <2>4. ASSUME NEW j \in Nat, j \in S PROVE j + 1 \in S
    <3> SUFFICES ASSUME j + 1 < many
                 PROVE  w[2 * (j + 1) + 1] = Term("numbers", Append(Q(j + 1), 0), <<>>, k)
      OBVIOUS
    <3>1. w[2 * (j + 1)] = Term("numbers", Q(j + 1), <<>>, k)
      BY <1>4, <2>3, <2>4
    <3>2. /\ j + 1 \in 1..(many - 1) /\ 2 * (j + 1) + 1 \in 1..(2 * many + 1)
          /\ 2 * (j + 1) + 1 - 1 = 2 * (j + 1)
      BY <1>4
    <3>3. w[2 * (j + 1) + 1] = Feed(w[2 * (j + 1)], ";")
      <4>1. w[2 * (j + 1) + 1] = Feed(w[2 * (j + 1)], s[2 * (j + 1) + 1])
        BY <1>6, <3>2
      <4> QED
        BY <1>3, <3>2, <4>1
    <3> QED
      BY <3>1, <3>3, FeedSeparator
  <2>5. \A j \in Nat : j \in S
    <3> HIDE DEF S
    <3> QED
      BY <2>2, <2>4, SetInduction
  <2>6. w[2 * many] = Term("numbers", attrs, <<>>, k)
    <3>1. many - 1 \in Nat /\ many - 1 < many /\ many - 1 + 1 = many
      BY <1>4, <1>8
    <3>2. w[2 * (many - 1) + 1] = Term("numbers", Append(Q(many - 1), 0), <<>>, k)
      BY <2>5, <3>1
    <3>3. w[2 * (many - 1 + 1)] = Term("numbers", Q(many - 1 + 1), <<>>, k)
      BY <2>3, <3>1, <3>2
    <3> QED
      BY <2>1, <3>1, <3>3
  <2>7. w[2 * many + 1] = Feed(w[2 * many], "m")
    <3>1. PICK last \in 1..(2 * many + 1) : last = 2 * many + 1
      BY <1>4
    <3>2. 2 * many = last - 1
      BY <1>4, <3>1
    <3>3. w[last] = Feed(w[2 * many], s[last])
      BY <1>6, <3>2
    <3> QED
      BY <1>3, <3>1, <3>3
  <2>8. "m" \in Letters
    BY DEF Letters
  <2>9. Append(<<>>, Command("m", attrs)) = meaning
    BY <1>8
  <2> HIDE DEF meaning
  <2>10. Feed(Term("numbers", attrs, <<>>, k), "m")
           = Term("text", <<>>, Append(<<>>, Command("m", attrs)), k)
    BY <2>8, FeedLetter
  <2>11. Gets(t, s) = Term("text", <<>>, meaning, k)
    BY <1>6, <2>6, <2>7, <2>9, <2>10
  <2> QED
    BY <1>2, <1>3, <2>11, SentObeys DEF Obeyed, t
<1> QED
  BY <1>7, <1>8

\* Any call of the library.
LEMMA AnsiObeys ==
  ASSUME NEW k, term = Term("text", <<>>, <<>>, k), AnsiCall
  PROVE  Obeys(term', asked', k)
<1>1. CASE \E at \in Positions : term_ANSIDirectCursorAddr(at[1], at[2])
  <2>1. PICK at \in Positions : term_ANSIDirectCursorAddr(at[1], at[2])
    BY <1>1
  <2>2. at[1] \in 0..255 /\ at[2] \in 0..255
    BY ByteAssumption
  <2> QED
    BY <2>1, <2>2, DirectObeys
<1>2. CASE \E number \in Moves, dir \in DOMAIN DirLetter : term_ANSICursorMove(number, dir)
  <2>1. PICK number \in Moves, dir \in DOMAIN DirLetter : term_ANSICursorMove(number, dir)
    BY <1>2
  <2>2. number \in 0..255
    BY ByteAssumption
  <2> QED
    BY <2>1, <2>2, MoveObeys
<1>3. CASE \E dir \in DOMAIN Erased : term_ANSIClrLine(dir) \/ term_ANSIClrScrn(dir)
  BY <1>3, ClrLineObeys, ClrScrnObeys
<1>4. CASE \E prm \in Params : term_ANSISetParam(prm)
  BY <1>4, ByteAssumption, SetParamObeys
<1>5. CASE \E lm \in DOMAIN ModeDigit : term_ANSILineMode(lm)
  BY <1>5, LineModeObeys
<1>6. CASE \E c \in {"<", "7", "8", "D", "M"} : SimpleCommand(c)
  BY <1>6, SimpleObeys
<1> QED
  BY <1>1, <1>2, <1>3, <1>4, <1>5, <1>6 DEF AnsiCall

\* Text is shown, a character at a time.
LEMMA PlainFed ==
  ASSUME NEW d, NEW k \in Nat, NEW more \in Nat
  PROVE  Gets(Term("text", <<>>, d, k), [i \in 1..more |-> "x"])
           = Term("text", <<>>, d, k + more)
<1> DEFINE s == [i \in 1..more |-> "x"]
           w == [i \in 0..more |-> Term("text", <<>>, d, k + i)]
           t == Term("text", <<>>, d, k)
<1>1. s \in Seq({"x"}) /\ Len(s) = more
  OBVIOUS
<1>2. w[0] = t /\ w[more] = Term("text", <<>>, d, k + more)
  BY DEF Term
<1>3. ASSUME NEW i \in 1..more PROVE w[i] = Feed(w[i - 1], s[i])
  <2>1. i - 1 \in 0..more /\ i \in 0..more /\ k + (i - 1) + 1 = k + i
    OBVIOUS
  <2>2. s[i] = "x"
    OBVIOUS
  <2> HIDE DEF s
  <2>3. w[i - 1] = Term("text", <<>>, d, k + (i - 1)) /\ w[i] = Term("text", <<>>, d, k + i)
    BY <2>1
  <2>4. Feed(Term("text", <<>>, d, k + (i - 1)), "x") = Term("text", <<>>, d, k + (i - 1) + 1)
    BY FeedPlain
  <2> QED
    BY <2>1, <2>2, <2>3, <2>4
<1> HIDE DEF s, w, t
<1>4. Feeds(w, t, s)
  BY <1>1, <1>2, <1>3 DEF Feeds
<1>5. Gets(t, s) = w[Len(s)]
  BY <1>1, <1>4, GetsIs
<1> QED
  BY <1>1, <1>2, <1>5 DEF s, t

-----------------------------------------------------------------------------
(* cprintf and the terminal.                                               *)

\* What cprintf puts is behind what it has put.
LEMMA Grows ==
  ASSUME CountInv, Call \/ PutPlain \/ BarePercent \/ Number \/ Convert \/ PutNumber \/ PutString
  PROVE  Len(sent) \in Nat /\ Len(sent') \in Nat /\ Len(sent') >= Len(sent)
<1>1. sent \in Seq(Int) /\ Len(sent) \in Nat
  BY DEF CountInv
<1>2. CASE Call
  BY <1>1, <1>2 DEF Call, Idle
<1>3. CASE PutPlain
  <2>1. sent' = sent \o <<CR, LF>> \/ sent' = sent \o <<Letter>>
    BY <1>3 DEF PutPlain
  <2>2. <<CR, LF>> \in Seq(Int) /\ <<Letter>> \in Seq(Int)
    BY DEF CR, LF, Letter
  <2>3. \A more \in Seq(Int) : Len(sent \o more) \in Nat /\ Len(sent \o more) >= Len(sent)
    BY <1>1
  <2> QED
    BY <1>1, <2>1, <2>2, <2>3
<1>4. CASE BarePercent \/ Number \/ Convert
  BY <1>1, <1>4 DEF BarePercent, Number, Convert
<1>5. CASE PutNumber \/ PutString
  BY <1>1, <1>5, PutNumberCount, PutStringCount
<1> QED
  BY <1>2, <1>3, <1>4, <1>5

\* The program makes steps of cprintf, or leaves it alone.
LEMMA StepPrints == [OutputNext]_outputVars => [Next]_vars
<1>1. PrintStep => Next
  BY DEF PrintStep, Next
<1>2. AnsiStep => UNCHANGED vars
  BY DEF AnsiStep
<1>3. Forget => Next \/ UNCHANGED vars
  BY DEF Forget, Next
<1>4. UNCHANGED outputVars => UNCHANGED vars
  BY DEF outputVars
<1> QED
  BY <1>1, <1>2, <1>3, <1>4 DEF OutputNext

ObeyInv == CountInv /\ Obeys(term, asked, Len(sent))

LEMMA InitObeys == OutputInit => ObeyInv
<1> SUFFICES ASSUME OutputInit PROVE ObeyInv
  OBVIOUS
<1>1. CountInv
  BY InitCount DEF OutputInit
<1>2. sent = <<>> /\ asked = <<>> /\ term = Term("text", <<>>, <<>>, 0)
  BY DEF OutputInit, Init, AnsiInit, Term
<1>3. Len(sent) = 0
  BY <1>2
<1>4. Term("text", <<>>, <<>>, 0).did = <<>>
  BY DEF Term
<1> QED
  BY <1>1, <1>2, <1>3, <1>4 DEF ObeyInv, Obeys, Obeyed

\* When nothing was asked, nothing was done.
LEMMA NothingDone ==
  ASSUME NEW t, NEW k, Obeys(t, <<>>, k)
  PROVE  t = Term("text", <<>>, <<>>, k)
<1>1. <<>> # <<Command("J", <<1>>)>>
  OBVIOUS
<1> QED
  BY <1>1 DEF Obeys, Obeyed

LEMMA NextObeys == ObeyInv /\ [OutputNext]_outputVars => ObeyInv'
<1> SUFFICES ASSUME ObeyInv, [OutputNext]_outputVars PROVE ObeyInv'
  OBVIOUS
<1>1. CountInv /\ CountInv'
  BY StepPrints, NextCount DEF ObeyInv
<1>2. SUFFICES Obeys(term', asked', Len(sent'))
  BY <1>1 DEF ObeyInv
<1>3. CASE PrintStep
  <2> DEFINE more == Len(sent') - Len(sent)
             k == Len(sent)
  <2>1. /\ asked = <<>> /\ asked' = <<>>
        /\ term' = Gets(term, [i \in 1..more |-> "x"])
    BY <1>3 DEF PrintStep
  <2>2. Len(sent) \in Nat /\ Len(sent') \in Nat /\ Len(sent') >= Len(sent)
    BY <1>1, <1>3, Grows DEF PrintStep
  <2>3. more \in Nat /\ k \in Nat /\ k + more = Len(sent')
    BY <2>2
  <2>4. term = Term("text", <<>>, <<>>, k)
    BY <2>1, NothingDone DEF ObeyInv
  <2> HIDE DEF more, k
  <2>5. term' = Term("text", <<>>, <<>>, k + more)
    BY <2>1, <2>3, <2>4, PlainFed
  <2>6. Term("text", <<>>, <<>>, k + more).did = <<>>
    BY DEF Term
  <2> QED
    BY <2>1, <2>3, <2>5, <2>6 DEF Obeys, Obeyed
<1>4. CASE AnsiStep
  <2>1. asked = <<>> /\ AnsiCall /\ sent' = sent
    BY <1>4 DEF AnsiStep, vars
  <2>2. term = Term("text", <<>>, <<>>, Len(sent))
    BY <2>1, NothingDone DEF ObeyInv
  <2>3. Obeys(term', asked', Len(sent))
    BY <2>1, <2>2, AnsiObeys
  <2> QED
    BY <2>1, <2>3
<1>5. CASE Forget
  <2>1. sent' = <<>>
    BY <1>5 DEF Forget, Return, Idle, vars
  <2>2. asked' = <<>> /\ term' = [term EXCEPT !.did = <<>>, !.shown = 0]
    BY <1>5 DEF Forget
  <2>3. PICK d, k : term = Term("text", <<>>, d, k)
    BY DEF ObeyInv, Obeys, Obeyed
  <2>4. term' = Term("text", <<>>, <<>>, 0)
    <3>1. [Term("text", <<>>, d, k) EXCEPT !.did = <<>>] = Term("text", <<>>, <<>>, k)
      BY DEF Term
    <3>2. [Term("text", <<>>, <<>>, k) EXCEPT !.shown = 0] = Term("text", <<>>, <<>>, 0)
      BY DEF Term
    <3>3. term' = [[term EXCEPT !.did = <<>>] EXCEPT !.shown = 0]
      BY <2>2
    <3> QED
      BY <2>3, <3>1, <3>2, <3>3
  <2>5. Len(sent') = 0
    BY <2>1
  <2>6. Term("text", <<>>, <<>>, 0).did = <<>>
    BY DEF Term
  <2> QED
    BY <2>2, <2>4, <2>5, <2>6 DEF Obeys, Obeyed
<1>6. CASE UNCHANGED outputVars
  <2>1. term' = term /\ asked' = asked /\ sent' = sent
    BY <1>6 DEF outputVars, vars, ansiVars
  <2> QED
    BY <2>1 DEF ObeyInv
<1> QED
  BY <1>3, <1>4, <1>5, <1>6 DEF OutputNext

LEMMA ObeyInvHolds == OutputSpec => []ObeyInv
BY InitObeys, NextObeys, PTL DEF OutputSpec

\* The terminal does exactly what a call means and is back at text, whatever
\* the numbers and attributes, and between calls of cprintf with any format:
\* no command is shown, no text taken for one (ansi_term.c, cprintf).
THEOREM TerminalObeysHolds == OutputSpec => []TerminalObeys
<1>1. ObeyInv => TerminalObeys
  <2> SUFFICES ASSUME ObeyInv PROVE TerminalObeys
    OBVIOUS
  <2>1. /\ term = Term("text", <<>>, term.did, Len(sent))
        /\ \/ term.did = asked
           \/ asked = <<Command("J", <<1>>)>> /\ term.did = <<Command("J", <<0>>)>>
    BY DEF ObeyInv, Obeys, Obeyed
  <2>2. \A d, k : Term("text", <<>>, d, k).mode = "text" /\ Term("text", <<>>, d, k).shown = k
    BY DEF Term
  <2>3. term.mode = "text" /\ term.shown = Len(sent)
    BY <2>1, <2>2
  <2> QED
    BY <2>1, <2>3 DEF TerminalObeys
<1> QED
  BY <1>1, ObeyInvHolds, PTL

\* The calls of the terminal functions change nothing of cprintf: what is
\* proved of cprintf alone holds of the program that uses both.
THEOREM PrintsAlone == OutputSpec => Spec
<1>1. OutputInit => Init
  BY DEF OutputInit
<1> QED
  BY <1>1, StepPrints, PTL DEF OutputSpec, Spec

\* What every call of either kind leaves: room and digits of a number, the
\* characters counted and fields of cprintf, in a program that uses both.
THEOREM OutputRight == OutputSpec => [](PlaceExists /\ DigitsRight /\ CountRight /\ FieldRight)
BY PrintsAlone, NumbersRight, CountRightHolds, FieldRightHolds, PTL
=============================================================================
