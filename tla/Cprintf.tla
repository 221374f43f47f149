------------------------------ MODULE Cprintf ------------------------------
(***************************************************************************)
(* cprintf of src/syslib/cprintf.c: the directives of a format, one after  *)
(* the other, with __numout for the numbers.  A format is a sequence of    *)
(* parsed directives:                                                      *)
(*   [kind |-> "char"], "newline", "percent" (a format that ends in one),  *)
(*   "c", "other" (any letter cprintf does not know), and, with a field,   *)
(*   "s", "d", "u", "o", "x", whose width is negative after "-".           *)
(***************************************************************************)
EXTENDS Numout, Sequences, SequencesExt

CONSTANTS
  IntHalf,   \* INT_MAX + 1; short is as wide as int
  Formats    \* the formats a program prints

ASSUME IntAssumption == IntHalf \in 1..Half

Numbers == {"d", "u", "o", "x"}

Directive ==
  [kind : {"char", "newline", "percent", "c", "other"}]
  \cup [kind : {"s"} \cup Numbers, length : {"h", "", "l"},
        width : Int, prec : Nat, zero : BOOLEAN]

ASSUME FormatAssumption == Formats \subseteq Seq(Directive)

VARIABLES
  fmt,       \* directives not yet handled
  sent,      \* characters put
  count,     \* what cprintf will return
  field      \* history: the last field, and the text it shows

vars == <<numVars, fmt, sent, count, field>>

Letter == -3   \* a character of a text
CR     == -4
LF     == -5
Space  == -6

NoField == [text |-> <<>>, chars |-> <<>>, width |-> 0, prec |-> 0]

Conversion == Head(fmt)

Ready(kinds) == stage = "idle" /\ fmt # <<>> /\ Conversion.kind \in kinds

Spaces(k) == [i \in 1..k |-> Space]
Pads(k, zero) == [i \in 1..k |-> IF zero THEN 0 ELSE Space]

-----------------------------------------------------------------------------

\* A carriage return goes before a newline and is not counted.
PutPlain ==
  /\ Ready({"char", "newline", "c", "other"})
  /\ sent' = sent \o (IF Conversion.kind = "newline" THEN <<CR, LF>> ELSE <<Letter>>)
  /\ count' = count + 1
  /\ fmt' = Tail(fmt)
  /\ UNCHANGED <<numVars, field>>

\* The format ends behind a "%", which has been counted.
BarePercent ==
  /\ Ready({"percent"})
  /\ count' = count + 1
  /\ fmt' = <<>>
  /\ UNCHANGED <<numVars, sent, field>>

\* What va_arg may yield for a length of "h", none or "l".
Args(length, signed) ==
  LET half == IF length = "l" THEN Half ELSE IntHalf
  IN  IF signed THEN (-half)..(half - 1) ELSE 0..(2 * half - 1)

\* An unsigned long assigned to a long.
Signed(v) == IF v >= Half THEN v - 2 * Half ELSE v

Number ==
  /\ Ready(Numbers)
  /\ \E v \in Args(Conversion.length, Conversion.kind = "d") :
       numout(Signed(v), CASE Conversion.kind = "d" -> -10
                           [] Conversion.kind = "u" -> 10
                           [] Conversion.kind = "o" -> 8
                           [] Conversion.kind = "x" -> 16)
  /\ UNCHANGED <<fmt, sent, count, field>>

Convert == (Digit \/ Sign) /\ UNCHANGED <<fmt, sent, count, field>>

\* The characters put for a text: minsize is made up with padch in front, or
\* with spaces behind, for the length the text has before maxsize cuts it.
BugPadLeft(text, width, prec, zero) ==
  LET lack == (IF width < 0 THEN -width ELSE width) - Len(text)
      cut  == SubSeq(text, 1, IF prec > 0 /\ prec < Len(text) THEN prec ELSE Len(text))
  IN  (IF width > 0 THEN Pads(lack, zero) ELSE <<>>) \o cut
        \o (IF width < 0 THEN Spaces(-width) ELSE <<>>)

Padded(text, width, prec, zero) ==
  LET lack == (IF width < 0 THEN -width ELSE width) - Len(text)
      cut  == SubSeq(text, 1, IF prec > 0 /\ prec < Len(text) THEN prec ELSE Len(text))
  IN  (IF width > 0 THEN Pads(lack, zero) ELSE <<>>) \o cut
        \o (IF width < 0 THEN Spaces(lack) ELSE <<>>)

BugCounted(k) == k + 1
Counted(k)    == k      \* the "%" was counted, and is taken back

PutField(text) ==
  LET chars == Padded(text, Conversion.width, Conversion.prec, Conversion.zero)
  IN  /\ sent' = sent \o chars
      /\ count' = count + Counted(Len(chars))
      /\ field' = [text |-> text, chars |-> chars,
                   width |-> Conversion.width, prec |-> Conversion.prec]
      /\ fmt' = Tail(fmt)

\* cprintf's part after __numout.
PutNumber ==
  /\ NumReturn
  /\ PutField(SubSeq([k \in 1..NUMLTH |-> out[k - 1]], n + 2, NUMLTH))

PutString ==
  /\ Ready({"s"})
  /\ \E len \in 0..3 : PutField([i \in 1..len |-> Letter])
  /\ UNCHANGED numVars

\* No call is under way, and nothing is left of the one before.
Idle == stage = "idle" /\ fmt = <<>> /\ sent = <<>> /\ count = 0

Call ==
  /\ Idle
  /\ fmt' \in Formats
  /\ UNCHANGED <<numVars, sent, count, field>>

Return ==
  /\ stage = "idle" /\ fmt = <<>> /\ ~Idle
  /\ sent' = <<>> /\ count' = 0 /\ field' = NoField
  /\ UNCHANGED <<numVars, fmt>>

Init == NumInit /\ fmt = <<>> /\ sent = <<>> /\ count = 0 /\ field = NoField

Next ==
  \/ Call \/ PutPlain \/ BarePercent \/ Number \/ Convert \/ PutNumber \/ PutString
  \/ Return

Spec == Init /\ [][Next]_vars

-----------------------------------------------------------------------------

\* What cprintf returns is the number of characters it put, carriage returns
\* and a last, bare "%" apart, whatever was padded or cut.
CountRight ==
  LET crs == Cardinality({i \in DOMAIN sent : sent[i] = CR})
  IN  \/ count = Len(sent) - crs
      \/ count = Len(sent) - crs + 1 /\ fmt = <<>>

\* A field is exactly as wide as asked for, or as its text if that is wider,
\* and the text stands whole at the side the sign of the width says.  (With a
\* precision shorter than the text the field comes out narrower: the padding
\* is computed before the cut.)
FieldRight ==
  LET f == field
      w == IF f.width < 0 THEN -f.width ELSE f.width
  IN  f.prec = 0 \/ f.prec >= Len(f.text) =>
        /\ Len(f.chars) = IF w > Len(f.text) THEN w ELSE Len(f.text)
        /\ IF f.width < 0 THEN IsPrefix(f.text, f.chars) ELSE IsSuffix(f.text, f.chars)
=============================================================================
