------------------------------- MODULE Numout -------------------------------
(***************************************************************************)
(* __numout of src/syslib/cprintf.c: the digits of a number, written from  *)
(* the last place of a fixed buffer to the front, one loop pass a step.    *)
(* The buffer is just large enough: there is no test in the loop.          *)
(*                                                                         *)
(* A long is in -Half..Half-1 and wraps; an unsigned long is in            *)
(* 0..2*Half-1.                                                            *)
(***************************************************************************)
EXTENDS Integers

CONSTANTS
  Half,      \* LONG_MAX + 1
  NUMLTH,    \* places for digits and sign in out
  Power      \* Power[b][k] is the k-th power of b

Bases == {8, 10, 16}

ASSUME PowerAssumption ==
  /\ NUMLTH \in Nat \ {0}
  /\ Power \in [Bases -> [0..NUMLTH -> Nat]]
  /\ \A b \in Bases :
       /\ Power[b][0] = 1
       /\ \A k \in 0..(NUMLTH - 1) : Power[b][k + 1] = b * Power[b][k]

\* What NUMLTH is chosen for: the largest number has that many digits at
\* most, and the most negative one leaves a place for its sign.
ASSUME RoomAssumption ==
  /\ Half \in Nat \ {0}
  /\ \A b \in Bases : 2 * Half <= Power[b][NUMLTH]
  /\ Half < Power[10][NUMLTH - 1]

VARIABLES
  stage,     \* "idle", "digits", "sign", "text"
  base,
  flg,       \* the number is negative
  val,       \* what is left of it
  n,         \* the next place in out
  out,       \* the places, each with a digit's value, or Minus
  arg,       \* history: the number asked for, as the caller means it
  read       \* history: what the digits written so far denote

numVars == <<stage, base, flg, val, n, out, arg, read>>

Blank == -1   \* a place not written
Minus == -2   \* the sign

-----------------------------------------------------------------------------

\* A long's bits as an unsigned long.
Unsigned(i) == IF i < 0 THEN i + 2 * Half ELSE i

BugNotNegated(i, b) == Unsigned(i)

\* The magnitude; -LONG_MIN is LONG_MIN again, whose bits are right.
Magnitude(i, b) == IF b < 0 /\ i < 0 THEN Unsigned(-i) ELSE Unsigned(i)

BugFirstPlace == NUMLTH
FirstPlace    == NUMLTH - 1

\* i is a long; base -10 asks for a signed number.
numout(i, b) ==
  /\ stage' = "digits"
  /\ base' = IF b < 0 THEN -b ELSE b
  /\ flg' = (b < 0 /\ i < 0)
  /\ val' = Magnitude(i, b)
  /\ n' = FirstPlace
  /\ out' = [k \in 0..(NUMLTH - 1) |-> Blank]
  /\ arg' = IF b < 0 THEN i ELSE Unsigned(i)
  /\ read' = 0

Digit ==
  /\ stage = "digits"
  /\ out' = [out EXCEPT ![n] = val % base]
  /\ read' = read + out'[n] * Power[base][NUMLTH - 1 - n]
  /\ val' = val \div base
  /\ n' = n - 1
  /\ stage' = IF val' = 0 THEN "sign" ELSE "digits"
  /\ UNCHANGED <<base, flg, arg>>

Sign ==
  /\ stage = "sign"
  /\ out' = IF flg THEN [out EXCEPT ![n] = Minus] ELSE out
  /\ n' = IF flg THEN n - 1 ELSE n
  /\ stage' = "text"
  /\ UNCHANGED <<base, flg, val, arg, read>>

NumReturn ==
  /\ stage = "text"
  /\ stage' = "idle" /\ base' = 10 /\ flg' = FALSE /\ val' = 0 /\ n' = 0
  /\ out' = [k \in 0..(NUMLTH - 1) |-> Blank] /\ arg' = 0 /\ read' = 0

NumInit ==
  /\ stage = "idle" /\ base = 10 /\ flg = FALSE /\ val = 0 /\ n = 0
  /\ out = [k \in 0..(NUMLTH - 1) |-> Blank] /\ arg = 0 /\ read = 0

\* Any caller: a long and a base.
NumNext ==
  \/ /\ stage = "idle"
     /\ \E i \in (-Half)..(Half - 1), b \in Bases \cup {-10} : numout(i, b)
  \/ Digit \/ Sign \/ NumReturn

NumSpec == NumInit /\ [][NumNext]_numVars

-----------------------------------------------------------------------------

\* No digit and no sign is written in front of out, for any number in any
\* base: the loop's only bound is that the number runs out (__numout).
PlaceExists ==
  stage = "digits" \/ (stage = "sign" /\ flg) => n \in 0..(NUMLTH - 1)

\* The digits denote the number asked for, LONG_MIN included.
DigitsRight == stage = "text" => arg = IF flg THEN -read ELSE read
=============================================================================
