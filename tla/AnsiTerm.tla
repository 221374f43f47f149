------------------------------ MODULE AnsiTerm ------------------------------
(***************************************************************************)
(* The escape sequences of src/syslib/ansi_term.c.  The terminal is not in *)
(* the repository: it takes the characters one by one, executes a sequence *)
(* when its last character has come, ignores those it does not know, and   *)
(* shows everything else.                                                  *)
(***************************************************************************)
EXTENDS Integers, SequencesExt

CONSTANTS
  Positions, \* pairs of uint8_t: what the cursor is addressed with
  Moves,     \* uint8_t: what the cursor is moved by
  Params     \* uint8_t: attributes

ASSUME ByteAssumption ==
  /\ Positions \subseteq (0..255) \X (0..255)
  /\ Moves \cup Params \subseteq 0..255

VARIABLES
  term,      \* the terminal: what it is reading, did and has shown
  asked      \* history: what the last call means

ansiVars == <<term, asked>>

Esc == "ESC"
DigitChar == <<"0", "1", "2", "3", "4", "5", "6", "7", "8", "9">>

Command(letter, numbers) == [letter |-> letter, numbers |-> numbers]

-----------------------------------------------------------------------------
(* The terminal.                                                           *)

\* In text nothing of a sequence has come; a "[" sequence has numbers, and a
\* "#" sequence one.
Enters(t, mode) ==
  [t EXCEPT !.mode = mode, !.numbers = IF mode \in {"numbers", "line"} THEN <<0>> ELSE <<>>]

Does(t, letter) ==
  Enters([t EXCEPT !.did = Append(@, Command(letter, t.numbers))], "text")

IsDigit(c) == c \in ToSet(DigitChar)

Value(c) == CHOOSE k \in 0..9 : DigitChar[k + 1] = c

AddDigit(t, c) == [t EXCEPT !.numbers = Append(Front(@), 10 * Last(@) + Value(c))]

InEscape(t, c) ==
  CASE c = "["                         -> Enters(t, "numbers")
    [] c = "#"                         -> Enters(t, "line")
    [] c \in {"7", "8", "D", "M", "<"} -> Does(t, c)
    [] OTHER                           -> Enters(t, "text")

InNumbers(t, c) ==
  CASE c = ";"    -> [t EXCEPT !.numbers = Append(@, 0)]
    [] IsDigit(c) -> AddDigit(t, c)
    [] OTHER      -> Does(t, c)

Feed(t, c) ==
  CASE t.mode = "text"    -> IF c = Esc THEN Enters(t, "escape") ELSE [t EXCEPT !.shown = @ + 1]
    [] t.mode = "escape"  -> InEscape(t, c)
    [] t.mode = "numbers" -> InNumbers(t, c)
    [] t.mode = "line"    -> IF IsDigit(c) THEN Does(AddDigit(t, c), "#") ELSE Enters(t, "text")

Gets(t, chars) ==
  LET after[i \in 0..Len(chars)] == IF i = 0 THEN t ELSE Feed(after[i - 1], chars[i])
  IN  after[Len(chars)]

-----------------------------------------------------------------------------
(* The library.                                                            *)

Decimal(n) == <<DigitChar[n \div 100 + 1], DigitChar[(n % 100) \div 10 + 1], DigitChar[(n % 10) + 1]>>

\* Each call sends one command, after an escape character.
term_sendCommand(cmd, meaning) ==
  /\ term' = Gets(term, <<Esc>> \o cmd)
  /\ asked' = meaning

term_ANSIDirectCursorAddr(column, line) ==
  term_sendCommand(<<"[">> \o Decimal(line) \o <<";">> \o Decimal(column) \o <<"H">>,
                   <<Command("H", <<line, column>>)>>)

DirLetter == [up |-> "A", down |-> "B", right |-> "C", left |-> "D"]

term_ANSICursorMove(spaces, dir) ==
  term_sendCommand(<<"[">> \o Decimal(spaces) \o <<DirLetter[dir]>>,
                   <<Command(DirLetter[dir], <<spaces>>)>>)

Erased == [after |-> 0, before |-> 1, all |-> 2]

term_ANSIClrLine(dir) ==
  term_sendCommand(<<"[", DigitChar[Erased[dir] + 1], "K">>, <<Command("K", <<Erased[dir]>>)>>)

\* Before the cursor is treated as behind it.
term_ANSIClrScrn(dir) ==
  term_sendCommand(<<"[", IF dir = "all" THEN "2" ELSE "0", "J">>,
                   <<Command("J", <<Erased[dir]>>)>>)

\* All off, bold, underscore, blink and reverse, in this order.
Attribute(prm, mask, number) == IF (prm \div mask) % 2 = 1 THEN <<number>> ELSE <<>>

Attributes(prm) ==
  Attribute(prm, 1, 0) \o Attribute(prm, 2, 1) \o Attribute(prm, 4, 4)
    \o Attribute(prm, 8, 5) \o Attribute(prm, 16, 7)

\* "[_;_;_;_;_m", with the numbers in place of its blanks.
Template(attrs, i) ==
  IF i = 1 THEN "[" ELSE IF i % 2 = 0 THEN DigitChar[attrs[i \div 2] + 1] ELSE ";"

BugLastSeparator(attrs) ==
  [i \in 1..(2 * Len(attrs) + 2) |-> IF i = 2 * Len(attrs) + 2 THEN "m" ELSE Template(attrs, i)]

\* The "m" overwrites the separator behind the last number; when there is no
\* number, the "[".
ParamCmd(attrs) ==
  [i \in 1..(2 * Len(attrs) + 1) |-> IF i = 2 * Len(attrs) + 1 THEN "m" ELSE Template(attrs, i)]

term_ANSISetParam(prm) ==
  LET attrs == Attributes(prm)
  IN  term_sendCommand(ParamCmd(attrs),
                       IF attrs = <<>> THEN <<>> ELSE <<Command("m", attrs)>>)

ModeDigit == [doubleh_top |-> 3, doubleh_bottom |-> 4, singlew_singleh |-> 5, doublew_singleh |-> 6]

term_ANSILineMode(lm) ==
  term_sendCommand(<<"#", DigitChar[ModeDigit[lm] + 1]>>, <<Command("#", <<ModeDigit[lm]>>)>>)

\* term_ANSIMode, SaveCursor, RestoreCursor, Index and ReverseIndex.
SimpleCommand(c) == term_sendCommand(<<c>>, <<Command(c, <<>>)>>)

AnsiInit ==
  /\ term = [mode |-> "text", numbers |-> <<>>, did |-> <<>>, shown |-> 0]
  /\ asked = <<>>

AnsiCall ==
  \/ \E at \in Positions : term_ANSIDirectCursorAddr(at[1], at[2])
  \/ \E n \in Moves, dir \in DOMAIN DirLetter : term_ANSICursorMove(n, dir)
  \/ \E dir \in DOMAIN Erased : term_ANSIClrLine(dir) \/ term_ANSIClrScrn(dir)
  \/ \E prm \in Params : term_ANSISetParam(prm)
  \/ \E lm \in DOMAIN ModeDigit : term_ANSILineMode(lm)
  \/ \E c \in {"<", "7", "8", "D", "M"} : SimpleCommand(c)
=============================================================================
