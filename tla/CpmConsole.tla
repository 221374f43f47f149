----------------------------- MODULE CpmConsole -----------------------------
(***************************************************************************)
(* Reading lines with cpm_gets of src/syslib/cpm_sysfunc.c, between other  *)
(* calls through the same gate, cpmbdos_extn of src/cpm/cpmbdos.c.  The    *)
(* line buffer and the cells the gate stores BDOS's registers in are       *)
(* neighbours in memory, and a full line leaves no room for its end.       *)
(*                                                                         *)
(* BDOS and the user are not in the repository: BDOS hands over a line of  *)
(* at most the size it is given, without an end marker                     *)
(* (doc/bdos_calls.txt).                                                   *)
(***************************************************************************)
EXTENDS Integers, Sequences, SequencesExt

CONSTANTS
  Size,      \* bytes in rs_buf.bytes
  Chars,     \* what the user types
  Newline,
  RegBytes,  \* what registers may hold when BDOS returns, 0 included
  BootBytes, \* what memory may hold when the program starts
  MaxCalls   \* bound on the calls a program makes

ASSUME SizeAssumption == Size \in Nat \ {0} /\ 0 \notin Chars \cup {Newline}

VARIABLES
  func8,     \* bdos_readstr's function, and with it the address of rs_buf
  mem,       \* rs_buf.bytes, then ret_ba and ret_hl, a byte each
  str,       \* the string the last cpm_gets returned
  line,      \* history: the line the user typed for it
  stored,    \* history: what the gate stored last
  full,      \* history: the last call through the gate read a full line
  running,   \* the program has neither ended nor run wild
  calls      \* calls made

vars == <<func8, mem, str, line, stored, full, running, calls>>

None == <<>>

C_READSTR == 10

\* cpm0.s does not clear the data area: before cpm_sysfunc_init the call
\* block holds whatever memory held.
Wild == -1

\* Where the gate's two words are: b, a, h, l, as it stores them.
Cells == Size..(Size + 3)

\* The bytes in memory order from i on, as far as they belong to these
\* variables.
From(i) == [j \in 1..(Size + 4 - i) |-> mem'[i + j - 1]]

-----------------------------------------------------------------------------

\* The registers BDOS returns with; those in pairs BC and HL end up in
\* ret_ba and ret_hl with their bytes swapped.
cpmbdos_extn(m, regs) ==
  [i \in DOMAIN m |->
     CASE i = Size     -> regs.b
       [] i = Size + 1 -> regs.a
       [] i = Size + 2 -> regs.h
       [] i = Size + 3 -> regs.l
       [] OTHER        -> m[i]]

Regs == [a : RegBytes, b : RegBytes, h : RegBytes, l : RegBytes]

Counted == running /\ calls < MaxCalls /\ calls' = calls + 1

cpm_sysfunc_init ==
  /\ Counted
  /\ func8' = C_READSTR
  /\ UNCHANGED <<mem, str, line, stored, full, running>>

BugStaleBytes(m) == m

\* memset(rs_buf.bytes, 0, sizeof(rs_buf.bytes)).
Cleared(m) == [i \in DOMAIN m |-> IF i < Size THEN 0 ELSE m[i]]

\* C_READSTR puts the line's bytes into the buffer and nothing behind them.
ReadLine(m, s) ==
  [i \in DOMAIN m |-> IF i < Len(s) THEN s[i + 1] ELSE m[i]]

BugEndBehind(m, len) == [m EXCEPT ![len + 1] = Newline]

\* rs_buf.bytes[rs_buf.len] = '\n': for a full line this is ret_ba's first
\* byte.
EndLine(m, len) == [m EXCEPT ![len] = Newline]

\* What strcpy copies: the bytes up to the first zero.  When there is none
\* it goes on into variables of other modules.
CString(s) ==
  LET end == SelectInSeq(s, LAMBDA c : c = 0)
  IN  IF end = 0 THEN s ELSE SubSeq(s, 1, end - 1)

cpm_gets(s, regs) ==
  /\ Counted
  /\ func8 = C_READSTR
  /\ mem' = EndLine(cpmbdos_extn(ReadLine(Cleared(mem), s), regs), Len(s))
  /\ str' = CString(From(0))
  /\ line' = s
  /\ stored' = regs
  /\ full' = (Len(s) = Size)
  /\ UNCHANGED <<func8, running>>

\* Before cpm_sysfunc_init BDOS is given a function and an address nobody
\* chose: nothing can be said of the program from there on.
GetsTooEarly ==
  /\ Counted
  /\ func8 = Wild
  /\ mem' = Cleared(mem)
  /\ running' = FALSE
  /\ UNCHANGED <<func8, str, line, stored, full>>

\* cpm_getchar, cpm_putchar, the drive and file functions.
OtherCall(regs) ==
  /\ Counted
  /\ mem' = cpmbdos_extn(mem, regs)
  /\ stored' = regs
  /\ full' = FALSE
  /\ UNCHANGED <<func8, str, line, running>>

cpm_reset ==
  /\ Counted
  /\ running' = FALSE
  /\ UNCHANGED <<func8, mem, str, line, stored, full>>

Stop == (~running \/ calls = MaxCalls) /\ UNCHANGED vars

Lines == UNION {[1..n -> Chars] : n \in 0..Size}

Init ==
  /\ func8 = Wild
  /\ mem \in [0..(Size + 3) -> BootBytes]
  /\ str = None /\ line = None /\ stored = None /\ full = FALSE
  /\ running = TRUE /\ calls = 0

Next ==
  \/ cpm_sysfunc_init
  \/ \E s \in Lines, regs \in Regs : cpm_gets(s, regs)
  \/ GetsTooEarly
  \/ \E regs \in Regs : OtherCall(regs)
  \/ cpm_reset
  \/ Stop

Spec == Init /\ [][Next]_vars

-----------------------------------------------------------------------------

\* A line that leaves room for the newline and a zero comes back exactly,
\* whatever longer lines were read before and whatever BDOS left in the
\* registers.  One that does not (cpm_gets never keeps a byte for the zero)
\* comes back whole, with its newline, but followed by the gate's cells.
GetsReturnsLine ==
  str # None =>
    /\ Len(line) + 2 <= Size => str = Append(line, Newline)
    /\ IsPrefix(Append(line, Newline), str)

\* The gate's cells hold what BDOS returned last: the newline of a full line
\* spoils one byte of ret_ba, and that only until the next call through the
\* gate, be it a shorter line or any other function.
CellsKept ==
  stored # None =>
    /\ mem[Size] = IF full THEN Newline ELSE stored.b
    /\ mem[Size + 1] = stored.a /\ mem[Size + 2] = stored.h /\ mem[Size + 3] = stored.l

=============================================================================
