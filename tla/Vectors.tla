------------------------------ MODULE Vectors ------------------------------
(***************************************************************************)
(* The interrupt vectors of both channels: src/hw/common/hw_common.c keeps *)
(* the table, modprn_setupInterrupts of src/hw/modprn02/hw_modprn02.c puts *)
(* the handlers into it and tells the chip the vector its interrupts       *)
(* start from.  The Z80 takes the handler from the table's word at the     *)
(* vector; the SIO has put the channel and the kind of interrupt into bits *)
(* 1 to 3 of the vector.  Neither is in the repository.                    *)
(***************************************************************************)
EXTENDS Integers

CONSTANTS
  Empty        \* empty_ISR

Channels == {"A", "B"}
Source(c, kind) == <<c, kind>>
NoSource == <<"", "">>

VARIABLES
  vec_table,   \* 128 words
  vector,      \* the chip's write register 2
  intOn,       \* channels whose interrupts are enabled (register 1)
  ei,          \* the processor's interrupts are
  rxAvail,     \* channels with an unread character
  rxError,     \* those with a pending error
  served       \* history: the interrupt last taken, and the handler it got

vecVars == <<vec_table, vector, intOn, ei, rxAvail, rxError, served>>

-----------------------------------------------------------------------------

\* Interrupts off, every vector to empty_ISR.
hw_setupInterrupts ==
  /\ ei' = FALSE
  /\ vec_table' = [i \in 0..127 |-> Empty]
  /\ UNCHANGED <<vector, intOn, rxAvail, rxError, served>>

BugNotHalved(handNo) == handNo % 128
Index(handNo) == handNo \div 2

\* SIO_VECT_LOC_MASK clears bits 1 to 3.
Masked(start) == (start \div 16) * 16 + (start % 2)

Handled == {Source(c, kind) : c \in Channels, kind \in {"status", "rx", "special"}}

\* What is or-ed to the start for a handler.
HandNo(s) ==
  LET no == [status |-> [A |-> 10, B |-> 2], rx |-> [A |-> 12, B |-> 4], special |-> [A |-> 14, B |-> 6]]
  IN  no[s[2]][s[1]]

\* hw_addInterruptHandler for the six handlers, then registers 2 and 1.
modprn_setupInterrupts(ivect_start) ==
  LET start == Masked(ivect_start)
  IN  /\ vec_table' =
           [i \in 0..127 |->
              IF \E s \in Handled : i = Index(start + HandNo(s))
              THEN CHOOSE s \in Handled : i = Index(start + HandNo(s))
              ELSE vec_table[i]]
      /\ vector' = start
      /\ intOn' = Channels
      /\ UNCHANGED <<ei, rxAvail, rxError, served>>

hw_enableInterrupts ==
  /\ ei' = TRUE
  /\ UNCHANGED <<vec_table, vector, intOn, rxAvail, rxError, served>>

\* A character, or one too many.
Arrive(c) ==
  /\ rxAvail' = rxAvail \cup {c}
  /\ rxError' = IF c \in rxAvail THEN rxError \cup {c} ELSE rxError
  /\ UNCHANGED <<vec_table, vector, intOn, ei, served>>

\* What the receive handlers read and what the others reset; empty_ISR
\* halts with interrupts off.
Handler(s) ==
  /\ rxAvail' = IF s # Empty /\ s[2] = "rx" THEN rxAvail \ {s[1]} ELSE rxAvail
  /\ rxError' = IF s # Empty /\ s[2] # "rx" THEN rxError \ {s[1]} ELSE rxError
  /\ ei' = (s # Empty)

\* The SIO puts the channel and the kind into bits 3, 2 and 1 of its vector;
\* the processor takes the word the vector points at.
Interrupt(c) ==
  LET s       == Source(c, IF c \in rxError THEN "special" ELSE "rx")
      status  == (IF c = "A" THEN 4 ELSE 0) + (IF c \in rxError THEN 3 ELSE 2)
      handler == vec_table[(vector + 2 * status) \div 2]
  IN  /\ ei /\ c \in intOn /\ c \in rxAvail
      /\ Handler(handler)
      /\ served' = <<s, handler>>
      /\ UNCHANGED <<vec_table, vector, intOn>>

VecInit ==
  /\ vec_table = [i \in 0..127 |-> Empty]
  /\ vector = 0 /\ intOn = {} /\ ei = FALSE
  /\ rxAvail = {} /\ rxError = {} /\ served = <<NoSource, NoSource>>

-----------------------------------------------------------------------------

\* Each interrupt of either channel reaches the handler written for it, for
\* every even start of the vectors; none halts in empty_ISR
\* (modprn_setupInterrupts, hw_addInterruptHandler).
OwnHandler == served[1] = served[2]
=============================================================================
