---------------------------- MODULE MCModprnIrq ----------------------------
(***************************************************************************)
(* The peers ModprnIrq is checked with.                                    *)
(***************************************************************************)
EXTENDS ModprnIrq

\* One overruns the chip in a single burst but stops at once; one sends
\* little but stops late, and just Fits the buffer.
BurstyOrSlow == {[burst |-> 4, slack |-> 0], [burst |-> 1, slack |-> 1]}

\* A peer whose late characters meet a half-read buffer.
Slow == {[burst |-> 2, slack |-> 1]}
=============================================================================
